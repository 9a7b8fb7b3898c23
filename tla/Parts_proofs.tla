----------------------------- MODULE Parts_proofs ----------------------------
(***************************************************************************)
(* Proofs about five parts that share nothing: the task runner of pm and   *)
(* rosalina, for any clients and tasks; the limits of applications in pm   *)
(* (PmResLimit, below as Limits), for any titles, descriptors and shares;  *)
(* the debugger's server in rosalina (GdbServer, below as Gdb), for any    *)
(* contexts, ports and processes; what the console boots (Arm9Boot, below  *)
(* as Boots), for any options, buttons, EmuNANDs and versions; and the     *)
(* dialogs of rosalina (RosalinaMenu, below as Menu), for any entries.     *)
(***************************************************************************)
EXTENDS TaskRunner, Integers, FiniteSetTheorems, NaturalsInduction, WellFoundedInduction, TLAPS

-----------------------------------------------------------------------------
(* The task runner.  The two events and the clients that store a task pass *)
(* one token around: while the worker waits, it is in readyEvent, with one *)
(* client, or in parametersSetEvent; otherwise the worker has it.          *)

Storing(c) == client[c].at \in {"storeTask", "storeArgs", "signal"}

\* Where the token is.
Token ==
  /\ worker # "wait" => ~readyEvent /\ ~parametersSetEvent
  /\ \A c \in Clients : Storing(c) => worker = "wait"
  /\ \A c \in Clients : Storing(c) => ~readyEvent /\ ~parametersSetEvent
  /\ \A c, d \in Clients : Storing(c) /\ Storing(d) => c = d
  /\ ~(readyEvent /\ parametersSetEvent)

\* What the client that has it has stored.
Stored ==
  \A c \in Clients :
    /\ client[c].at # "idle" => client[c].task \in Callable
    /\ client[c].at \in {"storeArgs", "signal"} => task = client[c].task
    /\ client[c].at = "signal" =>
         (client[c].task \in Tasks => argStorage = client[c].task)

Inv == TypeOK /\ Token /\ Stored /\ TaskHasItsArguments

LEMMA InitInv == Init => Inv
<1> SUFFICES ASSUME Init PROVE Inv
  OBVIOUS
<1>1. \A c \in Clients : client[c].at = "idle" /\ client[c].task = None
  BY DEF Init, Idle
<1>2. TypeOK
  BY DEF Init, TypeOK, Idle, Callable
<1>3. Token
  BY <1>1 DEF Init, Token, Storing
<1>4. Stored
  BY <1>1 DEF Stored
<1>5. TaskHasItsArguments
  BY DEF Init, TaskHasItsArguments
<1> QED
  BY <1>2, <1>3, <1>4, <1>5 DEF Inv

\* A client that begins a call touches nothing of the runner but the flag.
LEMMA CallInv ==
  ASSUME Inv, NEW c \in Clients, NEW x \in Callable, Call(c, x),
         shouldTerminate' \in BOOLEAN
  PROVE  Inv'
BY TasksAssumption
DEF Inv, TypeOK, Token, Stored, TaskHasItsArguments, Storing, Idle, Callable, Call

LEMMA WaitReadyInv ==
  ASSUME Inv, NEW c \in Clients, WaitReady(c)
  PROVE  Inv'
BY DEF Inv, TypeOK, Token, Stored, TaskHasItsArguments, Storing, Callable, WaitReady, Goto

LEMMA StoreTaskInv ==
  ASSUME Inv, NEW c \in Clients, StoreTask(c)
  PROVE  Inv'
BY DEF Inv, TypeOK, Token, Stored, TaskHasItsArguments, Storing, Callable, StoreTask, Goto

LEMMA StoreArgsInv ==
  ASSUME Inv, NEW c \in Clients, StoreArgs(c)
  PROVE  Inv'
BY TasksAssumption
DEF Inv, TypeOK, Token, Stored, TaskHasItsArguments, Storing, Callable, StoreArgs, Goto

LEMMA SignalParametersSetInv ==
  ASSUME Inv, NEW c \in Clients, SignalParametersSet(c)
  PROVE  Inv'
BY TasksAssumption
DEF Inv, TypeOK, Token, Stored, TaskHasItsArguments, Storing, Callable, Idle,
    SignalParametersSet

LEMMA HandleTasksInv ==
  ASSUME Inv, HandleTasks
  PROVE  Inv'
<1>1. CASE TestTerminate
  BY <1>1 DEF Inv, TypeOK, Token, Stored, TaskHasItsArguments, Storing, TestTerminate
<1>2. CASE SignalReady
  BY <1>2 DEF Inv, TypeOK, Token, Stored, TaskHasItsArguments, Storing, SignalReady
<1>3. CASE WaitParametersSet
  BY <1>3 DEF Inv, TypeOK, Token, Stored, TaskHasItsArguments, Storing, WaitParametersSet
<1>4. CASE TaskReturns
  BY <1>4 DEF Inv, TypeOK, Token, Stored, TaskHasItsArguments, Storing, TaskReturns
<1> QED
  BY <1>1, <1>2, <1>3, <1>4 DEF HandleTasks

LEMMA NextInv == Inv /\ [Next]_vars => Inv'
<1> SUFFICES ASSUME Inv, [Next]_vars PROVE Inv'
  OBVIOUS
<1>1. CASE UNCHANGED vars
  BY <1>1 DEF vars, Inv, TypeOK, Token, Stored, TaskHasItsArguments, Storing
<1>2. CASE HandleTasks
  BY <1>2, HandleTasksInv
<1>3. ASSUME NEW c \in Clients, RunTask(c) \/ Terminate(c)
      PROVE  Inv'
  <2>1. PICK x \in Callable : Call(c, x)
    BY <1>3 DEF RunTask, Terminate, Callable
  <2>2. shouldTerminate' \in BOOLEAN
    BY <1>3 DEF RunTask, Terminate, Inv, TypeOK
  <2> QED
    BY <2>1, <2>2, CallInv
<1>4. ASSUME NEW c \in Clients, Client(c)
      PROVE  Inv'
  BY <1>4, WaitReadyInv, StoreTaskInv, StoreArgsInv, SignalParametersSetInv DEF Client
<1> QED
  BY <1>1, <1>2, <1>3, <1>4 DEF Next, HandleTasks, Client

\* The inductive invariant holds throughout.
THEOREM Invariance == Spec => []Inv
<1>1. Init => Inv
  BY InitInv
<1>2. Inv /\ [Next]_vars => Inv'
  BY NextInv
<1> QED
  BY <1>1, <1>2, PTL DEF Spec

\* The events, the stored task and the places of the threads keep their types.
THEOREM TypeCorrect == Spec => []TypeOK
<1>1. Inv => TypeOK
  BY DEF Inv
<1> QED
  BY <1>1, Invariance, PTL

\* RunTask: a function runs with the arguments of its own call, for any
\* number of clients.
THEOREM ArgumentsMatch == Spec => []TaskHasItsArguments
<1>1. Inv => TaskHasItsArguments
  BY DEF Inv
<1> QED
  BY <1>1, Invariance, PTL

-----------------------------------------------------------------------------
(* The queue of one place *)

LEMMA QueueInit == Init => Queue!Init
BY DEF Init, Queue!Init

LEMMA ClientQueue ==
  ASSUME Inv, NEW c \in Clients, Client(c)
  PROVE  [Queue!Next]_(Queue!vars)
<1>1. CASE WaitReady(c)
  BY <1>1 DEF WaitReady, Queue!vars
<1>2. CASE StoreTask(c)
  \* The worker waits and nothing is handed over: the old task is not seen.
  <2>1. worker # "run" /\ ~parametersSetEvent
    BY <1>2 DEF StoreTask, Inv, Token, Storing
  <2> QED
    BY <1>2, <2>1 DEF StoreTask, Queue!vars
<1>3. CASE StoreArgs(c)
  BY <1>3 DEF StoreArgs, Queue!vars
<1>4. CASE SignalParametersSet(c)
  <2>1. worker = "wait" /\ ~parametersSetEvent
    BY <1>4 DEF SignalParametersSet, Inv, Token, Storing
  <2>2. task \in Callable
    BY <1>4 DEF SignalParametersSet, Inv, Stored
  <2>3. Queue!Submit(task)
    BY <1>4, <2>1 DEF SignalParametersSet, Queue!Submit
  <2> QED
    BY <2>2, <2>3 DEF Queue!Next
<1> QED
  BY <1>1, <1>2, <1>3, <1>4 DEF Client

LEMMA WorkerQueue ==
  ASSUME Inv, HandleTasks
  PROVE  [Queue!Next]_(Queue!vars)
<1>1. CASE TestTerminate
  BY <1>1 DEF TestTerminate, Queue!vars
<1>2. CASE SignalReady
  BY <1>2 DEF SignalReady, Queue!vars
<1>3. CASE WaitParametersSet
  <2>1. task # None
    BY <1>3 DEF WaitParametersSet, Inv, TaskHasItsArguments
  <2>2. Queue!Begin
    BY <1>3, <2>1 DEF WaitParametersSet, Queue!Begin
  <2> QED
    BY <2>2 DEF Queue!Next
<1>4. CASE TaskReturns
  <2>1. task # None
    BY <1>4 DEF TaskReturns, Inv, TaskHasItsArguments
  <2>2. Queue!Finish
    BY <1>4, <2>1 DEF TaskReturns, Queue!Finish
  <2> QED
    BY <2>2 DEF Queue!Next
<1> QED
  BY <1>1, <1>2, <1>3, <1>4 DEF HandleTasks

\* Every step of the runner is a step of the queue or none.
LEMMA QueueStep == Inv /\ [Next]_vars => [Queue!Next]_(Queue!vars)
<1> SUFFICES ASSUME Inv, [Next]_vars PROVE [Queue!Next]_(Queue!vars)
  OBVIOUS
<1>1. CASE UNCHANGED vars
  BY <1>1 DEF vars, Queue!vars
<1>2. CASE HandleTasks
  BY <1>2, WorkerQueue
<1>3. ASSUME NEW c \in Clients, RunTask(c) \/ Terminate(c)
      PROVE  [Queue!Next]_(Queue!vars)
  BY <1>3 DEF RunTask, Terminate, Call, Queue!vars
<1>4. ASSUME NEW c \in Clients, Client(c)
      PROVE  [Queue!Next]_(Queue!vars)
  BY <1>4, ClientQueue
<1> QED
  BY <1>1, <1>2, <1>3, <1>4 DEF Next, HandleTasks, Client

\* The handshake of the two events implements TaskQueue: what a client hands
\* over is executed once, and no other call between.
THEOREM Refinement == Spec => ImplementsQueue
<1>1. Init => Queue!Init
  BY QueueInit
<1>2. Inv /\ [Next]_vars => [Queue!Next]_(Queue!vars)
  BY QueueStep
<1> QED
  BY <1>1, <1>2, Invariance, PTL DEF Spec, ImplementsQueue, Queue!Spec

-----------------------------------------------------------------------------
(* The limits of applications                                              *)

CONSTANTS Titles, Descriptor, Overrides, Values, DefaultMemory, Orderly, AlwaysRuns, Settled
VARIABLES
  cpuTimeLimit, memoryLimit, schedMode, maxAppCpuTime, runningApplicationData, debugData,
  redirectAppThreads, disableThreadRedirection, th, ended, panicked

Limits == INSTANCE PmResLimit

\* Where a launch is; what a thread may be doing, in or out of one.
LaunchPcs == {"check", "memory", "preemption", "mode", "maximum", "start", "run"}
ThreadStates ==
  [pc : {"idle", "set"} \cup LaunchPcs, title : Titles \cup {None}, queue : BOOLEAN,
   value : Nat]

\* A launch has its title, and the maximum that shares are compared with is a number.
LimitTypes ==
  /\ maxAppCpuTime \in Nat
  /\ runningApplicationData \in Titles \cup {None} /\ debugData \in Titles \cup {None}
  /\ redirectAppThreads \in BOOLEAN /\ disableThreadRedirection \in BOOLEAN
  /\ th \in [Limits!Threads -> ThreadStates]
  /\ \A t \in Limits!Threads : th[t].pc \in LaunchPcs => th[t].title \in Titles
  /\ ended \subseteq Titles

\* SetAppCpuTimeLimit sets nothing while threads are redirected (reslimit.c:313).
Redirected == redirectAppThreads /\ ~disableThreadRedirection

\* A launch has pm for itself: no application runs, is queued or ends, and the
\* other thread does nothing.  Only the service thread sets a share.
Alone ==
  /\ \A t \in Limits!Threads : th[t].pc \in LaunchPcs =>
       /\ runningApplicationData = None /\ debugData = None /\ ended = {}
       /\ \A u \in Limits!Threads \ {t} : th[u].pc = "idle"
  /\ runningApplicationData = None \/ debugData = None
  /\ th["task"].pc # "set"

\* While threads are redirected there is no share to be taken away.
NoShare == Redirected => cpuTimeLimit = 0

\* The launch is past the memory: it is then that of its descriptor, as it is
\* for an application that runs or is queued; else it is what there was at start.
MemorySet(t) == th[t].pc \in {"preemption", "mode", "maximum", "start", "run"}
MemoryInv ==
  /\ \A t \in Limits!Threads : MemorySet(t) =>
       memoryLimit = Limits!WantedMemory(Descriptor[th[t].title])
  /\ runningApplicationData # None =>
       memoryLimit = Limits!WantedMemory(Descriptor[runningApplicationData])
  /\ debugData # None => memoryLimit = Limits!WantedMemory(Descriptor[debugData])
  /\ debugData # None /\ debugData \in ended => Limits!AppMemory(Descriptor[debugData]) = None
  /\ runningApplicationData = None /\ debugData = None
       /\ (\A t \in Limits!Threads : ~MemorySet(t))
       => memoryLimit = DefaultMemory

\* What LimitsFit says of a running application, but for its memory.
Fits(title) ==
  LET d == Descriptor[title] IN
  /\ schedMode = Limits!SchedMode(d)
  /\ maxAppCpuTime = Limits!MaxCpuTime(d)
  /\ cpuTimeLimit \in (0..maxAppCpuTime) \cup {Limits!StartCpuTime(d)}

\* What a launch has set by the step it is at, and what it leaves behind it.
ShareInv ==
  /\ \A t \in Limits!Threads :
       LET d == Descriptor[th[t].title] IN
       /\ th[t].pc \in {"mode", "maximum", "start"} => cpuTimeLimit = 0
       /\ th[t].pc \in {"maximum", "start"} => schedMode = Limits!SchedMode(d)
       /\ th[t].pc = "start" => maxAppCpuTime = Limits!MaxCpuTime(d)
       /\ th[t].pc = "run" => Fits(th[t].title)
       /\ th[t].pc = "set" => th[t].value <= maxAppCpuTime
  /\ runningApplicationData # None => Fits(runningApplicationData)
  /\ debugData # None => Fits(debugData)

\* The inductive invariant: LimitsFit holds of the application that runs because
\* it holds of the launch that made it run.
LimitInv == LimitTypes /\ ~panicked /\ Alone /\ NoShare /\ MemoryInv /\ ShareInv

(* What a thread does does not change what the other one does.            *)
LEMMA ThreadGoes ==
  ASSUME LimitTypes, NEW t \in Limits!Threads, NEW r \in ThreadStates,
         th' = [th EXCEPT ![t] = r]
  PROVE  /\ th' \in [Limits!Threads -> ThreadStates] /\ th'[t] = r
         /\ \A u \in Limits!Threads : u # t => th'[u] = th[u]
  BY DEF LimitTypes

(* A step of a launch changes where it is, and nothing else of it.         *)
LEMMA ThreadSteps ==
  ASSUME LimitTypes, NEW t \in Limits!Threads, NEW pc \in {"idle", "set"} \cup LaunchPcs,
         Limits!Step(t, pc)
  PROVE  /\ th' \in [Limits!Threads -> ThreadStates]
         /\ th'[t].pc = pc /\ th'[t].title = th[t].title /\ th'[t].value = th[t].value
         /\ th'[t].queue = th[t].queue
         /\ \A u \in Limits!Threads : u # t => th'[u] = th[u]
<1>1. th[t] \in ThreadStates
  BY DEF LimitTypes
<1>2. PICK r : r = [th[t] EXCEPT !.pc = pc]
  OBVIOUS
<1>3. /\ r \in ThreadStates
      /\ r.pc = pc /\ r.title = th[t].title /\ r.value = th[t].value /\ r.queue = th[t].queue
  BY <1>1, <1>2 DEF ThreadStates
<1>4. th' = [th EXCEPT ![t] = r]
  BY <1>2 DEF Limits!Step
<1> QED
  BY <1>3, <1>4, ThreadGoes

(* The maximum of a descriptor is a number (reslimit.c:375).               *)
LEMMA MaximumIsNat ==
  ASSUME Limits!LimitAssumption, NEW title \in Titles
  PROVE  Limits!MaxCpuTime(Descriptor[title]) \in Nat
<1>1. Descriptor[title].cpuTime \in 0..127
  BY DEF Limits!LimitAssumption
<1> QED
  BY <1>1 DEF Limits!MaxCpuTime

(* Every step keeps the invariant, one case per action of PmResLimit.      *)
LEMMA LimitNext ==
  ASSUME Limits!LimitAssumption, Orderly, AlwaysRuns, Settled, LimitInv,
         [Limits!Next]_(Limits!vars)
  PROVE  LimitInv'
<1> USE DEF LimitInv, Limits!LimitAssumption, Limits!managerVars, Limits!kernelVars,
            Limits!Threads, Limits!SetAppCpuTimeLimit, Limits!SetAppMemLimit,
            Limits!CurrentAppMemLimit, Limits!Preemption,
            Limits!MayLaunch, Limits!Launching
<1>1. CASE \E title \in Titles, queue \in BOOLEAN : Limits!LaunchApp(title, queue)
  <2>0. PICK title \in Titles, queue \in BOOLEAN : Limits!LaunchApp(title, queue)
    BY <1>1
  <2>a. PICK w \in Limits!Threads, r \in ThreadStates :
               /\ w = IF queue THEN "srv" ELSE "task"
               /\ r = [Limits!Idle EXCEPT !.pc = "check", !.title = title, !.queue = queue]
               /\ th' = [th EXCEPT ![w] = r]
    BY <2>0 DEF Limits!LaunchApp, Limits!Threads, ThreadStates, Limits!Idle, LaunchPcs
  <2>b. /\ th' \in [Limits!Threads -> ThreadStates] /\ th'[w] = r
        /\ \A u \in Limits!Threads : u # w => th'[u] = th[u]
    BY <2>a, ThreadGoes
  <2>c. r.pc = "check" /\ r.title = title
    BY <2>a DEF Limits!Idle
  <2>1. LimitTypes'
    BY <2>0, <2>a, <2>b, <2>c, MaximumIsNat DEF Limits!LaunchApp, LimitTypes, LaunchPcs
  <2>2. ~panicked'
    BY <2>0 DEF Limits!LaunchApp, ShareInv, LimitTypes
  <2>3. Alone'
    BY <2>0, <2>a, <2>b, <2>c DEF Limits!LaunchApp, LimitTypes, ThreadStates, Alone, LaunchPcs
  <2>4. NoShare'
    BY <2>0, <2>a, <2>b, <2>c DEF Limits!LaunchApp, NoShare, Redirected
  <2>5. MemoryInv'
    BY <2>0, <2>a, <2>b, <2>c DEF Limits!LaunchApp, LimitTypes, MemoryInv, MemorySet, Alone,
           LaunchPcs
  <2>6. ShareInv'
    BY <2>0, <2>a, <2>b, <2>c, MaximumIsNat DEF Limits!LaunchApp, LimitTypes, ShareInv, Fits,
           Alone,
           LaunchPcs
  <2> QED
    BY <2>1, <2>2, <2>3, <2>4, <2>5, <2>6
<1>2. CASE \E title \in Titles : Limits!LaunchTitleUpdate(title)
  <2>0. PICK title \in Titles : Limits!LaunchTitleUpdate(title)
    BY <1>2
  <2>a. PICK w \in Limits!Threads, r \in ThreadStates :
               /\ w = "task"
               /\ r = [Limits!Idle EXCEPT !.pc = "check", !.title = title]
               /\ th' = [th EXCEPT ![w] = r]
    BY <2>0 DEF Limits!LaunchTitleUpdate, Limits!Threads, ThreadStates, Limits!Idle, LaunchPcs
  <2>b. /\ th' \in [Limits!Threads -> ThreadStates] /\ th'[w] = r
        /\ \A u \in Limits!Threads : u # w => th'[u] = th[u]
    BY <2>a, ThreadGoes
  <2>c. r.pc = "check" /\ r.title = title
    BY <2>a DEF Limits!Idle
  <2>1. LimitTypes'
    BY <2>0, <2>a, <2>b, <2>c, MaximumIsNat DEF Limits!LaunchTitleUpdate, LimitTypes, LaunchPcs
  <2>2. ~panicked'
    BY <2>0 DEF Limits!LaunchTitleUpdate, ShareInv, LimitTypes
  <2>3. Alone'
    BY <2>0, <2>a, <2>b, <2>c DEF Limits!LaunchTitleUpdate, LimitTypes, ThreadStates, Alone,
           LaunchPcs
  <2>4. NoShare'
    BY <2>0, <2>a, <2>b, <2>c DEF Limits!LaunchTitleUpdate, NoShare, Redirected
  <2>5. MemoryInv'
    BY <2>0, <2>a, <2>b, <2>c DEF Limits!LaunchTitleUpdate, LimitTypes, MemoryInv, MemorySet,
           Alone,
           LaunchPcs
  <2>6. ShareInv'
    BY <2>0, <2>a, <2>b, <2>c, MaximumIsNat DEF Limits!LaunchTitleUpdate, LimitTypes, ShareInv,
           Fits,
           Alone, LaunchPcs
  <2> QED
    BY <2>1, <2>2, <2>3, <2>4, <2>5, <2>6
<1>3. CASE \E title \in Titles : Limits!LaunchAppDebug(title)
  <2>0. PICK title \in Titles : Limits!LaunchAppDebug(title)
    BY <1>3
  <2>a. PICK w \in Limits!Threads, r \in ThreadStates :
               /\ w = "srv"
               /\ r = [Limits!Idle EXCEPT !.pc = "check", !.title = title]
               /\ th' = [th EXCEPT ![w] = r]
    BY <2>0 DEF Limits!LaunchAppDebug, Limits!Threads, ThreadStates, Limits!Idle, LaunchPcs
  <2>b. /\ th' \in [Limits!Threads -> ThreadStates] /\ th'[w] = r
        /\ \A u \in Limits!Threads : u # w => th'[u] = th[u]
    BY <2>a, ThreadGoes
  <2>c. r.pc = "check" /\ r.title = title
    BY <2>a DEF Limits!Idle
  <2>1. LimitTypes'
    BY <2>0, <2>a, <2>b, <2>c, MaximumIsNat DEF Limits!LaunchAppDebug, LimitTypes, LaunchPcs
  <2>2. ~panicked'
    BY <2>0 DEF Limits!LaunchAppDebug, ShareInv, LimitTypes
  <2>3. Alone'
    BY <2>0, <2>a, <2>b, <2>c DEF Limits!LaunchAppDebug, LimitTypes, ThreadStates, Alone,
           LaunchPcs
  <2>4. NoShare'
    BY <2>0, <2>a, <2>b, <2>c DEF Limits!LaunchAppDebug, NoShare, Redirected
  <2>5. MemoryInv'
    BY <2>0, <2>a, <2>b, <2>c DEF Limits!LaunchAppDebug, LimitTypes, MemoryInv, MemorySet,
           Alone,
           LaunchPcs
  <2>6. ShareInv'
    BY <2>0, <2>a, <2>b, <2>c, MaximumIsNat DEF Limits!LaunchAppDebug, LimitTypes, ShareInv,
           Fits,
           Alone, LaunchPcs
  <2> QED
    BY <2>1, <2>2, <2>3, <2>4, <2>5, <2>6
<1>4. CASE \E ok \in BOOLEAN : Limits!RunQueuedProcess(ok)
  <2>0. PICK ok \in BOOLEAN : Limits!RunQueuedProcess(ok)
    BY <1>4
  <2>1. LimitTypes'
    BY <2>0, MaximumIsNat DEF Limits!RunQueuedProcess, LimitTypes, LaunchPcs
  <2>2. ~panicked'
    BY <2>0 DEF Limits!RunQueuedProcess, ShareInv, LimitTypes
  <2>3. Alone'
    BY <2>0 DEF Limits!RunQueuedProcess, LimitTypes, ThreadStates, Alone, LaunchPcs
  <2>4. NoShare'
    BY <2>0 DEF Limits!RunQueuedProcess, NoShare, Redirected
  <2>5. MemoryInv'
    <3>1. /\ memoryLimit = Limits!WantedMemory(Descriptor[debugData])
          /\ debugData # None /\ debugData' = None
          /\ memoryLimit' = memoryLimit /\ th' = th
          /\ runningApplicationData' = IF ok THEN debugData ELSE None
          /\ ~ok => Limits!AppMemory(Descriptor[debugData]) = None
      BY <2>0 DEF Limits!RunQueuedProcess, MemoryInv, Limits!kernelVars
    <3>2. \A u \in Limits!Threads : ~MemorySet(u)
      BY <2>0 DEF Limits!RunQueuedProcess, Alone, MemorySet, LaunchPcs
    <3>3. \A u \in Limits!Threads : ~MemorySet(u)'
      BY <3>1, <3>2 DEF MemorySet
    <3>4. ~ok => memoryLimit = DefaultMemory
      BY <3>1 DEF Limits!WantedMemory
    <3>5. CASE ok
      <4>1. runningApplicationData' = debugData
        BY <3>1, <3>5
      <4> QED
        BY <3>1, <3>3, <4>1 DEF MemoryInv
    <3>6. CASE ~ok
      <4>1. runningApplicationData' = None
        BY <3>1, <3>6
      <4> QED
        BY <3>1, <3>3, <3>4, <3>6, <4>1 DEF MemoryInv
    <3> QED
      BY <3>5, <3>6
  <2>6. ShareInv'
    BY <2>0, MaximumIsNat DEF Limits!RunQueuedProcess, LimitTypes, ShareInv, Fits, Alone,
           LaunchPcs
  <2> QED
    BY <2>1, <2>2, <2>3, <2>4, <2>5, <2>6
<1>5. CASE \E value \in Values : Limits!SetAppResourceLimit(value)
  <2>0. PICK value \in Values : Limits!SetAppResourceLimit(value)
    BY <1>5
  <2>a. PICK w \in Limits!Threads, r \in ThreadStates :
               /\ w = "srv"
               /\ r = [Limits!Idle EXCEPT !.pc = "set", !.value = value]
               /\ th' = [th EXCEPT ![w] = r]
    BY <2>0 DEF Limits!SetAppResourceLimit, Limits!Threads, ThreadStates, Limits!Idle, LaunchPcs
  <2>b. /\ th' \in [Limits!Threads -> ThreadStates] /\ th'[w] = r
        /\ \A u \in Limits!Threads : u # w => th'[u] = th[u]
    BY <2>a, ThreadGoes
  <2>c. r.pc = "set" /\ r.value = value
    BY <2>a DEF Limits!Idle
  <2>1. LimitTypes'
    BY <2>0, <2>a, <2>b, <2>c, MaximumIsNat DEF Limits!SetAppResourceLimit, LimitTypes,
           LaunchPcs
  <2>2. ~panicked'
    BY <2>0 DEF Limits!SetAppResourceLimit, ShareInv, LimitTypes
  <2>3. Alone'
    BY <2>0, <2>a, <2>b, <2>c DEF Limits!SetAppResourceLimit, LimitTypes, ThreadStates, Alone,
           LaunchPcs
  <2>4. NoShare'
    BY <2>0, <2>a, <2>b, <2>c DEF Limits!SetAppResourceLimit, NoShare, Redirected
  <2>5. MemoryInv'
    BY <2>0, <2>a, <2>b, <2>c DEF Limits!SetAppResourceLimit, LimitTypes, MemoryInv, MemorySet,
           Alone,
           LaunchPcs
  <2>6. ShareInv'
    BY <2>0, <2>a, <2>b, <2>c, MaximumIsNat DEF Limits!SetAppResourceLimit, LimitTypes,
           ShareInv, Fits,
           Alone, LaunchPcs
  <2> QED
    BY <2>1, <2>2, <2>3, <2>4, <2>5, <2>6
<1>6. CASE Limits!SetShare
  <2>a. PICK w \in Limits!Threads, r \in ThreadStates :
               /\ w = "srv"
               /\ r = Limits!Idle
               /\ th' = [th EXCEPT ![w] = r]
    BY <1>6 DEF Limits!SetShare, Limits!Threads, ThreadStates, Limits!Idle, LaunchPcs
  <2>b. /\ th' \in [Limits!Threads -> ThreadStates] /\ th'[w] = r
        /\ \A u \in Limits!Threads : u # w => th'[u] = th[u]
    BY <2>a, ThreadGoes
  <2>c. r.pc = "idle"
    BY <2>a DEF Limits!Idle
  <2>1. LimitTypes'
    BY <1>6, <2>a, <2>b, <2>c, MaximumIsNat DEF Limits!SetShare, LimitTypes, LaunchPcs
  <2>2. ~panicked'
    BY <1>6 DEF Limits!SetShare, ShareInv, LimitTypes
  <2>3. Alone'
    BY <1>6, <2>a, <2>b, <2>c DEF Limits!SetShare, LimitTypes, ThreadStates, Alone, LaunchPcs
  <2>4. NoShare'
    BY <1>6, <2>a, <2>b, <2>c DEF Limits!SetShare, NoShare, Redirected
  <2>5. MemoryInv'
    BY <1>6, <2>a, <2>b, <2>c DEF Limits!SetShare, LimitTypes, MemoryInv, MemorySet, Alone,
           LaunchPcs
  <2>6. ShareInv'
    <3>1. \A u \in Limits!Threads : th'[u].pc \in {"idle", "set"} /\ th'[u].pc # "set"
      BY <1>6, <2>a, <2>b, <2>c DEF Limits!SetShare, Alone, LimitTypes, ThreadStates,
             Limits!Threads,
             LaunchPcs
    <3>2. th["srv"].value \in 0..maxAppCpuTime
      BY <1>6 DEF Limits!SetShare, ShareInv, LimitTypes, ThreadStates, Limits!Threads
    <3>3. cpuTimeLimit' = cpuTimeLimit \/ cpuTimeLimit' \in 0..maxAppCpuTime
      BY <1>6, <3>2 DEF Limits!SetShare, Limits!SetAppCpuTimeLimit
    <3>4. /\ runningApplicationData' = runningApplicationData /\ debugData' = debugData
          /\ schedMode' = schedMode /\ maxAppCpuTime' = maxAppCpuTime
      BY <1>6 DEF Limits!SetShare, Limits!managerVars
    <3>5. \A x : Fits(x) => Fits(x)'
      BY <3>3, <3>4 DEF Fits
    <3> QED
      BY <3>1, <3>4, <3>5 DEF ShareInv
  <2> QED
    BY <2>1, <2>2, <2>3, <2>4, <2>5, <2>6
<1>7. CASE \E t \in Limits!Threads : Limits!Check(t)
  <2>0. PICK t \in Limits!Threads : Limits!Check(t)
    BY <1>7
  <2>a. PICK r \in ThreadStates :
               /\ r.pc \in {"idle", "memory"}
               /\ r.pc = "memory" => r.title = th[t].title
               /\ th' = [th EXCEPT ![t] = r]
    <3>1. th[t] \in ThreadStates
      BY <2>0 DEF LimitTypes
    <3>2. CASE runningApplicationData # None
      <4>1. Limits!Idle \in ThreadStates /\ Limits!Idle.pc = "idle"
        BY DEF Limits!Idle, ThreadStates
      <4> QED
        BY <2>0, <3>2, <4>1 DEF Limits!Check
    <3>3. CASE runningApplicationData = None
      <4>1. PICK r : r = [th[t] EXCEPT !.pc = "memory"]
        OBVIOUS
      <4>2. r \in ThreadStates /\ r.pc = "memory" /\ r.title = th[t].title
        BY <3>1, <4>1 DEF ThreadStates, LaunchPcs
      <4> QED
        BY <2>0, <3>3, <4>1, <4>2 DEF Limits!Check, Limits!Step
    <3> QED
      BY <3>2, <3>3
  <2>b. /\ th' \in [Limits!Threads -> ThreadStates] /\ th'[t] = r
        /\ \A u \in Limits!Threads : u # t => th'[u] = th[u]
    BY <2>0, <2>a, ThreadGoes
  <2>1. LimitTypes'
    BY <2>0, <2>a, <2>b, MaximumIsNat DEF Limits!Check, LimitTypes, LaunchPcs
  <2>2. ~panicked'
    BY <2>0 DEF Limits!Check, ShareInv, LimitTypes
  <2>3. Alone'
    BY <2>0, <2>a, <2>b DEF Limits!Check, LimitTypes, ThreadStates, Alone, LaunchPcs
  <2>4. NoShare'
    BY <2>0, <2>a, <2>b DEF Limits!Check, NoShare, Redirected
  <2>5. MemoryInv'
    BY <2>0, <2>a, <2>b DEF Limits!Check, LimitTypes, MemoryInv, MemorySet, Alone, LaunchPcs
  <2>6. ShareInv'
    BY <2>0, <2>a, <2>b, MaximumIsNat DEF Limits!Check, LimitTypes, ShareInv, Fits, Alone,
           LaunchPcs
  <2> QED
    BY <2>1, <2>2, <2>3, <2>4, <2>5, <2>6
<1>8. CASE \E t \in Limits!Threads : Limits!SetMemory(t)
  <2>0. PICK t \in Limits!Threads : Limits!SetMemory(t)
    BY <1>8
  <2>a. t \in Limits!Threads /\ Limits!Step(t, "preemption") /\ LimitTypes
    BY <2>0 DEF Limits!SetMemory, ShareInv, Limits!Preemption, Limits!Threads
  <2>b. /\ th' \in [Limits!Threads -> ThreadStates]
        /\ th'[t].pc = "preemption" /\ th'[t].title = th[t].title /\ th'[t].value = th[t].value
        /\ \A u \in Limits!Threads : u # t => th'[u] = th[u]
    BY <2>a, ThreadSteps DEF LaunchPcs
  <2>1. LimitTypes'
    BY <2>0, <2>b, MaximumIsNat DEF Limits!SetMemory, LimitTypes, LaunchPcs
  <2>2. ~panicked'
    BY <2>0 DEF Limits!SetMemory, ShareInv, LimitTypes
  <2>3. Alone'
    BY <2>0, <2>b DEF Limits!SetMemory, LimitTypes, ThreadStates, Alone, LaunchPcs
  <2>4. NoShare'
    BY <2>0, <2>b DEF Limits!SetMemory, NoShare, Redirected
  <2>5. MemoryInv'
    <3>1. \A u \in Limits!Threads : u # t => th[u].pc = "idle"
      BY <2>0 DEF Limits!SetMemory, Alone, LaunchPcs
    <3>2. /\ runningApplicationData = None /\ debugData = None
          /\ th[t].title \in Titles /\ ~MemorySet(t)
      BY <2>0 DEF Limits!SetMemory, Alone, LimitTypes, LaunchPcs, MemorySet
    <3>3. memoryLimit = DefaultMemory
      BY <3>1, <3>2 DEF MemoryInv, MemorySet
    <3>4. memoryLimit' = Limits!WantedMemory(Descriptor[th[t].title])
      BY <2>0, <3>3 DEF Limits!SetMemory, Limits!SetAppMemLimit, Limits!CurrentAppMemLimit,
             Limits!WantedMemory
    <3>5. /\ MemorySet(t)' /\ \A u \in Limits!Threads : u # t => ~MemorySet(u)'
          /\ runningApplicationData' = None /\ debugData' = None
      BY <2>0, <2>b, <3>1, <3>2 DEF Limits!SetMemory, MemorySet, Limits!managerVars
    <3> QED
      BY <2>b, <3>4, <3>5 DEF MemoryInv
  <2>6. ShareInv'
    BY <2>0, <2>b, MaximumIsNat DEF Limits!SetMemory, LimitTypes, ShareInv, Fits, Alone,
           LaunchPcs
  <2> QED
    BY <2>1, <2>2, <2>3, <2>4, <2>5, <2>6
<1>9. CASE \E t \in Limits!Threads : Limits!LaunchFails(t)
  <2>0. PICK t \in Limits!Threads : Limits!LaunchFails(t)
    BY <1>9
  <2>a. PICK w \in Limits!Threads, r \in ThreadStates :
               /\ w = t
               /\ r = Limits!Idle
               /\ th' = [th EXCEPT ![w] = r]
    BY <2>0 DEF Limits!LaunchFails, Limits!Threads, ThreadStates, Limits!Idle, LaunchPcs
  <2>b. /\ th' \in [Limits!Threads -> ThreadStates] /\ th'[w] = r
        /\ \A u \in Limits!Threads : u # w => th'[u] = th[u]
    BY <2>a, ThreadGoes
  <2>c. r.pc = "idle"
    BY <2>a DEF Limits!Idle
  <2>1. LimitTypes'
    BY <2>0, <2>a, <2>b, <2>c, MaximumIsNat DEF Limits!LaunchFails, LimitTypes, LaunchPcs
  <2>2. ~panicked'
    BY <2>0 DEF Limits!LaunchFails, ShareInv, LimitTypes
  <2>3. Alone'
    BY <2>0, <2>a, <2>b, <2>c DEF Limits!LaunchFails, LimitTypes, ThreadStates, Alone, LaunchPcs
  <2>4. NoShare'
    BY <2>0, <2>a, <2>b, <2>c DEF Limits!LaunchFails, NoShare, Redirected
  <2>5. MemoryInv'
    <3>1. /\ \A u \in Limits!Threads : u # t => th[u].pc = "idle"
          /\ runningApplicationData = None /\ debugData = None /\ MemorySet(t)
      BY <2>0 DEF Limits!LaunchFails, Alone, LaunchPcs, MemorySet
    <3>2. memoryLimit = DefaultMemory
      BY <2>0, <3>1 DEF Limits!LaunchFails, MemoryInv, Limits!WantedMemory
    <3>3. \A u \in Limits!Threads : ~MemorySet(u)'
      BY <2>0, <2>a, <2>b, <2>c, <3>1 DEF Limits!LaunchFails, MemorySet
    <3> QED
      BY <2>0, <3>1, <3>2, <3>3 DEF Limits!LaunchFails, MemoryInv, Limits!managerVars,
             Limits!kernelVars
  <2>6. ShareInv'
    BY <2>0, <2>a, <2>b, <2>c, MaximumIsNat DEF Limits!LaunchFails, LimitTypes, ShareInv, Fits,
           Alone,
           LaunchPcs
  <2> QED
    BY <2>1, <2>2, <2>3, <2>4, <2>5, <2>6
<1>10. CASE \E t \in Limits!Threads : Limits!RemovePreemption(t)
  <2>0. PICK t \in Limits!Threads : Limits!RemovePreemption(t)
    BY <1>10
  <2>a. t \in Limits!Threads /\ Limits!Step(t, "mode") /\ LimitTypes
    BY <2>0 DEF Limits!RemovePreemption, ShareInv, Limits!Preemption, Limits!Threads
  <2>b. /\ th' \in [Limits!Threads -> ThreadStates]
        /\ th'[t].pc = "mode" /\ th'[t].title = th[t].title /\ th'[t].value = th[t].value
        /\ \A u \in Limits!Threads : u # t => th'[u] = th[u]
    BY <2>a, ThreadSteps DEF LaunchPcs
  <2>1. LimitTypes'
    BY <2>0, <2>b, MaximumIsNat DEF Limits!RemovePreemption, LimitTypes, LaunchPcs
  <2>2. ~panicked'
    BY <2>0 DEF Limits!RemovePreemption, ShareInv, LimitTypes
  <2>3. Alone'
    BY <2>0, <2>b DEF Limits!RemovePreemption, LimitTypes, ThreadStates, Alone, LaunchPcs
  <2>4. NoShare'
    BY <2>0, <2>b DEF Limits!RemovePreemption, NoShare, Redirected
  <2>5. MemoryInv'
    BY <2>0, <2>b DEF Limits!RemovePreemption, LimitTypes, MemoryInv, MemorySet, Alone,
           LaunchPcs
  <2>6. ShareInv'
    <3>1. /\ \A u \in Limits!Threads : u # t => th[u].pc = "idle"
          /\ runningApplicationData = None /\ debugData = None
      BY <2>0 DEF Limits!RemovePreemption, Alone, LaunchPcs
    <3>2. cpuTimeLimit' = 0 /\ runningApplicationData' = None /\ debugData' = None
      BY <2>0, <3>1 DEF Limits!RemovePreemption, Limits!SetAppCpuTimeLimit, NoShare, Redirected,
             Limits!managerVars
    <3> QED
      BY <2>b, <3>1, <3>2 DEF ShareInv
  <2> QED
    BY <2>1, <2>2, <2>3, <2>4, <2>5, <2>6
<1>11. CASE \E t \in Limits!Threads : Limits!SetSchedMode(t)
  <2>0. PICK t \in Limits!Threads : Limits!SetSchedMode(t)
    BY <1>11
  <2>a. t \in Limits!Threads /\ Limits!Step(t, "maximum") /\ LimitTypes
    BY <2>0 DEF Limits!SetSchedMode, ShareInv, Limits!Preemption, Limits!Threads
  <2>b. /\ th' \in [Limits!Threads -> ThreadStates]
        /\ th'[t].pc = "maximum" /\ th'[t].title = th[t].title /\ th'[t].value = th[t].value
        /\ \A u \in Limits!Threads : u # t => th'[u] = th[u]
    BY <2>a, ThreadSteps DEF LaunchPcs
  <2>1. LimitTypes'
    BY <2>0, <2>b, MaximumIsNat DEF Limits!SetSchedMode, LimitTypes, LaunchPcs
  <2>2. ~panicked'
    BY <2>0 DEF Limits!SetSchedMode, ShareInv, LimitTypes
  <2>3. Alone'
    BY <2>0, <2>b DEF Limits!SetSchedMode, LimitTypes, ThreadStates, Alone, LaunchPcs
  <2>4. NoShare'
    BY <2>0, <2>b DEF Limits!SetSchedMode, NoShare, Redirected
  <2>5. MemoryInv'
    BY <2>0, <2>b DEF Limits!SetSchedMode, LimitTypes, MemoryInv, MemorySet, Alone, LaunchPcs
  <2>6. ShareInv'
    BY <2>0, <2>b, MaximumIsNat DEF Limits!SetSchedMode, LimitTypes, ShareInv, Fits, Alone,
           LaunchPcs
  <2> QED
    BY <2>1, <2>2, <2>3, <2>4, <2>5, <2>6
<1>12. CASE \E t \in Limits!Threads : Limits!SetMaximum(t)
  <2>0. PICK t \in Limits!Threads : Limits!SetMaximum(t)
    BY <1>12
  <2>a. t \in Limits!Threads /\ Limits!Step(t, "start") /\ LimitTypes
    BY <2>0 DEF Limits!SetMaximum, ShareInv, Limits!Preemption, Limits!Threads
  <2>b. /\ th' \in [Limits!Threads -> ThreadStates]
        /\ th'[t].pc = "start" /\ th'[t].title = th[t].title /\ th'[t].value = th[t].value
        /\ \A u \in Limits!Threads : u # t => th'[u] = th[u]
    BY <2>a, ThreadSteps DEF LaunchPcs
  <2>1. LimitTypes'
    BY <2>0, <2>b, MaximumIsNat DEF Limits!SetMaximum, LimitTypes, LaunchPcs
  <2>2. ~panicked'
    BY <2>0 DEF Limits!SetMaximum, ShareInv, LimitTypes
  <2>3. Alone'
    BY <2>0, <2>b DEF Limits!SetMaximum, LimitTypes, ThreadStates, Alone, LaunchPcs
  <2>4. NoShare'
    BY <2>0, <2>b DEF Limits!SetMaximum, NoShare, Redirected
  <2>5. MemoryInv'
    BY <2>0, <2>b DEF Limits!SetMaximum, LimitTypes, MemoryInv, MemorySet, Alone, LaunchPcs
  <2>6. ShareInv'
    BY <2>0, <2>b, MaximumIsNat DEF Limits!SetMaximum, LimitTypes, ShareInv, Fits, Alone,
           LaunchPcs
  <2> QED
    BY <2>1, <2>2, <2>3, <2>4, <2>5, <2>6
<1>13. CASE \E t \in Limits!Threads : Limits!SetStart(t)
  <2>0. PICK t \in Limits!Threads : Limits!SetStart(t)
    BY <1>13
  <2>a. t \in Limits!Threads /\ Limits!Step(t, "run") /\ LimitTypes
    BY <2>0 DEF Limits!SetStart, ShareInv, Limits!Preemption, Limits!Threads
  <2>b. /\ th' \in [Limits!Threads -> ThreadStates]
        /\ th'[t].pc = "run" /\ th'[t].title = th[t].title /\ th'[t].value = th[t].value
        /\ \A u \in Limits!Threads : u # t => th'[u] = th[u]
    BY <2>a, ThreadSteps DEF LaunchPcs
  <2>1. LimitTypes'
    BY <2>0, <2>b, MaximumIsNat DEF Limits!SetStart, LimitTypes, LaunchPcs
  <2>2. ~panicked'
    BY <2>0 DEF Limits!SetStart, ShareInv, LimitTypes
  <2>3. Alone'
    BY <2>0, <2>b DEF Limits!SetStart, LimitTypes, ThreadStates, Alone, LaunchPcs
  <2>4. NoShare'
    BY <2>0, <2>b DEF Limits!SetStart, NoShare, Redirected
  <2>5. MemoryInv'
    BY <2>0, <2>b DEF Limits!SetStart, LimitTypes, MemoryInv, MemorySet, Alone, LaunchPcs
  <2>6. ShareInv'
    BY <2>0, <2>b, MaximumIsNat DEF Limits!SetStart, LimitTypes, ShareInv, Fits, Alone,
           LaunchPcs
  <2> QED
    BY <2>1, <2>2, <2>3, <2>4, <2>5, <2>6
<1>14. CASE \E t \in Limits!Threads : Limits!Run(t)
  <2>0. PICK t \in Limits!Threads : Limits!Run(t)
    BY <1>14
  <2>a. PICK w \in Limits!Threads, r \in ThreadStates :
               /\ w = t
               /\ r = Limits!Idle
               /\ th' = [th EXCEPT ![w] = r]
    BY <2>0 DEF Limits!Run, Limits!Threads, ThreadStates, Limits!Idle, LaunchPcs
  <2>b. /\ th' \in [Limits!Threads -> ThreadStates] /\ th'[w] = r
        /\ \A u \in Limits!Threads : u # w => th'[u] = th[u]
    BY <2>a, ThreadGoes
  <2>c. r.pc = "idle"
    BY <2>a DEF Limits!Idle
  <2>1. LimitTypes'
    BY <2>0, <2>a, <2>b, <2>c, MaximumIsNat DEF Limits!Run, LimitTypes, LaunchPcs
  <2>2. ~panicked'
    BY <2>0 DEF Limits!Run, ShareInv, LimitTypes
  <2>3. Alone'
    BY <2>0, <2>a, <2>b, <2>c DEF Limits!Run, LimitTypes, ThreadStates, Alone, LaunchPcs
  <2>4. NoShare'
    BY <2>0, <2>a, <2>b, <2>c DEF Limits!Run, NoShare, Redirected
  <2>5. MemoryInv'
    BY <2>0, <2>a, <2>b, <2>c DEF Limits!Run, LimitTypes, MemoryInv, MemorySet, Alone, LaunchPcs
  <2>6. ShareInv'
    BY <2>0, <2>a, <2>b, <2>c, MaximumIsNat DEF Limits!Run, LimitTypes, ShareInv, Fits, Alone,
           LaunchPcs
  <2> QED
    BY <2>1, <2>2, <2>3, <2>4, <2>5, <2>6
<1>15. CASE \E title \in Titles : Limits!End(title)
  <2>0. PICK title \in Titles : Limits!End(title)
    BY <1>15
  <2>1. LimitTypes'
    BY <2>0, MaximumIsNat DEF Limits!End, LimitTypes, LaunchPcs
  <2>2. ~panicked'
    BY <2>0 DEF Limits!End, ShareInv, LimitTypes
  <2>3. Alone'
    BY <2>0 DEF Limits!End, LimitTypes, ThreadStates, Alone, LaunchPcs
  <2>4. NoShare'
    BY <2>0 DEF Limits!End, NoShare, Redirected
  <2>5. MemoryInv'
    BY <2>0 DEF Limits!End, LimitTypes, MemoryInv, MemorySet, Alone, LaunchPcs
  <2>6. ShareInv'
    BY <2>0, MaximumIsNat DEF Limits!End, LimitTypes, ShareInv, Fits, Alone, LaunchPcs
  <2> QED
    BY <2>1, <2>2, <2>3, <2>4, <2>5, <2>6
<1>16. CASE \E title \in Titles : Limits!CleanupProcess(title)
  <2>0. PICK title \in Titles : Limits!CleanupProcess(title)
    BY <1>16
  <2>1. LimitTypes'
    BY <2>0, MaximumIsNat DEF Limits!CleanupProcess, LimitTypes, LaunchPcs
  <2>2. ~panicked'
    BY <2>0 DEF Limits!CleanupProcess, ShareInv, LimitTypes
  <2>3. Alone'
    BY <2>0 DEF Limits!CleanupProcess, LimitTypes, ThreadStates, Alone, LaunchPcs
  <2>4. NoShare'
    BY <2>0 DEF Limits!CleanupProcess, NoShare, Redirected
  <2>5. MemoryInv'
    <3>1. /\ \A u \in Limits!Threads : ~MemorySet(u)
          /\ runningApplicationData = None \/ debugData = None
          /\ None \notin Titles /\ title \in Titles
      BY <2>0 DEF Limits!CleanupProcess, Alone, MemorySet, LaunchPcs
    <3>2. \A u \in Limits!Threads : ~MemorySet(u)'
      BY <2>0, <3>1 DEF Limits!CleanupProcess, MemorySet
    <3>3. CASE title = runningApplicationData
      <4>1. memoryLimit' = DefaultMemory /\ runningApplicationData' = None /\ debugData' = None
        BY <2>0, <3>1, <3>3 DEF Limits!CleanupProcess, Limits!SetAppMemLimit,
               Limits!CurrentAppMemLimit
      <4> QED
        BY <3>2, <4>1 DEF MemoryInv
    <3>4. CASE title # runningApplicationData /\ title = debugData
      <4>1. memoryLimit = DefaultMemory /\ memoryLimit' = memoryLimit
        BY <2>0, <3>1, <3>4 DEF Limits!CleanupProcess, MemoryInv, Limits!WantedMemory
      <4>2. runningApplicationData' = None /\ debugData' = None
        BY <2>0, <3>1, <3>4 DEF Limits!CleanupProcess
      <4> QED
        BY <3>2, <4>1, <4>2 DEF MemoryInv
    <3>5. CASE title # runningApplicationData /\ title # debugData
      BY <2>0, <3>1, <3>2, <3>5 DEF Limits!CleanupProcess, MemoryInv
    <3> QED
      BY <3>3, <3>4, <3>5
  <2>6. ShareInv'
    BY <2>0, MaximumIsNat DEF Limits!CleanupProcess, LimitTypes, ShareInv, Fits, Alone,
           LaunchPcs
  <2> QED
    BY <2>1, <2>2, <2>3, <2>4, <2>5, <2>6
<1>17. CASE Limits!SwitchRedirection
  <2>1. LimitTypes'
    BY <1>17, MaximumIsNat DEF Limits!SwitchRedirection, LimitTypes, LaunchPcs
  <2>2. ~panicked'
    BY <1>17 DEF Limits!SwitchRedirection, ShareInv, LimitTypes
  <2>3. Alone'
    BY <1>17 DEF Limits!SwitchRedirection, LimitTypes, ThreadStates, Alone, LaunchPcs
  <2>4. NoShare'
    BY <1>17 DEF Limits!SwitchRedirection, NoShare, Redirected
  <2>5. MemoryInv'
    BY <1>17 DEF Limits!SwitchRedirection, LimitTypes, MemoryInv, MemorySet, Alone, LaunchPcs
  <2>6. ShareInv'
    BY <1>17, MaximumIsNat DEF Limits!SwitchRedirection, LimitTypes, ShareInv, Fits, Alone,
           LaunchPcs
  <2> QED
    BY <2>1, <2>2, <2>3, <2>4, <2>5, <2>6
<1>18. CASE UNCHANGED Limits!vars
  BY <1>18 DEF Limits!vars, Limits!managerVars, Limits!kernelVars, LimitTypes, Alone, NoShare,
         Redirected, MemoryInv,
         MemorySet, ShareInv, Fits, Limits!Preemption
<1> QED
  BY <1>1, <1>2, <1>3, <1>4, <1>5, <1>6, <1>7, <1>8, <1>9, <1>10, <1>11, <1>12, <1>13, <1>14,
     <1>15, <1>16, <1>17, <1>18 DEF Limits!Next

(* It holds when pm starts.                                                *)
LEMMA LimitInit ==
  ASSUME Limits!LimitAssumption, Limits!Init
  PROVE  LimitInv
<1>1. Limits!Idle \in ThreadStates /\ Limits!Idle.pc = "idle"
  BY DEF Limits!Idle, ThreadStates
<1> USE <1>1 DEF Limits!Init
<1>2. LimitTypes
  BY DEF Limits!LimitAssumption, LimitTypes, LaunchPcs
<1>3. Alone /\ NoShare /\ ~panicked
  BY DEF Alone, NoShare, LaunchPcs, Limits!Threads
<1>4. MemoryInv
  BY DEF MemoryInv, MemorySet
<1>5. ShareInv
  BY DEF ShareInv
<1> QED
  BY <1>2, <1>3, <1>4, <1>5 DEF LimitInv

(***************************************************************************)
(* An application runs with the memory, the preemption mode and the        *)
(* maximum of its own descriptor, and a share it was given or may ask for, *)
(* whatever was launched, failed, ended or was asked for before it; and no *)
(* launch finds preemption still on, where pm would stop (reslimit.c:372). *)
(***************************************************************************)
THEOREM LimitsAlwaysFit ==
  ASSUME Limits!LimitAssumption, Orderly, AlwaysRuns, Settled
  PROVE  Limits!Spec => []Limits!LimitsFit
<1>1. LimitInv => Limits!LimitsFit
  BY DEF LimitInv, MemoryInv, ShareInv, Fits, Limits!LimitsFit
<1> QED
  BY <1>1, LimitInit, LimitNext, PTL DEF Limits!Spec
-----------------------------------------------------------------------------
(* The debugger's server: its invariant                                    *)

CONSTANTS Ctxs, BasePorts, NextPort, Procs, NextApp, Prompt
VARIABLES
  ctx, clientOf, statusUpdated, statusUpdateReceived, shall_terminate, nextApplicationGdbCtx,
  monitor, socket, menu, proc

\* clientOf is the server's client: the task runner has one of its own.
Gdb == INSTANCE GdbServer WITH client <- clientOf

\* The types.
States == {"disconnected", "connected", "attached", "detaching"}
Watched == {"attached", "continued", "debug"}
ContextTypes ==
  [flags : SUBSET Gdb!AllFlags, state : States, localPort : Gdb!Ports \cup {0},
   pid : Gdb!Debuggable \cup {Gdb!NoProc}, debug : Gdb!Debuggable \cup {Gdb!NoProc},
   eventToWaitFor : Watched, attached : BOOLEAN, continued : BOOLEAN, lost : BOOLEAN]
MonitorPlaces == {"start", "read", "wait", "waiting", "lock", "ended"}
SocketPlaces ==
  {"poll", "awaitDebug", "accept", "closing", "closeTest", "closeAck", "close", "detachAck",
   "ended"}
ProcTypes ==
  [run : {"running", "stopped", "ended"}, pending : {"none", "stop", "output", "exit"}]

GdbTypes ==
  /\ ctx \in [Ctxs -> ContextTypes]
  /\ clientOf \in [Gdb!Ports -> Ctxs \cup {0}]
  /\ statusUpdated \in BOOLEAN /\ statusUpdateReceived \in BOOLEAN
  /\ shall_terminate \in BOOLEAN
  /\ nextApplicationGdbCtx \in Ctxs \cup {0} /\ menu \in Ctxs \cup {0}
  /\ monitor \in [at : MonitorPlaces, handles : [Ctxs -> Watched], c : Ctxs \cup {0}]
  /\ socket \in [at : SocketPlaces, c : Ctxs \cup {0}]
  /\ proc \in [Gdb!Debuggable -> ProcTypes]
  /\ monitor.at = "lock" => monitor.c \in Ctxs
  /\ socket.at \notin {"poll", "ended"} => socket.c \in Ctxs

\* A client has the context; it is the one of the next application, for which
\* its client waits.
Served(c) == \E port \in Gdb!Ports : clientOf[port] = c
Awaits(c) == socket.at = "awaitDebug" /\ socket.c = c

\* An event other than that of the attachment is awaited of a process only, and
\* so is that one signalled; the handles that the monitor has copied are of
\* processes still, and so is the one it was woken by.
EventsInv ==
  /\ \A c \in Ctxs :
       /\ ctx[c].eventToWaitFor # "attached" => ctx[c].debug # Gdb!NoProc
       /\ ctx[c].attached => ctx[c].debug # Gdb!NoProc
       /\ monitor.handles[c] # "attached" =>
            monitor.at \in {"wait", "waiting"} /\ ctx[c].debug # Gdb!NoProc
  /\ monitor.at = "lock" => ctx[monitor.c].debug # Gdb!NoProc

\* Who ends a session has been answered: the monitor has thrown away its copies
\* of the handles, and takes no new ones as long as the context is locked.
AnswersInv ==
  /\ socket.at \in {"accept", "closing", "closeTest", "close"} =>
       monitor.at \in {"waiting", "ended"} \/ (menu # 0 /\ monitor.at \in {"read", "lock"})
  /\ socket.at = "detachAck" =>
       /\ monitor.at \in {"waiting", "read", "ended"}
       /\ monitor.at = "waiting" => statusUpdated /\ ~statusUpdateReceived
  /\ socket.at \in {"closeTest", "closeAck"} =>
       menu # 0 \/ statusUpdateReceived \/ monitor.at = "ended"
                \/ (monitor.at = "waiting" /\ statusUpdated)
  /\ socket.at = "closeTest" => ~statusUpdateReceived
  /\ socket.at \in {"closeTest", "closeAck", "close", "detachAck"} =>
       ~ctx[socket.c].attached /\ ctx[socket.c].eventToWaitFor = "attached"
  /\ (socket.at = "closeAck" /\ statusUpdateReceived) \/ socket.at = "close" =>
       monitor.handles[socket.c] = "attached" /\ (monitor.at = "lock" => monitor.c # socket.c)

\* Whoever ends, ends because he is told to.
EndsInv ==
  /\ monitor.at = "ended" => shall_terminate
  /\ socket.at = "ended" => shall_terminate

\* The menu that waits for a client to go.
MenuInv == menu # 0 => ~shall_terminate /\ Served(menu)

\* A client's context is its port's; only that of the next application may be
\* taken from its client, while he waits.
PortsInv ==
  /\ \A port \in Gdb!Ports, c \in Ctxs : clientOf[port] = c =>
       /\ Awaits(c) \/ ctx[c].localPort = port
       /\ Awaits(c) \/ "used" \in ctx[c].flags
                    \/ (port = NextPort /\ "selected" \in ctx[c].flags)
  /\ socket.at = "awaitDebug" =>
       \A port \in Gdb!Ports : clientOf[port] = socket.c <=> port = NextPort
  /\ socket.at \in {"accept", "closing", "closeTest", "closeAck", "close", "detachAck"} =>
       Served(socket.c)
  /\ socket.at = "detachAck" => "used" \in ctx[socket.c].flags

\* The flags that are set and reset together.
FlagsInv ==
  \A c \in Ctxs :
    /\ "extended" \in ctx[c].flags => "used" \in ctx[c].flags
    /\ "atStart" \in ctx[c].flags =>
         Gdb!Allocated(c) /\ ("selected" \in ctx[c].flags => ctx[c].debug # Gdb!NoProc)

\* A context without a client has no session; a process it may have is the
\* next application.
SessionAt(c) ==
  /\ ~Served(c) =>
       /\ ctx[c].state = "disconnected"
       /\ ctx[c].debug # Gdb!NoProc
              => ctx[c].localPort = NextPort /\ "selected" \in ctx[c].flags
  /\ Gdb!AllocatedMask \subseteq ctx[c].flags => Served(c)
  /\ Awaits(c) /\ ctx[c].debug # Gdb!NoProc =>
       ctx[c].localPort = NextPort /\ "selected" \in ctx[c].flags
  /\ nextApplicationGdbCtx = c =>
       /\ ctx[c].debug = Gdb!NoProc /\ ctx[c].localPort = NextPort
       /\ "selected" \in ctx[c].flags
       /\ Served(c) => Awaits(c)

SessionsInv == \A c \in Ctxs : SessionAt(c)

\* The inductive invariant.
GdbInv ==
  /\ GdbTypes /\ EventsInv /\ AnswersInv /\ EndsInv /\ MenuInv /\ PortsInv
  /\ FlagsInv /\ SessionsInv

\* A set of naturals that is not empty has a least element.
LEMMA LeastNatural ==
  ASSUME NEW T, T \subseteq Nat, T # {}
  PROVE  \E x \in T : \A y \in T : x <= y
<1>1. \E x \in T : \A y \in T : ~ (<<y, x>> \in OpToRel(<, Nat))
  BY WFMin, NatLessThanWellFounded
<1>2. PICK x \in T : \A y \in T : ~ (<<y, x>> \in OpToRel(<, Nat))
  BY <1>1
<1>3. \A y \in T : ~ (y < x)
  BY <1>2 DEF OpToRel
<1> QED
  BY <1>3

\* The instance counts as this module does.
LEMMA SameCount ==
  \A S : Gdb!Cardinality(S) = Cardinality(S) /\ (Gdb!IsFiniteSet(S) <=> IsFiniteSet(S))
BY DEF Gdb!Cardinality, Cardinality, Gdb!IsFiniteSet, IsFiniteSet

\* The first and the last of some contexts are among them.
LEMMA LeastIn ==
  ASSUME Gdb!GdbAssumption, NEW S \in SUBSET Ctxs, S # {}
  PROVE  Gdb!Least(S) \in S
<1>1. \E x \in S : \A y \in S : x <= y
  BY LeastNatural DEF Gdb!GdbAssumption
<1> QED
  BY <1>1 DEF Gdb!Least

\* The last is found by the number of those after it.
LEMMA GreatestIn ==
  ASSUME Gdb!GdbAssumption, NEW S \in SUBSET Ctxs, S # {}
  PROVE  Gdb!Greatest(S) \in S
<1> DEFINE above(x) == {y \in S : y > x}
           T == {Cardinality(above(x)) : x \in S}
<1>1. IsFiniteSet(S) /\ S \subseteq Nat
  BY SameCount, FS_Subset DEF Gdb!GdbAssumption
<1>2. \A x \in S : IsFiniteSet(above(x)) /\ Cardinality(above(x)) \in Nat
  BY <1>1, FS_Subset, FS_CardinalityType
<1>3. T \subseteq Nat /\ T # {}
  BY <1>2
<1>4. PICK n \in T : \A m \in T : n <= m
  <2> HIDE DEF T
  <2> QED BY <1>3, LeastNatural
<1>5. PICK x \in S : n = Cardinality(above(x))
  BY <1>4
<1>6. ASSUME NEW y \in S, y > x PROVE FALSE
  <2>1. above(y) \subseteq above(x) /\ above(y) # above(x)
    <3>1. y \in above(x) /\ y \notin above(y)
      BY <1>1, <1>6
    <3>2. ASSUME NEW z \in above(y) PROVE z \in above(x)
      <4>1. z \in Nat /\ x \in Nat /\ y \in Nat /\ z > y
        BY <1>1, <1>6, <3>2
      <4> QED BY <1>6, <3>2, <4>1
    <3> QED BY <3>1, <3>2
  <2>2. Cardinality(above(y)) < Cardinality(above(x))
    <3>1. IsFiniteSet(above(x))
      BY <1>2
    <3>2. /\ Cardinality(above(y)) <= Cardinality(above(x))
          /\ Cardinality(above(y)) # Cardinality(above(x))
      <4> HIDE DEF above
      <4> QED BY <2>1, <3>1, FS_Subset
    <3>3. Cardinality(above(x)) \in Nat /\ Cardinality(above(y)) \in Nat
      BY <1>2, <1>6
    <3> HIDE DEF above
    <3> QED BY <3>2, <3>3
  <2>3. Cardinality(above(y)) \in T
    OBVIOUS
  <2>4. n <= Cardinality(above(y))
    <3> HIDE DEF T, above
    <3> QED BY <1>4, <2>3
  <2> HIDE DEF T, above
  <2> QED BY <1>2, <1>5, <1>6, <2>2, <2>4
<1>7. \E z \in S : \A y \in S : z >= y
  BY <1>1, <1>6
<1> QED
  BY <1>7 DEF Gdb!Greatest

\* What no context, port or process is.
LEMMA Sentinels ==
  ASSUME Gdb!GdbAssumption
  PROVE  /\ 0 \notin Ctxs /\ 0 \notin Gdb!Ports
         /\ NextPort \in Gdb!Ports /\ NextPort \notin BasePorts
         /\ Gdb!NoProc \notin Gdb!Debuggable
         /\ NextApp \in Gdb!Debuggable /\ Procs \subseteq Gdb!Debuggable
BY DEF Gdb!GdbAssumption, Gdb!Ports, Gdb!Debuggable, Gdb!NoProc

\* What the monitor makes of a context with a process: the session goes on, or
\* the end of the process ends it.
Handled(o, x) ==
  /\ x.localPort = o.localPort
  /\ x.attached => o.attached
  /\ x.eventToWaitFor = "attached" \/ x.debug # Gdb!NoProc
  /\ \/ /\ x.debug = o.debug /\ x.state = o.state
        /\ x.flags \in {o.flags, o.flags \ {"continuing"}}
     \/ /\ x.debug = Gdb!NoProc /\ x.state = "detaching" /\ ~x.attached
        /\ o.state # "disconnected"
        /\ "extended" \in o.flags /\ x.flags = o.flags \cap Gdb!RestartMask

\* The monitor is woken for a context that has a process.
LEMMA WakeForContextStep ==
  ASSUME Gdb!GdbAssumption, Prompt, GdbInv, Gdb!WakeForContext
  PROVE  GdbInv'
<1> DEFINE w == Gdb!Least({c \in Ctxs : Gdb!Signalled(c)})
<1>1. w \in Ctxs /\ Gdb!Signalled(w)
  <2>1. {c \in Ctxs : Gdb!Signalled(c)} # {}
    BY DEF Gdb!WakeForContext
  <2> QED BY <2>1, LeastIn
<1> HIDE DEF w
<1>2. /\ monitor.at = "waiting" /\ ~shall_terminate /\ ~statusUpdated
      /\ socket.at \in {"poll", "awaitDebug", "detachAck", "closeAck", "ended"}
      /\ monitor' = [at |-> "lock", handles |-> [x \in Ctxs |-> "attached"], c |-> w]
      /\ UNCHANGED <<clientOf, statusUpdated, statusUpdateReceived, shall_terminate,
                     nextApplicationGdbCtx, menu, socket, proc>>
  BY DEF Gdb!WakeForContext, Gdb!MonitorRuns, Gdb!MonitorAt, Gdb!status, Gdb!outside, w
<1>3. /\ ctx' \in [Ctxs -> ContextTypes]
      /\ \A c \in Ctxs :
           /\ ctx'[c].flags = ctx[c].flags /\ ctx'[c].state = ctx[c].state
           /\ ctx'[c].localPort = ctx[c].localPort /\ ctx'[c].debug = ctx[c].debug
           /\ ctx'[c].eventToWaitFor = ctx[c].eventToWaitFor
           /\ ctx'[c].attached = ctx[c].attached
  <2>1. ctx' = [ctx EXCEPT ![w].continued = FALSE] \/ ctx' = ctx
    BY DEF Gdb!WakeForContext, w
  <2>2. ctx \in [Ctxs -> ContextTypes]
    BY DEF GdbInv, GdbTypes
  <2>3. [ctx[w] EXCEPT !.continued = FALSE] \in ContextTypes
    BY <1>1, <2>2 DEF ContextTypes
  <2>4. ctx' = [ctx EXCEPT ![w] = [ctx[w] EXCEPT !.continued = FALSE]] \/ ctx' = ctx
    BY <2>1
  <2>5. /\ ctx' \in [Ctxs -> ContextTypes]
        /\ \A c \in Ctxs : ctx'[c] = ctx[c] \/ ctx'[c] = [ctx[c] EXCEPT !.continued = FALSE]
    BY <1>1, <2>2, <2>3, <2>4
  <2>6. \A c \in Ctxs : ctx[c] \in ContextTypes
    BY <2>2
  <2> QED BY <2>5, <2>6 DEF ContextTypes
<1>4. ctx[w].debug # Gdb!NoProc
  <2>1. monitor.handles[w] = "attached" => ctx[w].attached
    BY <1>1 DEF Gdb!Signalled
  <2> QED BY <1>1, <2>1 DEF GdbInv, EventsInv
<1>5. socket.at = "closeAck" /\ statusUpdateReceived => w # socket.c
  <2>1. monitor.handles[w] = "attached" => ctx[w].attached
    BY <1>1 DEF Gdb!Signalled
  <2> QED BY <1>1, <2>1 DEF GdbInv, AnswersInv
<1>6. GdbTypes'
  BY <1>1, <1>2, <1>3 DEF GdbInv, GdbTypes, MonitorPlaces, Watched
<1>7. EventsInv'
  BY <1>1, <1>2, <1>3, <1>4 DEF GdbInv, EventsInv
<1>8. AnswersInv'
  BY <1>2, <1>3, <1>5 DEF GdbInv, AnswersInv, GdbTypes
<1>9. EndsInv' /\ MenuInv'
  BY <1>2 DEF GdbInv, EndsInv, MenuInv, Served
<1>10. PortsInv'
  BY <1>2, <1>3 DEF GdbInv, GdbTypes, PortsInv, Served, Awaits
<1>11. FlagsInv'
  BY <1>3 DEF GdbInv, FlagsInv, Gdb!Allocated
<1>12. SessionsInv'
  BY <1>2, <1>3 DEF GdbInv, SessionsInv, SessionAt, Served, Awaits
<1> QED
  BY <1>6, <1>7, <1>8, <1>9, <1>10, <1>11, <1>12 DEF GdbInv

\* The monitor moves on with the context as it finds it under the lock.
LEMMA HandleContextStep ==
  ASSUME Gdb!GdbAssumption, Prompt, GdbInv, Gdb!HandleContext
  PROVE  GdbInv'
<1> DEFINE c == monitor.c
           e == IF socket.at = "ended" THEN "ended" ELSE "read"
           o == ctx[c]
<1>1. /\ monitor.at = "lock" /\ c \in Ctxs /\ ~Gdb!Locked(c)
      /\ socket.at \in {"poll", "awaitDebug", "detachAck", "closeAck", "ended"}
      /\ monitor' = [at |-> e, handles |-> [x \in Ctxs |-> "attached"], c |-> 0]
      /\ UNCHANGED <<clientOf, statusUpdated, statusUpdateReceived, shall_terminate,
                     nextApplicationGdbCtx, menu, socket>>
  BY DEF Gdb!HandleContext, Gdb!MonitorRuns, Gdb!MonitorAt, Gdb!status, Gdb!outside, GdbInv,
         GdbTypes
<1>2. menu = 0 /\ o.debug # Gdb!NoProc /\ o.debug \in Gdb!Debuggable /\ o \in ContextTypes
      /\ ctx \in [Ctxs -> ContextTypes] /\ proc \in [Gdb!Debuggable -> ProcTypes]
  BY <1>1 DEF Gdb!Locked, GdbInv, GdbTypes, EventsInv, ContextTypes
<1>3. socket.at # "detachAck" /\ (socket.at = "closeAck" => c # socket.c)
  BY <1>1, <1>2 DEF GdbInv, AnswersInv
<1>4. /\ proc' \in [Gdb!Debuggable -> ProcTypes]
      /\ \E x \in ContextTypes : ctx' = [ctx EXCEPT ![c] = x] /\ Handled(o, x)
  <2>1. CASE o.state \in {"disconnected", "detaching"}
    <3> DEFINE x == [o EXCEPT !.attached = FALSE, !.eventToWaitFor = "attached"]
    <3>1. ctx' = [ctx EXCEPT ![c] = x] /\ proc' = proc
      BY <1>1, <1>2, <2>1 DEF Gdb!HandleContext
    <3>2. x \in ContextTypes /\ Handled(o, x)
      BY <1>2 DEF ContextTypes, Watched, Handled
    <3> HIDE DEF x
    <3> QED BY <1>2, <3>1, <3>2
  <2>2. CASE o.state \notin {"disconnected", "detaching"} /\ o.eventToWaitFor = "attached"
    <3> DEFINE x == [o EXCEPT !.eventToWaitFor = "continued"]
    <3>1. ctx' = [ctx EXCEPT ![c] = x] /\ proc' = proc
      BY <1>1, <1>2, <2>2 DEF Gdb!HandleContext, Gdb!NowWaitsFor
    <3>2. x \in ContextTypes /\ Handled(o, x)
      BY <1>2 DEF ContextTypes, Watched, Handled
    <3> HIDE DEF x
    <3> QED BY <1>2, <3>1, <3>2
  <2>3. CASE o.state \notin {"disconnected", "detaching"} /\ o.eventToWaitFor = "continued"
    <3> DEFINE x == [o EXCEPT !.eventToWaitFor = "debug"]
    <3>1. ctx' = [ctx EXCEPT ![c] = x] /\ proc' = proc
      BY <1>1, <1>2, <2>3 DEF Gdb!HandleContext, Gdb!NowWaitsFor
    <3>2. x \in ContextTypes /\ Handled(o, x)
      BY <1>2 DEF ContextTypes, Watched, Handled
    <3> HIDE DEF x
    <3> QED BY <1>2, <3>1, <3>2
  <2>4. CASE o.state \notin {"disconnected", "detaching"} /\ o.eventToWaitFor = "debug"
    <3>1. PICK sent \in BOOLEAN : Gdb!HandleDebugEvent(c, sent)
      BY <1>1, <2>4 DEF Gdb!HandleContext
    <3> DEFINE p == o.debug
    <3>2. proc[p].pending \in {"none", "stop", "output", "exit"}
      BY <1>2 DEF ProcTypes
    <3>3. CASE proc[p].pending = "none"
      <4>1. ctx' = [ctx EXCEPT ![c] = o] /\ proc' = proc
        BY <1>1, <1>2, <3>1, <3>3 DEF Gdb!HandleDebugEvent
      <4>2. Handled(o, o)
        BY <1>2 DEF Handled
      <4> QED BY <1>2, <4>1, <4>2
    <3>4. CASE proc[p].pending = "stop"
      <4> DEFINE x == [o EXCEPT !.flags = @ \ {"continuing"}, !.lost = ~sent,
                                !.eventToWaitFor = IF sent THEN "continued" ELSE @]
      <4>1. ctx' = [ctx EXCEPT ![c] = x] /\ proc' = [proc EXCEPT ![p].pending = "none"]
        BY <1>1, <1>2, <3>1, <3>4 DEF Gdb!HandleDebugEvent
      <4>2. x \in ContextTypes /\ Handled(o, x) /\ Handled(o, o)
        BY <1>2 DEF ContextTypes, Watched, Handled
      <4>3. proc' \in [Gdb!Debuggable -> ProcTypes]
        BY <1>2, <4>1 DEF ProcTypes
      <4> HIDE DEF x
      <4> QED BY <1>2, <4>1, <4>2, <4>3
    <3>5. CASE proc[p].pending = "output"
      <4> DEFINE x == [o EXCEPT !.attached = FALSE, !.eventToWaitFor = "attached", !.lost = TRUE]
      <4>1. /\ ctx' = [ctx EXCEPT ![c] = x] \/ ctx' = [ctx EXCEPT ![c] = o]
            /\ proc' = [proc EXCEPT ![p] = [run |-> "running", pending |-> "none"]]
        BY <1>1, <1>2, <3>1, <3>5 DEF Gdb!HandleDebugEvent
      <4>2. x \in ContextTypes /\ Handled(o, x) /\ Handled(o, o)
        BY <1>2 DEF ContextTypes, Watched, Handled
      <4>3. proc' \in [Gdb!Debuggable -> ProcTypes]
        BY <1>2, <4>1 DEF ProcTypes
      <4> HIDE DEF x
      <4> QED BY <1>2, <4>1, <4>2, <4>3
    <3>6. CASE proc[p].pending = "exit"
      <4>1. Gdb!ProcessGone(c)
        BY <1>2, <3>1, <3>6 DEF Gdb!HandleDebugEvent
      <4>2. CASE "extended" \in o.flags
        <5> DEFINE x == [Gdb!DetachedExtended(o, "detaching") EXCEPT !.attached = FALSE]
        <5>1. ctx' = [ctx EXCEPT ![c] = x]
          BY <4>1, <4>2 DEF Gdb!ProcessGone
        <5>2. proc' \in [Gdb!Debuggable -> ProcTypes]
          BY <1>2, <4>1, <4>2 DEF Gdb!ProcessGone, Gdb!Released, ProcTypes
        <5>3. x \in ContextTypes /\ Handled(o, x)
          BY <1>2, <2>4, <4>2 DEF Gdb!DetachedExtended, Gdb!Detached, ContextTypes, Watched,
                 States, Handled
        <5> HIDE DEF x
        <5> QED BY <5>1, <5>2, <5>3
      <4>3. CASE "extended" \notin o.flags
        <5> DEFINE x == [o EXCEPT !.attached = FALSE, !.eventToWaitFor = "attached"]
        <5>1. ctx' = [ctx EXCEPT ![c] = x] /\ proc' = [proc EXCEPT ![p].pending = "none"]
          BY <1>1, <1>2, <4>1, <4>3 DEF Gdb!ProcessGone
        <5>2. x \in ContextTypes /\ Handled(o, x)
          BY <1>2 DEF ContextTypes, Watched, Handled
        <5>3. proc' \in [Gdb!Debuggable -> ProcTypes]
          BY <1>2, <5>1 DEF ProcTypes
        <5> HIDE DEF x
        <5> QED BY <5>1, <5>2, <5>3
      <4> QED BY <4>2, <4>3
    <3> QED BY <3>2, <3>3, <3>4, <3>5, <3>6
  <2> QED BY <1>2, <2>1, <2>2, <2>3, <2>4 DEF ContextTypes, Watched
<1>5. PICK x \in ContextTypes : ctx' = [ctx EXCEPT ![c] = x] /\ Handled(o, x)
  BY <1>4
<1>6. ctx'[c] = x /\ \A d \in Ctxs \ {c} : ctx'[d] = ctx[d]
  BY <1>1, <1>2, <1>5
<1>7. GdbTypes'
  BY <1>1, <1>2, <1>4, <1>5 DEF GdbInv, GdbTypes, MonitorPlaces, Watched
<1>8. EventsInv'
  BY <1>1, <1>2, <1>5, <1>6 DEF GdbInv, Handled, EventsInv
<1>9. AnswersInv'
  BY <1>1, <1>2, <1>3, <1>6 DEF GdbInv, AnswersInv, GdbTypes
<1>10. EndsInv' /\ MenuInv'
  BY <1>1 DEF GdbInv, EndsInv, MenuInv, Served
<1>11. PortsInv'
  BY <1>1, <1>2, <1>3, <1>5, <1>6 DEF GdbInv, Handled, GdbTypes, PortsInv, FlagsInv, Served,
         Awaits, Gdb!RestartMask
<1>12. FlagsInv'
  BY <1>1, <1>2, <1>5, <1>6 DEF GdbInv, Handled, FlagsInv, Gdb!Allocated, Gdb!RestartMask,
         Gdb!AllocatedMask
<1>13. SessionsInv'
  BY <1>1, <1>2, <1>5, <1>6 DEF GdbInv, Handled, SessionsInv, SessionAt, Served, Awaits,
         Gdb!RestartMask, Gdb!AllocatedMask
<1> QED
  BY <1>7, <1>8, <1>9, <1>10, <1>11, <1>12, <1>13 DEF GdbInv

\* A client comes: his context is the one selected for the port, or a free one.
LEMMA AcceptStep ==
  ASSUME Gdb!GdbAssumption, Prompt, GdbInv, NEW port \in Gdb!Ports, Gdb!Accept(port)
  PROVE  GdbInv'
<1> DEFINE tied == {c \in Ctxs : ctx[c].localPort = port}
<1>0. PICK n : n = IF tied # {} THEN Gdb!Least(tied) ELSE Gdb!Least(Gdb!Free)
  OBVIOUS
<1>1. /\ n \in Ctxs /\ port # 0 /\ clientOf[port] = 0
      /\ "used" \notin ctx[n].flags
      /\ IF tied # {} THEN ctx[n].localPort = port ELSE port \in BasePorts /\ n \in Gdb!Free
  <2>1. CASE tied # {}
    <3>1. Gdb!Least(tied) \in tied
      BY <2>1, LeastIn
    <3> QED BY <1>0, <2>1, <3>1, Sentinels DEF Gdb!Accept
  <2>2. CASE tied = {}
    <3>1. Gdb!Free # {}
      BY <2>2 DEF Gdb!Accept
    <3>2. Gdb!Least(Gdb!Free) \in Gdb!Free
      BY <3>1, LeastIn DEF Gdb!Free
    <3> QED BY <1>0, <2>2, <3>2, Sentinels DEF Gdb!Accept, Gdb!Free, Gdb!Allocated,
             Gdb!AllocatedMask
  <2> QED BY <2>1, <2>2
<1> DEFINE x == [ctx[n] EXCEPT !.flags = @ \cup {"used"}, !.state = "connected",
                               !.localPort = port]
<1>2. /\ socket.at = "poll" /\ ~shall_terminate /\ Gdb!MonitorWaits
      /\ ctx' = [ctx EXCEPT ![n].flags = @ \cup {"used"}, ![n].state = "connected",
                            ![n].localPort = port]
      /\ clientOf' = [clientOf EXCEPT ![port] = n]
      /\ socket' = [at |-> IF port = NextPort THEN "awaitDebug" ELSE "accept", c |-> n]
      /\ UNCHANGED <<statusUpdated, statusUpdateReceived, shall_terminate, nextApplicationGdbCtx,
                     menu, monitor, proc>>
  BY <1>0 DEF Gdb!Accept, Gdb!status, Gdb!outside
<1> HIDE DEF tied
<1>3. ctx' = [ctx EXCEPT ![n] = x]
  BY <1>1, <1>2 DEF GdbInv, GdbTypes
<1>4. ctx \in [Ctxs -> ContextTypes] /\ clientOf \in [Gdb!Ports -> Ctxs \cup {0}]
  BY DEF GdbInv, GdbTypes
<1>5. x \in ContextTypes
  <2>1. ctx[n] \in ContextTypes
    BY <1>1, <1>4
  <2> QED BY <2>1 DEF ContextTypes, Gdb!AllFlags, Gdb!AllocatedMask, States
<1>6. /\ ctx'[n] = x /\ \A d \in Ctxs \ {n} : ctx'[d] = ctx[d]
      /\ clientOf'[port] = n /\ \A q \in Gdb!Ports \ {port} : clientOf'[q] = clientOf[q]
  BY <1>1, <1>2, <1>3, <1>4
<1>7. /\ x.flags = ctx[n].flags \cup {"used"} /\ x.localPort = port /\ x.debug = ctx[n].debug
      /\ x.attached = ctx[n].attached /\ x.eventToWaitFor = ctx[n].eventToWaitFor
  BY <1>1, <1>4 DEF ContextTypes
<1> HIDE DEF x
\* A context that is not used has no client.
<1>8. ~Served(n)
  <2>1. SUFFICES ASSUME NEW q \in Gdb!Ports, clientOf[q] = n PROVE FALSE
    BY DEF Served
  <2>2. /\ ~Awaits(n) /\ ctx[n].localPort = q
        /\ q = NextPort /\ "selected" \in ctx[n].flags
    BY <1>1, <1>2, <2>1 DEF GdbInv, PortsInv, Awaits
  <2> QED BY <1>1, <1>4, <2>1, <2>2, Sentinels DEF Gdb!Free, Gdb!Allocated, Gdb!AllocatedMask
<1>9. Served(n)' /\ \A d \in Ctxs : Served(d) => Served(d)'
  BY <1>1, <1>2, <1>4, <1>6, Sentinels DEF Served
<1>10. \A d \in Ctxs \ {n} : Served(d)' => Served(d)
  BY <1>6 DEF Served
<1>11. GdbTypes'
  <2>1. ctx' \in [Ctxs -> ContextTypes] /\ clientOf' \in [Gdb!Ports -> Ctxs \cup {0}]
    BY <1>1, <1>2, <1>3, <1>4, <1>5
  <2>2. socket' \in [at : SocketPlaces, c : Ctxs \cup {0}] /\ socket'.c \in Ctxs
    BY <1>1, <1>2 DEF SocketPlaces
  <2> QED BY <1>2, <2>1, <2>2 DEF GdbInv, GdbTypes
<1>12. EventsInv'
  BY <1>2, <1>6, <1>7, <1>1 DEF GdbInv, EventsInv, GdbTypes
<1>13. AnswersInv'
  BY <1>1, <1>2 DEF GdbInv, AnswersInv, Gdb!MonitorWaits, Gdb!CanLockAll, Gdb!Locked, GdbTypes
<1>14. EndsInv' /\ MenuInv'
  BY <1>2, <1>9, <1>1 DEF GdbInv, EndsInv, MenuInv, GdbTypes
<1>15. PortsInv'
  <2>1. \A q \in Gdb!Ports : clientOf[q] # n
    BY <1>8 DEF Served
  <2>2. socket'.at = "awaitDebug" =>
          \A q \in Gdb!Ports : clientOf'[q] = socket'.c <=> q = NextPort
    BY <1>2, <1>6, <2>1
  <2>3. socket'.c = n /\ socket'.at \in {"awaitDebug", "accept"}
    BY <1>2
  <2>4. ASSUME NEW q \in Gdb!Ports, NEW d \in Ctxs, clientOf'[q] = d
        PROVE  /\ ctx'[d].localPort = q
               /\ "used" \in ctx'[d].flags \/ (q = NextPort /\ "selected" \in ctx'[d].flags)
    <3>1. CASE d = n
      BY <1>6, <1>7, <2>1, <2>4, <3>1
    <3>2. CASE d # n
      <4>1. clientOf[q] = d /\ ~Awaits(d) /\ ctx'[d] = ctx[d]
        BY <1>2, <1>6, <2>4, <3>2 DEF Awaits
      <4> QED BY <4>1 DEF GdbInv, PortsInv
    <3> QED BY <3>1, <3>2
  <2> QED BY <1>9, <2>2, <2>3, <2>4 DEF PortsInv
<1>16. FlagsInv'
  BY <1>1, <1>6, <1>7 DEF GdbInv, FlagsInv, Gdb!Allocated, Gdb!AllocatedMask
<1>17. SessionsInv'
  <2>1. ctx[n].debug # Gdb!NoProc => port = NextPort
    BY <1>1, <1>8 DEF GdbInv, SessionsInv, SessionAt, Gdb!Free, Gdb!Allocated, Gdb!AllocatedMask
  <2>2. nextApplicationGdbCtx = n => port = NextPort
    BY <1>1 DEF GdbInv, SessionsInv, SessionAt, Gdb!Free, Gdb!Allocated, Gdb!AllocatedMask
  <2>3. /\ ctx[n].debug # Gdb!NoProc \/ nextApplicationGdbCtx = n => "selected" \in ctx[n].flags
        /\ nextApplicationGdbCtx = n => ctx[n].debug = Gdb!NoProc
    BY <1>1, <1>8 DEF GdbInv, SessionsInv, SessionAt
  <2>4. socket'.c = n /\ (port = NextPort => Awaits(n)')
    BY <1>2 DEF Awaits
  <2>5. \A d \in Ctxs \ {n} : ~Awaits(d) /\ ~Awaits(d)'
    BY <1>2 DEF Awaits
  <2>6. SessionAt(n)'
    BY <1>2, <1>6, <1>7, <1>9, <2>1, <2>2, <2>3, <2>4 DEF SessionAt
  <2>7. ASSUME NEW d \in Ctxs \ {n} PROVE SessionAt(d)'
    BY <1>2, <1>6, <1>9, <1>10, <2>5 DEF GdbInv, SessionsInv, SessionAt
  <2> QED BY <2>6, <2>7 DEF SessionsInv
<1> QED
  BY <1>11, <1>12, <1>13, <1>14, <1>15, <1>16, <1>17 DEF GdbInv

\* The client that came is given the process that was selected for its port.
LEMMA AcceptClientStep ==
  ASSUME Gdb!GdbAssumption, Prompt, GdbInv, Gdb!AcceptClient
  PROVE  GdbInv'
<1> DEFINE c == socket.c
           p == IF "atStart" \in ctx[c].flags THEN ctx[c].debug ELSE ctx[c].pid
<1>1. /\ socket.at = "accept" /\ ~Gdb!Locked(c) /\ c \in Ctxs
      /\ ctx \in [Ctxs -> ContextTypes] /\ proc \in [Gdb!Debuggable -> ProcTypes]
      /\ UNCHANGED <<clientOf, statusUpdated, statusUpdateReceived, shall_terminate,
                     nextApplicationGdbCtx, menu, monitor>>
  BY DEF Gdb!AcceptClient, Gdb!status, Gdb!outside, GdbInv, GdbTypes
<1>2. PICK attaches \in BOOLEAN :
        /\ attaches => "selected" \in ctx[c].flags
        /\ "atStart" \notin ctx[c].flags
               => attaches = ("selected" \in ctx[c].flags /\ Gdb!CanAttach(p))
        /\ IF attaches
           THEN ctx' = [ctx EXCEPT ![c] = Gdb!AttachedTo(@, p)] /\ proc' = Gdb!Stopped(p)
           ELSE UNCHANGED <<ctx, proc>>
        /\ socket' = [socket EXCEPT !.at = IF "selected" \in ctx[c].flags /\ ~attaches
                                           THEN "closing" ELSE "poll"]
  BY DEF Gdb!AcceptClient, Gdb!SocketAt
<1>3. /\ socket' \in [at : {"closing", "poll"}, c : Ctxs \cup {0}] /\ socket'.c = c
  BY <1>1, <1>2 DEF GdbInv, GdbTypes
<1>4. Served(c) /\ \A d : Served(d)' <=> Served(d)
  BY <1>1 DEF GdbInv, PortsInv, Served
<1>5. /\ ctx' \in [Ctxs -> ContextTypes] /\ proc' \in [Gdb!Debuggable -> ProcTypes]
      /\ \A d \in Ctxs : /\ ctx'[d].flags = ctx[d].flags /\ ctx'[d].localPort = ctx[d].localPort
                         /\ ctx'[d].eventToWaitFor = ctx[d].eventToWaitFor
                         /\ ctx[d].debug # Gdb!NoProc => ctx'[d].debug # Gdb!NoProc
                         /\ ctx'[d].attached => ctx[d].attached \/ ctx'[d].debug # Gdb!NoProc
      /\ \A d \in Ctxs \ {c} : ctx'[d] = ctx[d]
  <2>1. CASE ~attaches
    BY <1>1, <1>2, <2>1
  <2>2. CASE attaches
    <3>1. p \in Gdb!Debuggable /\ p # Gdb!NoProc
      <4>1. CASE "atStart" \in ctx[c].flags
        BY <1>1, <1>2, <2>2, <4>1, Sentinels DEF GdbInv, FlagsInv, ContextTypes
      <4>2. CASE "atStart" \notin ctx[c].flags
        BY <1>2, <2>2, <4>2, Sentinels DEF Gdb!CanAttach
      <4> QED BY <4>1, <4>2
    <3> DEFINE x == Gdb!AttachedTo(ctx[c], p)
    <3>2. /\ ctx' = [ctx EXCEPT ![c] = x]
          /\ proc' = [proc EXCEPT ![p] = [run |-> "stopped", pending |-> "none"]]
      BY <1>2, <2>2 DEF Gdb!Stopped
    <3> HIDE DEF p
    <3>0. ctx[c] \in ContextTypes
      BY <1>1
    <3>3. /\ x \in ContextTypes /\ x.flags = ctx[c].flags /\ x.localPort = ctx[c].localPort
          /\ x.eventToWaitFor = ctx[c].eventToWaitFor /\ x.debug = p
      BY <3>0, <3>1 DEF Gdb!AttachedTo, ContextTypes, States
    <3> HIDE DEF x, c
    <3>4. proc' \in [Gdb!Debuggable -> ProcTypes]
      BY <1>1, <3>2 DEF ProcTypes
    <3>5. /\ ctx' \in [Ctxs -> ContextTypes] /\ ctx'[c] = x
          /\ \A d \in Ctxs \ {c} : ctx'[d] = ctx[d]
      BY <1>1, <3>2, <3>3
    <3> QED BY <1>1, <3>1, <3>3, <3>4, <3>5
  <2> QED BY <2>1, <2>2
<1> HIDE DEF c, p
<1>6. GdbTypes'
  BY <1>1, <1>3, <1>5 DEF GdbInv, GdbTypes, SocketPlaces, c
<1>7. EventsInv'
  BY <1>1, <1>5 DEF GdbInv, EventsInv, GdbTypes
<1>8. AnswersInv'
  BY <1>1, <1>3 DEF GdbInv, AnswersInv
<1>9. EndsInv' /\ MenuInv'
  BY <1>1, <1>3, <1>4 DEF GdbInv, EndsInv, MenuInv
<1>10. PortsInv'
  BY <1>1, <1>3, <1>4, <1>5 DEF GdbInv, PortsInv, Awaits
<1>11. FlagsInv'
  BY <1>5 DEF GdbInv, FlagsInv, Gdb!Allocated
<1>12. SessionsInv'
  <2>1. \A d \in Ctxs : nextApplicationGdbCtx = d => d # c
    BY <1>1, <1>4 DEF GdbInv, SessionsInv, SessionAt, Awaits
  <2> QED BY <1>1, <1>3, <1>4, <1>5, <2>1 DEF GdbInv, SessionsInv, SessionAt, Awaits
<1> QED
  BY <1>6, <1>7, <1>8, <1>9, <1>10, <1>11, <1>12 DEF GdbInv

\* The next application is there for its client.
LEMMA NextApplicationArrivedStep ==
  ASSUME Gdb!GdbAssumption, Prompt, GdbInv, Gdb!NextApplicationArrived
  PROVE  GdbInv'
<1>1. /\ socket.at = "awaitDebug" /\ ~Gdb!Locked(socket.c) /\ Gdb!MonitorWaits
      /\ ctx[socket.c].debug # Gdb!NoProc /\ socket.c \in Ctxs
      /\ socket' = [socket EXCEPT !.at = "accept"]
      /\ UNCHANGED <<ctx, clientOf, statusUpdated, statusUpdateReceived, shall_terminate,
                     nextApplicationGdbCtx, menu, monitor, proc>>
  BY DEF Gdb!NextApplicationArrived, Gdb!SocketAt, Gdb!status, Gdb!outside, GdbInv, GdbTypes
<1>2. socket' \in [at : SocketPlaces, c : Ctxs \cup {0}] /\ socket'.at = "accept"
      /\ socket'.c = socket.c
  BY <1>1 DEF GdbInv, GdbTypes, SocketPlaces
<1>3. GdbTypes' /\ EventsInv' /\ EndsInv' /\ MenuInv' /\ FlagsInv'
  BY <1>1, <1>2 DEF GdbInv, GdbTypes, EventsInv, EndsInv, MenuInv, Served, FlagsInv,
         Gdb!Allocated
<1>4. AnswersInv'
  BY <1>1, <1>2, Prompt DEF GdbInv, AnswersInv, Gdb!MonitorWaits, Gdb!CanLockAll, Gdb!Locked
<1>5. Served(socket.c)
  BY <1>1, Sentinels DEF GdbInv, PortsInv, Served
<1>6. ctx[socket.c].localPort = NextPort /\ "selected" \in ctx[socket.c].flags
  BY <1>1 DEF GdbInv, SessionsInv, SessionAt, Awaits
<1>7. PortsInv'
  <2>1. ASSUME NEW port \in Gdb!Ports, clientOf[port] = socket.c PROVE port = NextPort
    BY <1>1, <2>1 DEF GdbInv, PortsInv
  <2> QED BY <1>1, <1>2, <1>5, <1>6, <2>1 DEF GdbInv, PortsInv, Served, Awaits
<1>8. SessionsInv'
  BY <1>1, <1>2, <1>5 DEF GdbInv, SessionsInv, SessionAt, Served, Awaits
<1> QED
  BY <1>3, <1>4, <1>7, <1>8 DEF GdbInv

\* A client continues its process, once it is attached.
LEMMA ContinueStep ==
  ASSUME Gdb!GdbAssumption, Prompt, GdbInv, NEW c \in Ctxs, Gdb!Continue(c)
  PROVE  GdbInv'
<1> DEFINE x == [ctx[c] EXCEPT !.flags = @ \cup {"continuing"},
                               !.continued = @ \/ "continuing" \notin ctx[c].flags]
<1>1. /\ ctx[c] \in ContextTypes /\ ctx \in [Ctxs -> ContextTypes]
      /\ proc \in [Gdb!Debuggable -> ProcTypes]
  BY DEF GdbInv, GdbTypes
<1>2. ctx' = [ctx EXCEPT ![c] = x]
  BY <1>1 DEF Gdb!Continue
<1>3. /\ x \in ContextTypes /\ x.flags = ctx[c].flags \cup {"continuing"}
      /\ x.state = ctx[c].state /\ x.localPort = ctx[c].localPort /\ x.debug = ctx[c].debug
      /\ x.eventToWaitFor = ctx[c].eventToWaitFor /\ x.attached = ctx[c].attached
  BY <1>1 DEF ContextTypes, Gdb!AllFlags
<1> HIDE DEF x
<1>4. /\ ctx' \in [Ctxs -> ContextTypes] /\ ctx'[c] = x
      /\ \A d \in Ctxs \ {c} : ctx'[d] = ctx[d]
  BY <1>1, <1>2, <1>3
<1>5. proc' \in [Gdb!Debuggable -> ProcTypes]
  BY <1>1 DEF Gdb!Continue, ProcTypes
<1>6. UNCHANGED <<clientOf, statusUpdated, statusUpdateReceived, shall_terminate,
                  nextApplicationGdbCtx, menu, monitor, socket>>
  BY DEF Gdb!Continue, Gdb!status, Gdb!outside
<1>7. GdbTypes'
  BY <1>4, <1>5, <1>6 DEF GdbInv, GdbTypes
<1>8. EventsInv' /\ AnswersInv' /\ EndsInv' /\ MenuInv'
  BY <1>3, <1>4, <1>6 DEF GdbInv, GdbTypes, EventsInv, AnswersInv, EndsInv, MenuInv, Served
<1>9. PortsInv'
  BY <1>3, <1>4, <1>6 DEF GdbInv, GdbTypes, PortsInv, Served, Awaits
<1>10. FlagsInv'
  BY <1>3, <1>4 DEF GdbInv, FlagsInv, Gdb!Allocated
<1>11. SessionsInv'
  BY <1>3, <1>4, <1>6 DEF GdbInv, SessionsInv, SessionAt, Served, Awaits, Gdb!AllocatedMask
<1> QED
  BY <1>7, <1>8, <1>9, <1>10, <1>11 DEF GdbInv

\* A client stops its process; nothing of the session changes but a flag.
LEMMA BreakStep ==
  ASSUME Gdb!GdbAssumption, Prompt, GdbInv, NEW c \in Ctxs, Gdb!Break(c)
  PROVE  GdbInv'
<1> DEFINE x == [ctx[c] EXCEPT !.flags = @ \ {"continuing"}]
<1>1. /\ ctx[c] \in ContextTypes /\ ctx \in [Ctxs -> ContextTypes]
      /\ proc \in [Gdb!Debuggable -> ProcTypes]
  BY DEF GdbInv, GdbTypes
<1>2. ctx' = [ctx EXCEPT ![c] = x] \/ ctx' = ctx
  BY <1>1 DEF Gdb!Break
<1>3. /\ x \in ContextTypes /\ x.flags = ctx[c].flags \ {"continuing"}
      /\ x.state = ctx[c].state /\ x.localPort = ctx[c].localPort /\ x.debug = ctx[c].debug
      /\ x.eventToWaitFor = ctx[c].eventToWaitFor /\ x.attached = ctx[c].attached
  BY <1>1 DEF ContextTypes
<1> HIDE DEF x
<1>4. /\ ctx' \in [Ctxs -> ContextTypes] /\ ctx'[c] \in {x, ctx[c]}
      /\ \A d \in Ctxs \ {c} : ctx'[d] = ctx[d]
  BY <1>1, <1>2, <1>3
<1>5. proc' \in [Gdb!Debuggable -> ProcTypes]
  BY <1>1 DEF Gdb!Break, ProcTypes
<1>6. UNCHANGED <<clientOf, statusUpdated, statusUpdateReceived, shall_terminate,
                  nextApplicationGdbCtx, menu, monitor, socket>>
  BY DEF Gdb!Break, Gdb!status, Gdb!outside
<1>7. GdbTypes'
  BY <1>4, <1>5, <1>6 DEF GdbInv, GdbTypes
<1>8. EventsInv' /\ AnswersInv' /\ EndsInv' /\ MenuInv'
  BY <1>3, <1>4, <1>6 DEF GdbInv, GdbTypes, EventsInv, AnswersInv, EndsInv, MenuInv, Served
<1>9. PortsInv'
  BY <1>3, <1>4, <1>6 DEF GdbInv, GdbTypes, PortsInv, Served, Awaits
<1>10. FlagsInv'
  BY <1>3, <1>4 DEF GdbInv, FlagsInv, Gdb!Allocated, Gdb!AllocatedMask
<1>11. SessionsInv'
  BY <1>3, <1>4, <1>6 DEF GdbInv, SessionsInv, SessionAt, Served, Awaits, Gdb!AllocatedMask
<1> QED
  BY <1>7, <1>8, <1>9, <1>10, <1>11 DEF GdbInv

\* Only clients of the first ports come to have the flag.
LEMMA EnableExtendedModeStep ==
  ASSUME Gdb!GdbAssumption, Prompt, GdbInv, NEW c \in Ctxs, Gdb!EnableExtendedMode(c)
  PROVE  GdbInv'
<1> DEFINE x == [ctx[c] EXCEPT !.flags = @ \cup {"extended"}]
<1>1. ctx[c] \in ContextTypes /\ ctx \in [Ctxs -> ContextTypes]
  BY DEF GdbInv, GdbTypes
<1>2. ctx' = [ctx EXCEPT ![c] = x] /\ ctx[c].localPort \in BasePorts /\ Gdb!Packet(c)
  BY <1>1 DEF Gdb!EnableExtendedMode
<1>3. /\ x \in ContextTypes /\ x.flags = ctx[c].flags \cup {"extended"}
      /\ x.state = ctx[c].state /\ x.localPort = ctx[c].localPort /\ x.debug = ctx[c].debug
      /\ x.eventToWaitFor = ctx[c].eventToWaitFor /\ x.attached = ctx[c].attached
  BY <1>1 DEF ContextTypes, Gdb!AllFlags, Gdb!RestartMask
<1> HIDE DEF x
<1>4. /\ ctx' \in [Ctxs -> ContextTypes] /\ ctx'[c] = x
      /\ \A d \in Ctxs \ {c} : ctx'[d] = ctx[d]
  BY <1>1, <1>2, <1>3
<1>5. UNCHANGED <<clientOf, statusUpdated, statusUpdateReceived, shall_terminate,
                  nextApplicationGdbCtx, menu, monitor, socket, proc>>
  BY DEF Gdb!EnableExtendedMode, Gdb!status, Gdb!outside
<1>6. "used" \in ctx[c].flags
  BY <1>2, Sentinels DEF Gdb!Packet, GdbInv, PortsInv, Awaits
<1>7. GdbTypes'
  BY <1>4, <1>5 DEF GdbInv, GdbTypes
<1>8. EventsInv' /\ AnswersInv' /\ EndsInv' /\ MenuInv'
  BY <1>3, <1>4, <1>5 DEF GdbInv, GdbTypes, EventsInv, AnswersInv, EndsInv, MenuInv, Served
<1>9. PortsInv'
  BY <1>3, <1>4, <1>5 DEF GdbInv, GdbTypes, PortsInv, Served, Awaits
<1>10. FlagsInv'
  BY <1>3, <1>4, <1>6 DEF GdbInv, FlagsInv, Gdb!Allocated
<1>11. SessionsInv'
  BY <1>3, <1>4, <1>5 DEF GdbInv, SessionsInv, SessionAt, Served, Awaits, Gdb!AllocatedMask
<1> QED
  BY <1>7, <1>8, <1>9, <1>10, <1>11 DEF GdbInv

\* While a packet is handled the monitor waits, and the context is not changed by others.
LEMMA WhilePacket ==
  ASSUME Prompt, GdbInv, NEW c \in Ctxs, Gdb!Packet(c)
  PROVE  /\ socket.at = "poll" /\ ~shall_terminate /\ Served(c) /\ menu = 0
         /\ monitor.at = "waiting" /\ ctx[c] \in ContextTypes /\ ~Awaits(c)
         /\ ctx \in [Ctxs -> ContextTypes] /\ proc \in [Gdb!Debuggable -> ProcTypes]
<1>1. /\ socket.at = "poll" /\ ~shall_terminate /\ Gdb!MonitorWaits /\ ~Gdb!Locked(c)
      /\ Served(c)
      /\ ctx \in [Ctxs -> ContextTypes] /\ proc \in [Gdb!Debuggable -> ProcTypes]
  BY DEF Gdb!Packet, Served, GdbInv, GdbTypes
<1>2. menu = 0 /\ monitor.at # "ended"
  BY <1>1 DEF Gdb!Locked, GdbInv, EndsInv
<1>3. monitor.at = "waiting"
  BY <1>1, <1>2, Prompt DEF Gdb!MonitorWaits, Gdb!CanLockAll, Gdb!Locked
<1> QED
  BY <1>1, <1>2, <1>3 DEF Awaits

\* A command that detaches in extended mode: the session is kept as it was, but
\* for the events, until the monitor answers.
LEMMA DetachBegins ==
  ASSUME Gdb!GdbAssumption, Prompt, GdbInv, NEW c \in Ctxs, Gdb!Packet(c),
         NEW x \in ContextTypes,
         ctx' = [ctx EXCEPT ![c] = x],
         x.debug = ctx[c].debug, x.localPort = ctx[c].localPort, ~x.attached,
         x.eventToWaitFor = "attached",
         x.flags \in {ctx[c].flags, ctx[c].flags \cup {"terminate"}}, "used" \in x.flags,
         statusUpdateReceived' = FALSE, statusUpdated' = TRUE,
         socket' = [at |-> "detachAck", c |-> c],
         UNCHANGED <<clientOf, shall_terminate, nextApplicationGdbCtx, menu, monitor, proc>>
  PROVE  GdbInv'
<1>1. /\ socket.at = "poll" /\ ~shall_terminate /\ Served(c) /\ menu = 0
      /\ monitor.at = "waiting" /\ ~Awaits(c) /\ ctx \in [Ctxs -> ContextTypes]
  BY WhilePacket
<1>2. /\ ctx' \in [Ctxs -> ContextTypes] /\ ctx'[c] = x
      /\ \A d \in Ctxs \ {c} : ctx'[d] = ctx[d]
  BY <1>1
<1>3. GdbTypes'
  BY <1>2 DEF GdbInv, GdbTypes, SocketPlaces
<1>4. EventsInv'
  BY <1>2 DEF GdbInv, EventsInv, GdbTypes
<1>5. AnswersInv' /\ EndsInv' /\ MenuInv'
  BY <1>1, <1>2 DEF GdbInv, AnswersInv, EndsInv, MenuInv, Served
<1>6. PortsInv'
  BY <1>1, <1>2 DEF GdbInv, GdbTypes, PortsInv, Served, Awaits
<1>7. FlagsInv'
  BY <1>2 DEF GdbInv, FlagsInv, Gdb!Allocated, Gdb!AllocatedMask
<1>8. SessionsInv'
  <2>1. SessionAt(c)'
    BY <1>1, <1>2 DEF GdbInv, SessionsInv, SessionAt, Served, Awaits
  <2>2. ASSUME NEW d \in Ctxs \ {c} PROVE SessionAt(d)'
    BY <1>1, <1>2 DEF GdbInv, SessionsInv, SessionAt, Served, Awaits
  <2> QED BY <2>1, <2>2 DEF SessionsInv
<1> QED
  BY <1>3, <1>4, <1>5, <1>6, <1>7, <1>8 DEF GdbInv

\* A process is attached by its client, or the detachment of none begins.
LEMMA AttachStep ==
  ASSUME Gdb!GdbAssumption, Prompt, GdbInv, NEW c \in Ctxs, NEW p \in Procs, Gdb!Attach(c, p)
  PROVE  GdbInv'
<1>1. /\ Gdb!Packet(c) /\ "extended" \in ctx[c].flags
      /\ ctx[c].state = "connected" /\ ctx[c].debug = Gdb!NoProc
      /\ UNCHANGED <<clientOf, shall_terminate, nextApplicationGdbCtx, menu, monitor>>
  BY DEF Gdb!Attach, Gdb!outside
<1>2. /\ socket.at = "poll" /\ ~shall_terminate /\ Served(c) /\ menu = 0
      /\ monitor.at = "waiting" /\ ~Awaits(c) /\ ctx \in [Ctxs -> ContextTypes]
      /\ ctx[c] \in ContextTypes /\ proc \in [Gdb!Debuggable -> ProcTypes]
  BY <1>1, WhilePacket
<1>3. p \in Gdb!Debuggable /\ p # Gdb!NoProc
  BY Sentinels
<1>4. "used" \in ctx[c].flags
  BY <1>1 DEF GdbInv, FlagsInv
<1>5. CASE ~Gdb!CanAttach(p)
  <2> DEFINE x == [Gdb!DetachImmediatelyExtended(ctx[c]) EXCEPT !.pid = p]
  <2>1. /\ ctx' = [ctx EXCEPT ![c] = x] /\ statusUpdateReceived' = FALSE
        /\ statusUpdated' = TRUE
        /\ socket' = [at |-> "detachAck", c |-> c] /\ UNCHANGED proc
    BY <1>5 DEF Gdb!Attach
  <2>2. /\ x \in ContextTypes /\ x.debug = ctx[c].debug /\ x.localPort = ctx[c].localPort
        /\ x.flags = ctx[c].flags /\ ~x.attached /\ x.eventToWaitFor = "attached"
    BY <1>2, <1>3 DEF Gdb!DetachImmediatelyExtended, ContextTypes, States, Watched
  <2> HIDE DEF x
  <2> QED BY <1>1, <1>4, <2>1, <2>2, DetachBegins
<1>6. CASE Gdb!CanAttach(p)
  <2> DEFINE x == Gdb!AttachedTo(ctx[c], p)
  <2>1. /\ ctx' = [ctx EXCEPT ![c] = x]
        /\ UNCHANGED <<statusUpdated, statusUpdateReceived, socket>>
        /\ proc' = [proc EXCEPT ![p] = [run |-> "stopped", pending |-> "none"]]
    BY <1>6 DEF Gdb!Attach, Gdb!Stopped, Gdb!status
  <2>2. /\ x \in ContextTypes /\ x.debug = p /\ x.localPort = ctx[c].localPort
        /\ x.flags = ctx[c].flags /\ x.eventToWaitFor = ctx[c].eventToWaitFor
    BY <1>2, <1>3 DEF Gdb!AttachedTo, ContextTypes, States
  <2> HIDE DEF x
  <2>3. /\ ctx' \in [Ctxs -> ContextTypes] /\ ctx'[c] = x
        /\ \A d \in Ctxs \ {c} : ctx'[d] = ctx[d]
    BY <1>2, <2>1, <2>2
  <2>4. proc' \in [Gdb!Debuggable -> ProcTypes]
    BY <1>2, <2>1 DEF ProcTypes
  <2>5. GdbTypes'
    BY <1>1, <2>1, <2>3, <2>4 DEF GdbInv, GdbTypes
  <2>6. EventsInv'
    BY <1>1, <1>3, <2>2, <2>3 DEF GdbInv, EventsInv, GdbTypes
  <2>7. AnswersInv' /\ EndsInv' /\ MenuInv'
    BY <1>1, <1>2, <2>1 DEF GdbInv, AnswersInv, EndsInv, MenuInv, Served
  <2>8. PortsInv'
    BY <1>1, <1>2, <2>1, <2>2, <2>3 DEF GdbInv, GdbTypes, PortsInv, Served, Awaits
  <2>9. FlagsInv'
    BY <1>3, <2>2, <2>3 DEF GdbInv, FlagsInv, Gdb!Allocated
  <2>10. SessionsInv'
    <3>1. SessionAt(c)'
      BY <1>1, <1>2, <2>1, <2>2, <2>3 DEF GdbInv, SessionsInv, SessionAt, Served, Awaits
    <3>2. ASSUME NEW d \in Ctxs \ {c} PROVE SessionAt(d)'
      BY <1>1, <1>2, <2>1, <2>3 DEF GdbInv, SessionsInv, SessionAt, Served, Awaits
    <3> QED BY <3>1, <3>2 DEF SessionsInv
  <2> QED
    BY <2>5, <2>6, <2>7, <2>8, <2>9, <2>10 DEF GdbInv
<1> QED
  BY <1>5, <1>6

\* The detachment begins, or the end of the session.
LEMMA DetachOrKillStep ==
  ASSUME Gdb!GdbAssumption, Prompt, GdbInv, NEW c \in Ctxs, NEW kill \in BOOLEAN,
         Gdb!DetachOrKill(c, kill)
  PROVE  GdbInv'
<1>0. PICK flags : flags = ctx[c].flags \cup (IF kill THEN {"terminate"} ELSE {})
  OBVIOUS
<1>1. /\ Gdb!Packet(c)
      /\ UNCHANGED <<clientOf, shall_terminate, nextApplicationGdbCtx, menu, monitor, proc>>
  BY DEF Gdb!DetachOrKill, Gdb!outside
<1>2. /\ socket.at = "poll" /\ ~shall_terminate /\ Served(c) /\ menu = 0
      /\ monitor.at = "waiting" /\ ~Awaits(c) /\ ctx \in [Ctxs -> ContextTypes]
      /\ ctx[c] \in ContextTypes
  BY <1>1, WhilePacket
<1>3. /\ flags \in SUBSET Gdb!AllFlags
      /\ flags \in {ctx[c].flags, ctx[c].flags \cup {"terminate"}}
      /\ ("extended" \in flags <=> "extended" \in ctx[c].flags)
  BY <1>0, <1>2 DEF ContextTypes, Gdb!AllFlags
<1>4. CASE "extended" \in flags
  <2> DEFINE x == [Gdb!DetachImmediatelyExtended(ctx[c]) EXCEPT !.flags = flags]
  <2>1. /\ ctx' = [ctx EXCEPT ![c] = x] /\ statusUpdateReceived' = FALSE
        /\ statusUpdated' = TRUE
        /\ socket' = [at |-> "detachAck", c |-> c]
    BY <1>0, <1>4 DEF Gdb!DetachOrKill
  <2>2. /\ x \in ContextTypes /\ x.debug = ctx[c].debug /\ x.localPort = ctx[c].localPort
        /\ x.flags = flags /\ ~x.attached /\ x.eventToWaitFor = "attached"
    BY <1>2, <1>3 DEF Gdb!DetachImmediatelyExtended, ContextTypes, States, Watched
  <2>3. "used" \in flags
    BY <1>3, <1>4 DEF GdbInv, FlagsInv
  <2> HIDE DEF x
  <2> QED BY <1>1, <1>3, <2>1, <2>2, <2>3, DetachBegins
<1>5. CASE "extended" \notin flags
  <2> DEFINE x == [ctx[c] EXCEPT !.state = "detaching", !.flags = flags]
  <2>1. /\ ctx' = [ctx EXCEPT ![c] = x] /\ UNCHANGED <<statusUpdated, statusUpdateReceived>>
        /\ socket' = [at |-> "closing", c |-> c]
    BY <1>0, <1>2, <1>5 DEF Gdb!DetachOrKill, Gdb!status
  <2>2. /\ x \in ContextTypes /\ x.debug = ctx[c].debug /\ x.localPort = ctx[c].localPort
        /\ x.flags = flags /\ x.attached = ctx[c].attached
        /\ x.eventToWaitFor = ctx[c].eventToWaitFor
    BY <1>2, <1>3 DEF ContextTypes, States
  <2> HIDE DEF x
  <2>3. /\ ctx' \in [Ctxs -> ContextTypes] /\ ctx'[c] = x
        /\ \A d \in Ctxs \ {c} : ctx'[d] = ctx[d]
    BY <1>2, <2>1, <2>2
  <2>4. GdbTypes'
    BY <1>1, <2>1, <2>3 DEF GdbInv, GdbTypes, SocketPlaces
  <2>5. EventsInv' /\ AnswersInv' /\ EndsInv' /\ MenuInv'
    BY <1>1, <1>2, <2>1, <2>2, <2>3
    DEF GdbInv, GdbTypes, EventsInv, AnswersInv, EndsInv, MenuInv, Served
  <2>6. PortsInv'
    BY <1>1, <1>2, <1>3, <2>1, <2>2, <2>3 DEF GdbInv, GdbTypes, PortsInv, Served, Awaits
  <2>7. FlagsInv'
    BY <1>3, <2>2, <2>3 DEF GdbInv, FlagsInv, Gdb!Allocated, Gdb!AllocatedMask
  <2>8. SessionsInv'
    <3>1. SessionAt(c)'
      BY <1>1, <1>2, <1>3, <2>1, <2>2, <2>3 DEF GdbInv, SessionsInv, SessionAt, Served, Awaits
    <3>2. ASSUME NEW d \in Ctxs \ {c} PROVE SessionAt(d)'
      BY <1>1, <1>2, <2>1, <2>3 DEF GdbInv, SessionsInv, SessionAt, Served, Awaits
    <3> QED BY <3>1, <3>2 DEF SessionsInv
  <2> QED
    BY <2>4, <2>5, <2>6, <2>7, <2>8 DEF GdbInv
<1> QED
  BY <1>4, <1>5

\* The monitor has no handle of the process when it is detached.
LEMMA FinishDetachStep ==
  ASSUME Gdb!GdbAssumption, Prompt, GdbInv, Gdb!FinishDetach
  PROVE  GdbInv'
<1>0. PICK c : c = socket.c
  OBVIOUS
<1> DEFINE x == Gdb!DetachedExtended(ctx[c], "connected")
<1>1. /\ socket.at = "detachAck" /\ statusUpdateReceived /\ c \in Ctxs
      /\ ctx' = [ctx EXCEPT ![c] = x] /\ proc' = Gdb!Released(c)
      /\ monitor' = Gdb!HandleClosed(c)
      /\ socket' = [socket EXCEPT !.at = "poll"]
      /\ UNCHANGED <<clientOf, statusUpdated, statusUpdateReceived, shall_terminate,
                     nextApplicationGdbCtx, menu>>
  BY <1>0 DEF Gdb!FinishDetach, Gdb!SocketAt, Gdb!status, Gdb!outside, GdbInv, GdbTypes
<1>2. /\ ctx \in [Ctxs -> ContextTypes] /\ ctx[c] \in ContextTypes
      /\ proc \in [Gdb!Debuggable -> ProcTypes]
  BY <1>1 DEF GdbInv, GdbTypes
<1>3. monitor.at \in {"read", "ended"} /\ \A d \in Ctxs : monitor.handles[d] = "attached"
  BY <1>1 DEF GdbInv, AnswersInv, EventsInv
<1>4. monitor' = monitor
  BY <1>1, <1>3 DEF Gdb!HandleClosed
<1>5. /\ x \in ContextTypes /\ x.debug = Gdb!NoProc /\ x.localPort = ctx[c].localPort
      /\ x.flags = ctx[c].flags \cap Gdb!RestartMask /\ x.attached = ctx[c].attached
      /\ x.eventToWaitFor = "attached"
  BY <1>2 DEF Gdb!DetachedExtended, Gdb!Detached, ContextTypes, States, Watched
<1> HIDE DEF x
<1>6. /\ ctx' \in [Ctxs -> ContextTypes] /\ ctx'[c] = x
      /\ \A d \in Ctxs \ {c} : ctx'[d] = ctx[d]
  BY <1>1, <1>2, <1>5
<1>7. proc' \in [Gdb!Debuggable -> ProcTypes]
  BY <1>1, <1>2 DEF Gdb!Released, ProcTypes
<1>8. Served(c) /\ "used" \in ctx[c].flags /\ ~ctx[c].attached
  BY <1>0, <1>1 DEF GdbInv, PortsInv, AnswersInv
<1>9. socket' \in [at : SocketPlaces, c : Ctxs \cup {0}] /\ socket'.at = "poll"
  BY <1>1 DEF GdbInv, GdbTypes, SocketPlaces
<1>10. GdbTypes'
  BY <1>1, <1>4, <1>6, <1>7, <1>9 DEF GdbInv, GdbTypes
<1>11. EventsInv'
  BY <1>3, <1>4, <1>5, <1>6, <1>8 DEF GdbInv, EventsInv
<1>12. AnswersInv' /\ EndsInv' /\ MenuInv'
  BY <1>1, <1>4, <1>9 DEF GdbInv, AnswersInv, EndsInv, MenuInv, Served
<1>13. PortsInv'
  BY <1>1, <1>5, <1>6, <1>8, <1>9 DEF GdbInv, PortsInv, Served, Awaits, Gdb!RestartMask
<1>14. FlagsInv'
  BY <1>5, <1>6, <1>8 DEF GdbInv, FlagsInv, Gdb!Allocated, Gdb!AllocatedMask, Gdb!RestartMask
<1>15. SessionsInv'
  <2>1. SessionAt(c)'
    BY <1>1, <1>5, <1>6, <1>8, <1>9 DEF GdbInv, SessionsInv, SessionAt, Served, Awaits
  <2>2. ASSUME NEW d \in Ctxs \ {c} PROVE SessionAt(d)'
    BY <1>1, <1>6, <1>9 DEF GdbInv, SessionsInv, SessionAt, Served, Awaits
  <2> QED BY <2>1, <2>2 DEF SessionsInv
<1> QED
  BY <1>10, <1>11, <1>12, <1>13, <1>14, <1>15 DEF GdbInv

\* The end of a session begins: the monitor is told.
LEMMA BeginCloseStep ==
  ASSUME Gdb!GdbAssumption, Prompt, GdbInv, Gdb!BeginClose
  PROVE  GdbInv'
<1>0. PICK c : c = socket.c
  OBVIOUS
<1> DEFINE x == [ctx[c] EXCEPT !.attached = FALSE, !.eventToWaitFor = "attached"]
<1>1. /\ socket.at = "closing" /\ c \in Ctxs /\ ctx \in [Ctxs -> ContextTypes]
      /\ statusUpdateReceived' = FALSE /\ statusUpdated' = TRUE
      /\ UNCHANGED <<clientOf, shall_terminate, nextApplicationGdbCtx, menu, monitor, proc>>
  BY <1>0 DEF Gdb!BeginClose, Gdb!outside, GdbInv, GdbTypes
<1>2. ctx' = [ctx EXCEPT ![c] = x] /\ socket' = [socket EXCEPT !.at = "closeTest"]
  BY <1>0, <1>1 DEF Gdb!BeginClose, Gdb!SocketAt
<1>3. /\ x \in ContextTypes /\ x.flags = ctx[c].flags /\ x.state = ctx[c].state
      /\ x.localPort = ctx[c].localPort /\ x.debug = ctx[c].debug
      /\ ~x.attached /\ x.eventToWaitFor = "attached"
  BY <1>1 DEF ContextTypes, Watched
<1> HIDE DEF x
<1>4. /\ ctx' \in [Ctxs -> ContextTypes] /\ ctx'[c] = x
      /\ \A d \in Ctxs \ {c} : ctx'[d] = ctx[d]
  BY <1>1, <1>2, <1>3
<1>5. /\ socket' \in [at : SocketPlaces, c : Ctxs \cup {0}] /\ socket'.at = "closeTest"
      /\ socket'.c = c
  BY <1>0, <1>1, <1>2 DEF GdbInv, GdbTypes, SocketPlaces
<1>6. GdbTypes'
  BY <1>1, <1>4, <1>5 DEF GdbInv, GdbTypes
<1>7. EventsInv'
  BY <1>1, <1>3, <1>4 DEF GdbInv, EventsInv, GdbTypes
<1>8. AnswersInv' /\ EndsInv' /\ MenuInv'
  BY <1>1, <1>3, <1>4, <1>5 DEF GdbInv, AnswersInv, EndsInv, MenuInv, Served
<1>9. PortsInv'
  BY <1>0, <1>1, <1>3, <1>4, <1>5 DEF GdbInv, GdbTypes, PortsInv, Served, Awaits
<1>10. FlagsInv'
  BY <1>3, <1>4 DEF GdbInv, FlagsInv, Gdb!Allocated
<1>11. SessionsInv'
  BY <1>1, <1>3, <1>4, <1>5 DEF GdbInv, SessionsInv, SessionAt, Served, Awaits
<1> QED
  BY <1>6, <1>7, <1>8, <1>9, <1>10, <1>11 DEF GdbInv

\* With one reference left there is no monitor, and no handle of it.
LEMMA TestReferencesStep ==
  ASSUME Gdb!GdbAssumption, Prompt, GdbInv, Gdb!TestReferences
  PROVE  GdbInv'
<1>1. /\ socket.at = "closeTest"
      /\ UNCHANGED <<ctx, clientOf, statusUpdated, statusUpdateReceived, shall_terminate,
                     nextApplicationGdbCtx, menu, monitor, proc>>
  BY DEF Gdb!TestReferences, Gdb!status, Gdb!outside
<1>2. PICK at \in {"closeAck", "close"} :
        /\ socket' = [socket EXCEPT !.at = at]
        /\ at = "close" => ~(Gdb!referenceCount >= 2)
  BY DEF Gdb!TestReferences, Gdb!SocketAt
<1>3. /\ socket' \in [at : SocketPlaces, c : Ctxs \cup {0}] /\ socket'.at = at
      /\ socket'.c = socket.c
  BY <1>1, <1>2 DEF GdbInv, GdbTypes, SocketPlaces
<1>4. monitor.at \notin {"start", "ended"} => Gdb!referenceCount >= 2
  <2>1. ASSUME monitor.at \notin {"start", "ended"}
        PROVE  {monitor.at} \ {"start", "ended"} = {monitor.at}
    BY <2>1
  <2>2. {socket.at} \ {"ended"} = {socket.at}
    BY <1>1
  <2>3. Cardinality({monitor.at}) = 1 /\ Cardinality({socket.at}) = 1
    BY FS_Singleton
  <2> QED BY <2>1, <2>2, <2>3, SameCount DEF Gdb!referenceCount
<1>5. at = "close" => monitor.at = "ended"
  BY <1>1, <1>2, <1>4 DEF GdbInv, AnswersInv
<1>6. GdbTypes' /\ EventsInv' /\ EndsInv' /\ MenuInv' /\ FlagsInv'
  BY <1>1, <1>2, <1>3 DEF GdbInv, GdbTypes, EventsInv, EndsInv, MenuInv, Served, FlagsInv,
         Gdb!Allocated
<1>7. AnswersInv'
  <2>1. at = "close" => \A d \in Ctxs : monitor.handles[d] = "attached"
    BY <1>5 DEF GdbInv, EventsInv
  <2>2. socket.c \in Ctxs
    BY <1>1 DEF GdbInv, GdbTypes
  <2> QED BY <1>1, <1>3, <1>5, <2>1, <2>2 DEF GdbInv, AnswersInv
<1>8. PortsInv' /\ SessionsInv'
  BY <1>1, <1>3 DEF GdbInv, PortsInv, SessionsInv, SessionAt, Served, Awaits
<1> QED
  BY <1>6, <1>7, <1>8 DEF GdbInv

\* A context is as it was at first when its session is closed.
LEMMA ClosedContext ==
  ASSUME GdbInv, NEW c \in Ctxs
  PROVE  /\ Gdb!Closed(c) \in ContextTypes
         /\ Gdb!Closed(c).flags = {} /\ Gdb!Closed(c).state = "disconnected"
         /\ Gdb!Closed(c).localPort = 0
         /\ Gdb!Closed(c).debug = Gdb!NoProc /\ Gdb!Closed(c).attached = ctx[c].attached
         /\ Gdb!Closed(c).eventToWaitFor = "attached"
<1> DEFINE y == Gdb!DetachedIfDebugging(c)
<1>1. ctx[c] \in ContextTypes
  BY DEF GdbInv, GdbTypes
<1>2. /\ y \in ContextTypes /\ y.debug = Gdb!NoProc /\ y.attached = ctx[c].attached
      /\ y.eventToWaitFor = "attached"
  <2>1. CASE ctx[c].state \in {"attached", "detaching"} \/ ctx[c].debug # Gdb!NoProc
    <3>1. y = Gdb!Detached(ctx[c])
      BY <2>1 DEF Gdb!DetachedIfDebugging
    <3> QED BY <1>1, <3>1 DEF Gdb!Detached, ContextTypes, Watched
  <2>2. CASE ~(ctx[c].state \in {"attached", "detaching"} \/ ctx[c].debug # Gdb!NoProc)
    <3>1. y = ctx[c]
      BY <2>2 DEF Gdb!DetachedIfDebugging
    <3> QED BY <1>1, <2>2, <3>1 DEF GdbInv, EventsInv
  <2> QED BY <2>1, <2>2
<1>3. Gdb!Closed(c) = [y EXCEPT !.localPort = 0, !.flags = {}, !.state = "disconnected",
                                !.lost = FALSE]
  BY DEF Gdb!Closed
<1> HIDE DEF y
<1> QED BY <1>2, <1>3 DEF ContextTypes, States

\* The context is given back; the handle of its process is closed.
LEMMA CloseClientStep ==
  ASSUME Gdb!GdbAssumption, Prompt, GdbInv, Gdb!CloseClient
  PROVE  GdbInv'
<1>0. PICK c : c = socket.c
  OBVIOUS
<1>1. /\ socket.at = "close" /\ ~Gdb!Locked(c) /\ c \in Ctxs
      /\ ctx' = [ctx EXCEPT ![c] = Gdb!Closed(c)] /\ proc' = Gdb!Released(c)
      /\ monitor' = Gdb!HandleClosed(c)
      /\ clientOf' = [p \in Gdb!Ports |-> IF clientOf[p] = c THEN 0 ELSE clientOf[p]]
      /\ socket' = [at |-> "poll", c |-> 0]
      /\ UNCHANGED <<statusUpdated, statusUpdateReceived, shall_terminate,
                     nextApplicationGdbCtx, menu>>
  BY <1>0 DEF Gdb!CloseClient, Gdb!status, Gdb!outside, GdbInv, GdbTypes
<1>2. /\ ctx \in [Ctxs -> ContextTypes] /\ ctx[c] \in ContextTypes
      /\ proc \in [Gdb!Debuggable -> ProcTypes] /\ clientOf \in [Gdb!Ports -> Ctxs \cup {0}]
      /\ menu = 0
  BY <1>1 DEF GdbInv, GdbTypes, Gdb!Locked
<1>3. /\ monitor.handles[c] = "attached" /\ monitor.at \in {"waiting", "ended"}
      /\ ~ctx[c].attached
  BY <1>0, <1>1, <1>2 DEF GdbInv, AnswersInv
<1>4. monitor' = monitor
  BY <1>1, <1>3 DEF Gdb!HandleClosed
<1>5. PICK x \in ContextTypes :
        /\ x = Gdb!Closed(c) /\ x.flags = {} /\ x.state = "disconnected" /\ x.localPort = 0
        /\ x.debug = Gdb!NoProc /\ ~x.attached /\ x.eventToWaitFor = "attached"
  BY <1>1, <1>3, ClosedContext
<1>6. /\ ctx' \in [Ctxs -> ContextTypes] /\ ctx'[c] = x
      /\ \A d \in Ctxs \ {c} : ctx'[d] = ctx[d]
  BY <1>1, <1>2, <1>5
<1>7. proc' \in [Gdb!Debuggable -> ProcTypes]
  BY <1>1, <1>2 DEF Gdb!Released, ProcTypes
<1>8. /\ clientOf' \in [Gdb!Ports -> Ctxs \cup {0}]
      /\ \A p \in Gdb!Ports :
             clientOf'[p] # c /\ (clientOf[p] # c => clientOf'[p] = clientOf[p])
      /\ \A p \in Gdb!Ports : clientOf[p] = c => clientOf'[p] = 0
  BY <1>1, <1>2, Sentinels
<1>9. ~Served(c)' /\ \A d \in Ctxs \ {c} : Served(d)' <=> Served(d)
  BY <1>8, Sentinels DEF Served
<1>10. Served(c) /\ ~Awaits(c)
  BY <1>0, <1>1 DEF GdbInv, PortsInv, Awaits
<1>11. GdbTypes'
  BY <1>1, <1>4, <1>6, <1>7, <1>8 DEF GdbInv, GdbTypes, SocketPlaces
<1>12. EventsInv'
  BY <1>3, <1>4, <1>5, <1>6 DEF GdbInv, EventsInv
<1>13. AnswersInv' /\ EndsInv' /\ MenuInv'
  BY <1>1, <1>2, <1>4 DEF GdbInv, AnswersInv, EndsInv, MenuInv
<1>14. PortsInv'
  <2>1. socket'.at = "poll"
    BY <1>1
  <2>2. ASSUME NEW p \in Gdb!Ports, NEW d \in Ctxs, clientOf'[p] = d
        PROVE  d # c /\ clientOf[p] = d /\ ctx'[d] = ctx[d] /\ ~Awaits(d)
    BY <1>1, <1>6, <1>8, <2>2, Sentinels DEF Awaits
  <2> QED BY <2>1, <2>2 DEF GdbInv, PortsInv
<1>15. FlagsInv'
  BY <1>5, <1>6 DEF GdbInv, FlagsInv, Gdb!Allocated
<1>16. SessionsInv'
  <2>1. nextApplicationGdbCtx # c
    BY <1>1, <1>10 DEF GdbInv, SessionsInv, SessionAt
  <2>2. SessionAt(c)'
    BY <1>1, <1>5, <1>6, <2>1 DEF SessionAt, Awaits, Gdb!AllocatedMask
  <2>3. ASSUME NEW d \in Ctxs \ {c} PROVE SessionAt(d)'
    BY <1>1, <1>6, <1>9 DEF GdbInv, SessionsInv, SessionAt, Awaits
  <2> QED BY <2>2, <2>3 DEF SessionsInv
<1> QED
  BY <1>11, <1>12, <1>13, <1>14, <1>15, <1>16 DEF GdbInv

\* The menus and the tasks change contexts that are not locked.
LEMMA SelectStep ==
  ASSUME Gdb!GdbAssumption, Prompt, GdbInv, NEW p \in Procs, Gdb!Select(p)
  PROVE  GdbInv'
<1>0. /\ ctx \in [Ctxs -> ContextTypes] /\ p \in Gdb!Debuggable /\ menu = 0 /\ Gdb!CanLockAll
      /\ UNCHANGED <<clientOf, statusUpdated, statusUpdateReceived, shall_terminate,
                     nextApplicationGdbCtx, menu, monitor, socket, proc>>
  BY Sentinels DEF Gdb!Select, Gdb!status, GdbInv, GdbTypes
<1>1. \E c \in Ctxs, x \in ContextTypes :
        /\ ctx' = [ctx EXCEPT ![c] = x]
        /\ x.state = ctx[c].state /\ x.debug = ctx[c].debug /\ x.attached = ctx[c].attached
        /\ x.eventToWaitFor = ctx[c].eventToWaitFor
        /\ \/ /\ c \in Gdb!Free /\ x.flags = ctx[c].flags \cup {"selected"}
           \/ /\ Gdb!AllocatedMask \cap ctx[c].flags = {"selected"}
              /\ ctx[c].localPort \in BasePorts
              /\ x.flags = ctx[c].flags \ {"selected"}
  <2>1. CASE Gdb!FoundByPid(p) = 0
    <3>1. Gdb!Free # {} /\ Gdb!FreePorts(BasePorts) # {}
      BY <2>1 DEF Gdb!Select
    <3>2. PICK c \in Ctxs : c = Gdb!Least(Gdb!Free) /\ c \in Gdb!Free
      BY <3>1, LeastIn DEF Gdb!Free
    <3>3. PICK q : q = Gdb!Least(Gdb!FreePorts(BasePorts)) /\ q \in Gdb!Ports
      <4>1. Gdb!FreePorts(BasePorts) \subseteq BasePorts /\ BasePorts \subseteq Nat
        BY DEF Gdb!FreePorts, Gdb!GdbAssumption
      <4>2. \E y \in Gdb!FreePorts(BasePorts) : \A z \in Gdb!FreePorts(BasePorts) : y <= z
        BY <3>1, <4>1, LeastNatural
      <4>3. Gdb!Least(Gdb!FreePorts(BasePorts)) \in Gdb!FreePorts(BasePorts)
        BY <4>2 DEF Gdb!Least
      <4> QED BY <4>1, <4>3 DEF Gdb!Ports
    <3> DEFINE x == [ctx[c] EXCEPT !.flags = @ \cup {"selected"}, !.localPort = q, !.pid = p]
    <3>4. ctx' = [ctx EXCEPT ![c] = x]
      BY <1>0, <2>1, <3>2, <3>3 DEF Gdb!Select
    <3>5. /\ x \in ContextTypes /\ x.flags = ctx[c].flags \cup {"selected"}
          /\ x.state = ctx[c].state /\ x.debug = ctx[c].debug /\ x.attached = ctx[c].attached
          /\ x.eventToWaitFor = ctx[c].eventToWaitFor
      <4>1. ctx[c] \in ContextTypes
        BY <1>0
      <4> QED BY <1>0, <3>3, <4>1 DEF ContextTypes, Gdb!AllFlags, Gdb!AllocatedMask
    <3> HIDE DEF x
    <3> QED BY <3>2, <3>4, <3>5
  <2>2. CASE Gdb!FoundByPid(p) # 0
    <3>1. PICK c : c = Gdb!FoundByPid(p)
      OBVIOUS
    <3>2. c \in Ctxs
      <4> DEFINE with == {d \in Ctxs : ctx[d].pid = p /\
                            ("selected" \in ctx[d].flags \/ ctx[d].state = "attached")}
      <4>1. c = Gdb!Greatest(with) /\ with # {}
        BY <2>2, <3>1 DEF Gdb!FoundByPid
      <4> QED BY <4>1, GreatestIn
    <3> DEFINE x == [ctx[c] EXCEPT !.flags = @ \ {"selected"}, !.localPort = 0]
    <3>3. /\ "selected" \in ctx[c].flags /\ "used" \notin ctx[c].flags
          /\ ctx[c].localPort \in BasePorts
          /\ ctx' = [ctx EXCEPT ![c] = x]
      BY <1>0, <2>2, <3>1, <3>2 DEF Gdb!Select
    <3>4. /\ x \in ContextTypes /\ x.flags = ctx[c].flags \ {"selected"}
          /\ x.state = ctx[c].state /\ x.debug = ctx[c].debug /\ x.attached = ctx[c].attached
          /\ x.eventToWaitFor = ctx[c].eventToWaitFor
      <4>1. ctx[c] \in ContextTypes
        BY <1>0, <3>2
      <4> QED BY <4>1 DEF ContextTypes
    <3>5. Gdb!AllocatedMask \cap ctx[c].flags = {"selected"}
      BY <3>3 DEF Gdb!AllocatedMask
    <3> HIDE DEF x
    <3> QED BY <3>2, <3>3, <3>4, <3>5
  <2> QED BY <2>1, <2>2
<1>2. PICK c \in Ctxs, x \in ContextTypes :
        /\ ctx' = [ctx EXCEPT ![c] = x]
        /\ x.state = ctx[c].state /\ x.debug = ctx[c].debug /\ x.attached = ctx[c].attached
        /\ x.eventToWaitFor = ctx[c].eventToWaitFor
        /\ \/ /\ c \in Gdb!Free /\ x.flags = ctx[c].flags \cup {"selected"}
           \/ /\ Gdb!AllocatedMask \cap ctx[c].flags = {"selected"}
              /\ ctx[c].localPort \in BasePorts
              /\ x.flags = ctx[c].flags \ {"selected"}
  BY <1>1
<1>3. /\ ctx' \in [Ctxs -> ContextTypes] /\ ctx'[c] = x
      /\ \A d \in Ctxs \ {c} : ctx'[d] = ctx[d]
  BY <1>0, <1>2
<1>4. /\ "used" \notin ctx[c].flags /\ "extended" \notin ctx[c].flags
      /\ c \in Gdb!Free => "selected" \notin ctx[c].flags /\ "atStart" \notin ctx[c].flags
  BY <1>2 DEF GdbInv, FlagsInv, Gdb!Free, Gdb!Allocated, Gdb!AllocatedMask
<1>5. Served(c) => Awaits(c)
  <2>1. SUFFICES ASSUME NEW q \in Gdb!Ports, clientOf[q] = c, ~Awaits(c) PROVE FALSE
    BY DEF Served
  <2>2. /\ ctx[c].localPort = q
        /\ q = NextPort /\ "selected" \in ctx[c].flags
    BY <1>4, <2>1 DEF GdbInv, PortsInv
  <2> QED BY <1>2, <1>4, <2>2, Sentinels
\* Neither case is the context of the next application.
<1>6. ctx[c].debug = Gdb!NoProc /\ nextApplicationGdbCtx # c
  <2>1. CASE c \in Gdb!Free
    BY <1>4, <1>5, <2>1 DEF GdbInv, SessionsInv, SessionAt
  <2>2. CASE ctx[c].localPort \in BasePorts
    BY <1>5, <2>2, Sentinels DEF GdbInv, SessionsInv, SessionAt
  <2> QED BY <1>2, <2>1, <2>2
<1>7. GdbTypes'
  BY <1>0, <1>3 DEF GdbInv, GdbTypes
<1>8. EventsInv' /\ AnswersInv' /\ EndsInv' /\ MenuInv'
  <2>1. EventsInv' /\ EndsInv' /\ MenuInv'
    BY <1>0, <1>2, <1>3 DEF GdbInv, GdbTypes, EventsInv, EndsInv, MenuInv, Served
  <2>2. AnswersInv'
    BY <1>0, <1>2, <1>3 DEF GdbInv, GdbTypes, AnswersInv
  <2> QED BY <2>1, <2>2
<1>9. PortsInv'
  <2>1. socket.at = "detachAck" => socket.c # c
    BY <1>4 DEF GdbInv, PortsInv
  <2>2. \A d \in Ctxs : Served(d)' <=> Served(d)
    BY <1>0 DEF Served
  <2>3. ASSUME NEW q \in Gdb!Ports, NEW d \in Ctxs, clientOf[q] = d
        PROVE  /\ Awaits(d) \/ ctx'[d].localPort = q
               /\ Awaits(d) \/ "used" \in ctx'[d].flags
                            \/ (q = NextPort /\ "selected" \in ctx'[d].flags)
    <3>1. CASE d = c
      BY <1>5, <2>3, <3>1 DEF Served
    <3>2. CASE d # c
      BY <1>3, <2>3, <3>2 DEF GdbInv, PortsInv
    <3> QED BY <3>1, <3>2
  <2>4. socket.at = "detachAck" => "used" \in ctx'[socket.c].flags
    BY <1>3, <2>1 DEF GdbInv, PortsInv, GdbTypes
  <2> QED BY <1>0, <2>2, <2>3, <2>4 DEF GdbInv, PortsInv, Awaits, Served
<1>10. FlagsInv'
  BY <1>2, <1>3, <1>4, <1>6 DEF GdbInv, FlagsInv, Gdb!Allocated, Gdb!AllocatedMask
<1>11. SessionsInv'
  <2>1. SessionAt(c)'
    <3>1. (ctx[c].state = "disconnected" \/ Served(c)) /\ ~(Gdb!AllocatedMask \subseteq x.flags)
      BY <1>2, <1>4 DEF GdbInv, SessionsInv, SessionAt, Gdb!AllocatedMask
    <3> QED BY <1>0, <1>2, <1>3, <1>6, <3>1 DEF SessionAt, Served
  <2>2. ASSUME NEW d \in Ctxs \ {c} PROVE SessionAt(d)'
    BY <1>0, <1>3 DEF GdbInv, SessionsInv, SessionAt, Served, Awaits
  <2> QED BY <2>1, <2>2 DEF SessionsInv
<1> QED
  BY <1>7, <1>8, <1>9, <1>10, <1>11 DEF GdbInv

\* A step of the monitor alone concerns what it awaits and whether it ended.
LEMMA MonitorAlone ==
  ASSUME GdbInv, GdbTypes', EventsInv', AnswersInv', EndsInv',
         UNCHANGED <<ctx, clientOf, shall_terminate, nextApplicationGdbCtx, menu, socket, proc>>
  PROVE  GdbInv'
<1>1. MenuInv' /\ PortsInv' /\ FlagsInv'
  BY DEF GdbInv, MenuInv, PortsInv, FlagsInv, Served, Awaits, Gdb!Allocated
<1>2. SessionsInv'
  BY DEF GdbInv, SessionsInv, SessionAt, Served, Awaits
<1> QED
  BY <1>1, <1>2 DEF GdbInv

\* The monitor holds no handle when it is about to read them.
LEMMA MonitorReadsAgain ==
  ASSUME NEW at \in MonitorPlaces
  PROVE  /\ Gdb!MonitorAt(at, 0) \in
              [at : MonitorPlaces, handles : [Ctxs -> Watched], c : Ctxs \cup {0}]
         /\ Gdb!MonitorAt(at, 0).at = at
         /\ \A c \in Ctxs : Gdb!MonitorAt(at, 0).handles[c] = "attached"
BY DEF Gdb!MonitorAt, Watched

\* The monitor begins.
LEMMA MonitorStartsStep ==
  ASSUME Prompt, GdbInv, Gdb!MonitorStarts
  PROVE  GdbInv'
<1>1. /\ monitor.at = "start" /\ monitor' = Gdb!MonitorAt("read", 0) /\ Gdb!MonitorRuns
      /\ UNCHANGED <<ctx, clientOf, statusUpdated, statusUpdateReceived, shall_terminate,
                     nextApplicationGdbCtx, menu, socket, proc>>
  BY DEF Gdb!MonitorStarts, Gdb!status, Gdb!outside
<1>2. /\ monitor' \in [at : MonitorPlaces, handles : [Ctxs -> Watched], c : Ctxs \cup {0}]
      /\ monitor'.at = "read" /\ \A c \in Ctxs : monitor'.handles[c] = "attached"
  BY <1>1, MonitorReadsAgain DEF MonitorPlaces
<1>3. GdbTypes' /\ EventsInv' /\ EndsInv'
  BY <1>1, <1>2 DEF GdbInv, GdbTypes, EventsInv, EndsInv
<1>4. AnswersInv'
  BY <1>1, <1>2 DEF GdbInv, GdbTypes, AnswersInv, Gdb!MonitorRuns
<1> QED
  BY <1>1, <1>3, <1>4, MonitorAlone

\* A handle of the debug event is read when there is a process.
LEMMA ReadHandlesStep ==
  ASSUME Prompt, GdbInv, Gdb!ReadHandles
  PROVE  GdbInv'
<1>1. /\ monitor.at = "read" /\ Gdb!MonitorRuns /\ Gdb!CanLockAll
      /\ monitor' = [monitor EXCEPT !.at = "wait", !.handles = [c \in Ctxs |->
           IF ctx[c].eventToWaitFor = "debug" /\ ctx[c].debug = Gdb!NoProc THEN "closed"
           ELSE ctx[c].eventToWaitFor]]
      /\ UNCHANGED <<ctx, clientOf, statusUpdated, statusUpdateReceived, shall_terminate,
                     nextApplicationGdbCtx, menu, socket, proc>>
  BY DEF Gdb!ReadHandles, Gdb!status, Gdb!outside
<1>2. \A c \in Ctxs : /\ ctx[c].eventToWaitFor \in Watched
                      /\ ~(ctx[c].eventToWaitFor = "debug" /\ ctx[c].debug = Gdb!NoProc)
  <2>1. \A c \in Ctxs : ctx[c] \in ContextTypes
    BY DEF GdbInv, GdbTypes
  <2> QED BY <2>1 DEF GdbInv, EventsInv, ContextTypes
<1>3. /\ monitor' \in [at : MonitorPlaces, handles : [Ctxs -> Watched], c : Ctxs \cup {0}]
      /\ monitor'.at = "wait" /\ \A c \in Ctxs : monitor'.handles[c] = ctx[c].eventToWaitFor
  BY <1>1, <1>2 DEF GdbInv, GdbTypes, MonitorPlaces
<1>4. GdbTypes' /\ EventsInv' /\ EndsInv'
  BY <1>1, <1>3 DEF GdbInv, GdbTypes, EventsInv, EndsInv
<1>5. AnswersInv'
  <2>1. menu = 0 /\ socket.at # "detachAck"
    BY <1>1 DEF Gdb!CanLockAll, Gdb!Locked, GdbInv, GdbTypes, Gdb!GdbAssumption
  <2> QED BY <1>1, <1>3, <2>1 DEF GdbInv, GdbTypes, AnswersInv, Gdb!MonitorRuns
<1> QED
  BY <1>1, <1>4, <1>5, MonitorAlone

\* So the wait begins.
LEMMA BeginWaitStep ==
  ASSUME Prompt, GdbInv, Gdb!BeginWait
  PROVE  GdbInv'
<1>1. /\ monitor.at = "wait" /\ Gdb!MonitorRuns
      /\ UNCHANGED <<ctx, clientOf, statusUpdated, statusUpdateReceived, shall_terminate,
                     nextApplicationGdbCtx, menu, socket, proc>>
  BY DEF Gdb!BeginWait, Gdb!status, Gdb!outside
<1>2. \A c \in Ctxs : monitor.handles[c] # "closed"
  BY DEF GdbInv, GdbTypes, Watched
<1>3. monitor' = [monitor EXCEPT !.at = "waiting"]
  BY <1>2 DEF Gdb!BeginWait
<1>4. /\ monitor' \in [at : MonitorPlaces, handles : [Ctxs -> Watched], c : Ctxs \cup {0}]
      /\ monitor'.at = "waiting" /\ monitor'.handles = monitor.handles
  BY <1>1, <1>3 DEF GdbInv, GdbTypes, MonitorPlaces
<1>5. GdbTypes' /\ EventsInv' /\ EndsInv'
  BY <1>1, <1>4 DEF GdbInv, GdbTypes, EventsInv, EndsInv
<1>6. AnswersInv'
  BY <1>1, <1>4 DEF GdbInv, GdbTypes, AnswersInv, Gdb!MonitorRuns
<1> QED
  BY <1>1, <1>5, <1>6, MonitorAlone

\* The monitor ends when the server is to end.
LEMMA MonitorTerminatedStep ==
  ASSUME Prompt, GdbInv, Gdb!MonitorTerminated
  PROVE  GdbInv'
<1>1. /\ monitor.at = "waiting" /\ shall_terminate /\ Gdb!MonitorRuns
      /\ monitor' = Gdb!MonitorAt("ended", 0)
      /\ UNCHANGED <<ctx, clientOf, statusUpdated, statusUpdateReceived, shall_terminate,
                     nextApplicationGdbCtx, menu, socket, proc>>
  BY DEF Gdb!MonitorTerminated, Gdb!status, Gdb!outside
<1>2. /\ monitor' \in [at : MonitorPlaces, handles : [Ctxs -> Watched], c : Ctxs \cup {0}]
      /\ monitor'.at = "ended" /\ \A c \in Ctxs : monitor'.handles[c] = "attached"
  BY <1>1, MonitorReadsAgain DEF MonitorPlaces
<1>3. GdbTypes' /\ EventsInv' /\ EndsInv'
  BY <1>1, <1>2 DEF GdbInv, GdbTypes, EventsInv, EndsInv
<1>4. AnswersInv'
  <2>1. socket.at \notin {"poll", "ended"} => socket.c \in Ctxs
    BY DEF GdbInv, GdbTypes
  <2> QED BY <1>1, <1>2, <2>1 DEF GdbInv, AnswersInv, Gdb!MonitorRuns
<1> QED
  BY <1>1, <1>3, <1>4, MonitorAlone

\* An update is acknowledged, and every copy of a handle is thrown away.
LEMMA StatusWasUpdatedStep ==
  ASSUME Prompt, GdbInv, Gdb!StatusWasUpdated
  PROVE  GdbInv'
<1>1. /\ monitor.at = "waiting" /\ Gdb!MonitorRuns /\ ~shall_terminate
      /\ statusUpdated' = FALSE /\ statusUpdateReceived' = TRUE
      /\ UNCHANGED <<ctx, clientOf, shall_terminate, nextApplicationGdbCtx, menu, socket, proc>>
  BY DEF Gdb!StatusWasUpdated, Gdb!outside, Gdb!Acknowledges
<1>2. monitor' = Gdb!MonitorAt("read", 0)
  BY <1>1 DEF Gdb!StatusWasUpdated, GdbInv, EndsInv
<1>3. /\ monitor' \in [at : MonitorPlaces, handles : [Ctxs -> Watched], c : Ctxs \cup {0}]
      /\ monitor'.at = "read" /\ \A c \in Ctxs : monitor'.handles[c] = "attached"
  BY <1>2, MonitorReadsAgain DEF MonitorPlaces
<1>4. GdbTypes' /\ EventsInv' /\ EndsInv'
  BY <1>1, <1>3 DEF GdbInv, GdbTypes, EventsInv, EndsInv
<1>5. AnswersInv'
  <2>1. socket.at \notin {"poll", "ended"} => socket.c \in Ctxs
    BY DEF GdbInv, GdbTypes
  <2> QED BY <1>1, <1>3, <2>1 DEF GdbInv, AnswersInv, Gdb!MonitorRuns
<1> QED
  BY <1>1, <1>4, <1>5, MonitorAlone

\* A context that was left by its process is connected again.
LEMMA OtherPacketStep ==
  ASSUME GdbInv, NEW c \in Ctxs, Gdb!OtherPacket(c)
  PROVE  GdbInv'
<1> DEFINE x == [ctx[c] EXCEPT !.state = "connected"]
<1>1. /\ socket.at = "poll" /\ Served(c) /\ ctx \in [Ctxs -> ContextTypes]
      /\ ctx' = [ctx EXCEPT ![c] = x]
      /\ UNCHANGED <<clientOf, statusUpdated, statusUpdateReceived, shall_terminate,
                     nextApplicationGdbCtx, menu, monitor, socket, proc>>
  BY DEF Gdb!OtherPacket, Gdb!Packet, Gdb!status, Gdb!outside, Served, GdbInv, GdbTypes
<1>2. /\ x \in ContextTypes /\ x.flags = ctx[c].flags /\ x.debug = ctx[c].debug
      /\ x.localPort = ctx[c].localPort /\ x.attached = ctx[c].attached
      /\ x.eventToWaitFor = ctx[c].eventToWaitFor
  <2>1. ctx[c] \in ContextTypes
    BY <1>1
  <2> QED BY <2>1 DEF ContextTypes, States
<1> HIDE DEF x
<1>3. /\ ctx' \in [Ctxs -> ContextTypes] /\ ctx'[c] = x
      /\ \A d \in Ctxs \ {c} : ctx'[d] = ctx[d]
  BY <1>1, <1>2
<1>4. GdbTypes'
  BY <1>1, <1>3 DEF GdbInv, GdbTypes
<1>5. EventsInv' /\ EndsInv' /\ MenuInv'
  BY <1>1, <1>2, <1>3 DEF GdbInv, GdbTypes, EventsInv, EndsInv, MenuInv, Served
<1>6. AnswersInv'
  BY <1>1 DEF GdbInv, AnswersInv
<1>7. PortsInv' /\ FlagsInv'
  BY <1>1, <1>2, <1>3 DEF GdbInv, PortsInv, FlagsInv, Gdb!Allocated, Served, Awaits
<1>8. SessionsInv'
  BY <1>1, <1>2, <1>3 DEF GdbInv, SessionsInv, SessionAt, Served, Awaits
<1> QED
  BY <1>4, <1>5, <1>6, <1>7, <1>8 DEF GdbInv

\* The client that hung up is served.
LEMMA HangupStep ==
  ASSUME Gdb!GdbAssumption, Prompt, GdbInv, NEW port \in Gdb!Ports, Gdb!Hangup(port)
  PROVE  GdbInv'
<1>1. /\ socket.at = "poll" /\ Gdb!MonitorWaits /\ ~shall_terminate
      /\ clientOf[port] \in Ctxs /\ Served(clientOf[port])
      /\ socket' = [at |-> "closing", c |-> clientOf[port]]
      /\ UNCHANGED <<ctx, clientOf, statusUpdated, statusUpdateReceived, shall_terminate,
                     nextApplicationGdbCtx, menu, monitor, proc>>
  BY DEF Gdb!Hangup, Gdb!status, Gdb!outside, Served, GdbInv, GdbTypes
<1>2. monitor.at = "waiting" \/ (menu # 0 /\ monitor.at \in {"read", "lock"})
  BY <1>1 DEF Gdb!MonitorWaits, Gdb!CanLockAll, Gdb!Locked, GdbInv, EndsInv
<1>3. GdbTypes' /\ EventsInv' /\ EndsInv' /\ MenuInv' /\ FlagsInv'
  BY <1>1 DEF GdbInv, GdbTypes, EventsInv, EndsInv, MenuInv, Served, FlagsInv, Gdb!Allocated,
              SocketPlaces
<1>4. AnswersInv'
  BY <1>1, <1>2 DEF GdbInv, AnswersInv
<1>5. PortsInv' /\ SessionsInv'
  BY <1>1 DEF GdbInv, PortsInv, SessionsInv, SessionAt, Served, Awaits
<1> QED
  BY <1>3, <1>4, <1>5 DEF GdbInv

\* The monitor has answered: it has no handle of the context that is closed.
LEMMA CloseAcknowledgedStep ==
  ASSUME Prompt, GdbInv, Gdb!CloseAcknowledged
  PROVE  GdbInv'
<1>1. /\ socket.at = "closeAck" /\ statusUpdateReceived /\ Gdb!MonitorWaits
      /\ socket' = [socket EXCEPT !.at = "close"]
      /\ UNCHANGED <<ctx, clientOf, statusUpdated, statusUpdateReceived, shall_terminate,
                     nextApplicationGdbCtx, menu, monitor, proc>>
  BY DEF Gdb!CloseAcknowledged, Gdb!SocketAt, Gdb!status, Gdb!outside
<1>2. monitor.at \in {"waiting", "ended"} \/ (menu # 0 /\ monitor.at \in {"read", "lock"})
  BY <1>1 DEF Gdb!MonitorWaits, Gdb!CanLockAll, Gdb!Locked
<1>3. socket' \in [at : SocketPlaces, c : Ctxs \cup {0}] /\ socket'.at = "close"
      /\ socket'.c = socket.c
  BY <1>1 DEF GdbInv, GdbTypes, SocketPlaces
<1>4. GdbTypes' /\ EventsInv' /\ EndsInv' /\ MenuInv' /\ FlagsInv'
  BY <1>1, <1>3 DEF GdbInv, GdbTypes, EventsInv, EndsInv, MenuInv, Served, FlagsInv,
         Gdb!Allocated
<1>5. AnswersInv'
  BY <1>1, <1>2, <1>3 DEF GdbInv, AnswersInv
<1>6. PortsInv' /\ SessionsInv'
  BY <1>1, <1>3 DEF GdbInv, PortsInv, SessionsInv, SessionAt, Served, Awaits
<1> QED
  BY <1>4, <1>5, <1>6 DEF GdbInv

\* The socket thread ends when it is told to, and serves nobody then.
LEMMA SocketTerminatedStep ==
  ASSUME GdbInv, Gdb!SocketTerminated
  PROVE  GdbInv'
<1>1. /\ socket.at = "poll" /\ shall_terminate
      /\ socket' = [socket EXCEPT !.at = "ended"]
      /\ UNCHANGED <<ctx, clientOf, statusUpdated, statusUpdateReceived, shall_terminate,
                     nextApplicationGdbCtx, menu, monitor, proc>>
  BY DEF Gdb!SocketTerminated, Gdb!SocketAt, Gdb!status, Gdb!outside
<1>2. socket' \in [at : SocketPlaces, c : Ctxs \cup {0}] /\ socket'.at = "ended"
  BY <1>1 DEF GdbInv, GdbTypes, SocketPlaces
<1>3. GdbTypes' /\ EventsInv' /\ EndsInv' /\ MenuInv' /\ FlagsInv' /\ AnswersInv'
  BY <1>1, <1>2 DEF GdbInv, GdbTypes, EventsInv, EndsInv, MenuInv, Served, FlagsInv, Gdb!Allocated,
                    AnswersInv
<1>4. PortsInv' /\ SessionsInv'
  BY <1>1, <1>2 DEF GdbInv, PortsInv, SessionsInv, SessionAt, Served, Awaits
<1> QED
  BY <1>3, <1>4 DEF GdbInv

\* The menu waits for a context that a client uses.
LEMMA UnselectStep ==
  ASSUME Gdb!GdbAssumption, GdbInv, NEW p \in Procs, Gdb!Unselect(p)
  PROVE  GdbInv'
<1>1. /\ Gdb!CanLockAll /\ menu = 0 /\ ~shall_terminate
      /\ UNCHANGED <<ctx, clientOf, statusUpdated, statusUpdateReceived, shall_terminate,
                     nextApplicationGdbCtx, monitor, socket, proc>>
  BY DEF Gdb!Unselect, Gdb!status
<1>2. PICK c : c = Gdb!FoundByPid(p)
  OBVIOUS
<1>3. c # 0 /\ menu' = c /\ Gdb!AllocatedMask \subseteq ctx[c].flags
  BY <1>2 DEF Gdb!Unselect
<1>4. c \in Ctxs
  <2> DEFINE with == {d \in Ctxs : ctx[d].pid = p /\
                        ("selected" \in ctx[d].flags \/ ctx[d].state = "attached")}
  <2>1. c = Gdb!Greatest(with) /\ with # {}
    BY <1>2, <1>3 DEF Gdb!FoundByPid
  <2> QED BY <2>1, GreatestIn
<1>5. Served(c)
  BY <1>3, <1>4 DEF GdbInv, SessionsInv, SessionAt
<1>6. GdbTypes' /\ EventsInv' /\ EndsInv' /\ FlagsInv' /\ AnswersInv'
  BY <1>1, <1>3, <1>4 DEF GdbInv, GdbTypes, EventsInv, EndsInv, FlagsInv, Gdb!Allocated,
         AnswersInv
<1>7. MenuInv'
  BY <1>1, <1>3, <1>5 DEF MenuInv, Served
<1>8. PortsInv' /\ SessionsInv'
  BY <1>1 DEF GdbInv, PortsInv, SessionsInv, SessionAt, Served, Awaits
<1> QED
  BY <1>6, <1>7, <1>8 DEF GdbInv

\* The menu that waits has the locks that its client's end needs.
LEMMA UnselectedNever ==
  ASSUME GdbInv
  PROVE  ~Gdb!Unselected
<1>1. SUFFICES ASSUME Gdb!Unselected PROVE FALSE
  OBVIOUS
<1>2. menu # 0 /\ \A port \in Gdb!Ports : clientOf[port] # menu
  BY <1>1 DEF Gdb!Unselected
<1> QED
  BY <1>2 DEF GdbInv, MenuInv, Served

\* The server is to end; the next application is forgotten.
LEMMA DisableStep ==
  ASSUME Gdb!GdbAssumption, GdbInv, Gdb!Disable
  PROVE  GdbInv'
<1>1. /\ menu = 0 /\ ~shall_terminate /\ shall_terminate' = TRUE /\ nextApplicationGdbCtx' = 0
      /\ UNCHANGED <<ctx, clientOf, statusUpdated, statusUpdateReceived, menu, monitor, socket,
                     proc>>
  BY DEF Gdb!Disable, Gdb!status
<1>2. GdbTypes' /\ EventsInv' /\ EndsInv' /\ MenuInv' /\ FlagsInv' /\ AnswersInv' /\ PortsInv'
  BY <1>1 DEF GdbInv, GdbTypes, EventsInv, EndsInv, MenuInv, FlagsInv, Gdb!Allocated, AnswersInv,
              PortsInv, Served, Awaits
<1>3. SessionsInv'
  <2>1. \A c \in Ctxs : nextApplicationGdbCtx' # c
    BY <1>1, Sentinels
  <2> QED BY <1>1, <2>1 DEF GdbInv, SessionsInv, SessionAt, Served, Awaits
<1> QED
  BY <1>2, <1>3 DEF GdbInv

\* An event of a process that is debugged.
LEMMA DebugEventStep ==
  ASSUME GdbInv, NEW p \in Gdb!Debuggable, NEW event \in {"stop", "output", "exit"},
         Gdb!DebugEvent(p, event)
  PROVE  GdbInv'
<1>1. UNCHANGED <<ctx, clientOf, statusUpdated, statusUpdateReceived, shall_terminate,
                  nextApplicationGdbCtx, menu, monitor, socket>>
  BY DEF Gdb!DebugEvent, Gdb!status, Gdb!outside
<1>2. proc' \in [Gdb!Debuggable -> ProcTypes]
  BY DEF Gdb!DebugEvent, GdbInv, GdbTypes, ProcTypes
<1>3. GdbTypes'
  BY <1>1, <1>2 DEF GdbInv, GdbTypes
<1>4. EventsInv' /\ EndsInv' /\ MenuInv' /\ FlagsInv' /\ AnswersInv' /\ PortsInv'
  BY <1>1 DEF GdbInv, EventsInv, EndsInv, MenuInv, FlagsInv, Gdb!Allocated, AnswersInv, PortsInv,
              Served, Awaits
<1>5. SessionsInv'
  BY <1>1 DEF GdbInv, SessionsInv, SessionAt, Served, Awaits
<1> QED
  BY <1>3, <1>4, <1>5 DEF GdbInv

\* The next application is given to the context that waits for it, or not.
LEMMA NextApplicationLaunchedStep ==
  ASSUME Gdb!GdbAssumption, GdbInv, Gdb!NextApplicationLaunched
  PROVE  GdbInv'
<1>0. PICK c : c = nextApplicationGdbCtx
  OBVIOUS
<1>1. /\ c # 0 /\ Gdb!CanLockAll /\ ~shall_terminate /\ nextApplicationGdbCtx' = 0
      /\ UNCHANGED <<clientOf, statusUpdated, statusUpdateReceived, shall_terminate, menu, monitor,
                     socket>>
  BY <1>0 DEF Gdb!NextApplicationLaunched, Gdb!status
<1>2. /\ c \in Ctxs /\ ctx \in [Ctxs -> ContextTypes] /\ ctx[c] \in ContextTypes
      /\ proc \in [Gdb!Debuggable -> ProcTypes]
  BY <1>0, <1>1 DEF GdbInv, GdbTypes
<1>3. /\ ctx[c].debug = Gdb!NoProc /\ ctx[c].localPort = NextPort /\ "selected" \in ctx[c].flags
      /\ Served(c) => Awaits(c)
  BY <1>0, <1>2 DEF GdbInv, SessionsInv, SessionAt
<1>4. PICK x \in ContextTypes :
        /\ ctx' = [ctx EXCEPT ![c] = x]
        /\ x.state = ctx[c].state /\ x.localPort = ctx[c].localPort
        /\ x.attached = ctx[c].attached /\ x.eventToWaitFor = ctx[c].eventToWaitFor
        /\ \/ x.debug = NextApp /\ x.flags = ctx[c].flags \cup {"atStart"}
           \/ x.debug = Gdb!NoProc /\ x.flags = {}
  <2>1. PICK launched \in BOOLEAN :
          ctx' = IF launched
                 THEN [ctx EXCEPT ![c].debug = NextApp, ![c].flags = @ \cup {"atStart"}]
                 ELSE [ctx EXCEPT ![c].debug = Gdb!NoProc, ![c].flags = {}]
    BY <1>0 DEF Gdb!NextApplicationLaunched
  <2>2. CASE launched
    <3> DEFINE x == [ctx[c] EXCEPT !.debug = NextApp, !.flags = @ \cup {"atStart"}]
    <3>1. ctx' = [ctx EXCEPT ![c] = x]
      BY <2>1, <2>2, <1>2
    <3>2. /\ x \in ContextTypes /\ x.debug = NextApp /\ x.flags = ctx[c].flags \cup {"atStart"}
          /\ x.state = ctx[c].state /\ x.localPort = ctx[c].localPort
          /\ x.attached = ctx[c].attached /\ x.eventToWaitFor = ctx[c].eventToWaitFor
      BY <1>2, Sentinels DEF ContextTypes, Gdb!AllFlags
    <3> HIDE DEF x
    <3> QED BY <3>1, <3>2
  <2>3. CASE ~launched
    <3> DEFINE x == [ctx[c] EXCEPT !.debug = Gdb!NoProc, !.flags = {}]
    <3>1. ctx' = [ctx EXCEPT ![c] = x]
      BY <2>1, <2>3, <1>2
    <3>2. /\ x \in ContextTypes /\ x.debug = Gdb!NoProc /\ x.flags = {}
          /\ x.state = ctx[c].state /\ x.localPort = ctx[c].localPort
          /\ x.attached = ctx[c].attached /\ x.eventToWaitFor = ctx[c].eventToWaitFor
      BY <1>2 DEF ContextTypes
    <3> HIDE DEF x
    <3> QED BY <3>1, <3>2
  <2> QED BY <2>2, <2>3
<1>5. /\ ctx' \in [Ctxs -> ContextTypes] /\ ctx'[c] = x
      /\ \A d \in Ctxs \ {c} : ctx'[d] = ctx[d]
  BY <1>2, <1>4
<1>6. proc' \in [Gdb!Debuggable -> ProcTypes]
  <2>1. proc' = Gdb!Stopped(NextApp) \/ proc' = proc
    BY DEF Gdb!NextApplicationLaunched
  <2>2. Gdb!Stopped(NextApp) \in [Gdb!Debuggable -> ProcTypes]
    BY <1>2 DEF Gdb!Stopped, ProcTypes
  <2> QED BY <1>2, <2>1, <2>2
<1>7. GdbTypes'
  BY <1>1, <1>5, <1>6 DEF GdbInv, GdbTypes
<1>8. /\ ctx[c].eventToWaitFor = "attached" /\ ~ctx[c].attached
      /\ monitor.handles[c] = "attached" /\ (monitor.at = "lock" => monitor.c # c)
  BY <1>2, <1>3 DEF GdbInv, EventsInv, GdbTypes, ContextTypes
<1>9. EventsInv'
  BY <1>1, <1>4, <1>5, <1>8 DEF GdbInv, GdbTypes, EventsInv
<1>10. AnswersInv' /\ EndsInv' /\ MenuInv'
  BY <1>1, <1>4, <1>5 DEF GdbInv, GdbTypes, AnswersInv, EndsInv, MenuInv, Served
<1>11. PortsInv'
  <2>1. socket.at = "detachAck" => socket.c # c
    BY <1>3 DEF GdbInv, PortsInv, Awaits
  <2> QED BY <1>1, <1>3, <1>4, <1>5, <2>1 DEF GdbInv, GdbTypes, PortsInv, Served, Awaits
<1>12. FlagsInv'
  <2>1. NextApp # Gdb!NoProc
    BY Sentinels
  <2> QED BY <1>3, <1>4, <1>5, <2>1 DEF GdbInv, FlagsInv, Gdb!Allocated, Gdb!AllocatedMask
<1>13. SessionsInv'
  <2>1. \A d \in Ctxs : nextApplicationGdbCtx' # d
    BY <1>1, Sentinels
  <2>2. SessionAt(c)'
    BY <1>1, <1>2, <1>3, <1>4, <1>5, <2>1
       DEF GdbInv, SessionsInv, SessionAt, Served, Awaits, Gdb!AllocatedMask
  <2>3. ASSUME NEW d \in Ctxs \ {c} PROVE SessionAt(d)'
    BY <1>1, <1>5, <2>1 DEF GdbInv, SessionsInv, SessionAt, Served, Awaits
  <2> QED BY <2>2, <2>3 DEF SessionsInv
<1> QED
  BY <1>7, <1>9, <1>10, <1>11, <1>12, <1>13 DEF GdbInv

\* A free context is reserved for the next application; refused, it is clean;
\* and when the port is used, it gets flags of a client that does not exist.
LEMMA DebugNextApplicationStep ==
  ASSUME Gdb!GdbAssumption, GdbInv, Gdb!DebugNextApplication
  PROVE  GdbInv'
<1>1. /\ menu = 0 /\ Gdb!CanLockAll /\ ~shall_terminate /\ nextApplicationGdbCtx = 0
      /\ Gdb!Free # {}
      /\ UNCHANGED <<clientOf, statusUpdated, statusUpdateReceived, shall_terminate, menu, monitor,
                     socket, proc>>
  BY DEF Gdb!DebugNextApplication, Gdb!status
<1>2. PICK c \in Ctxs : c = Gdb!Least(Gdb!Free) /\ c \in Gdb!Free
  BY <1>1, LeastIn DEF Gdb!Free
<1>3. /\ ctx \in [Ctxs -> ContextTypes] /\ ctx[c] \in ContextTypes
      /\ proc \in [Gdb!Debuggable -> ProcTypes]
  BY <1>1 DEF GdbInv, GdbTypes
<1>4. /\ "used" \notin ctx[c].flags /\ "selected" \notin ctx[c].flags
      /\ "extended" \notin ctx[c].flags /\ "atStart" \notin ctx[c].flags
  BY <1>2 DEF GdbInv, FlagsInv, Gdb!Free, Gdb!Allocated, Gdb!AllocatedMask
<1>5. Served(c) => Awaits(c)
  BY <1>4 DEF GdbInv, PortsInv, Served
<1>6. ctx[c].debug = Gdb!NoProc
  BY <1>4, <1>5 DEF GdbInv, SessionsInv, SessionAt
<1>7. PICK x \in ContextTypes :
        /\ ctx' = [ctx EXCEPT ![c] = x]
        /\ x.state = ctx[c].state /\ x.debug = Gdb!NoProc
        /\ x.attached = ctx[c].attached /\ x.eventToWaitFor = ctx[c].eventToWaitFor
        /\ \/ x.flags = Gdb!AllFlags \ {"selected"} /\ nextApplicationGdbCtx' = 0
           \/ /\ x.flags = ctx[c].flags \cup {"selected"} /\ x.localPort = NextPort
              /\ nextApplicationGdbCtx' = c
           \/ x.flags = {} /\ nextApplicationGdbCtx' = 0
  <2>1. CASE Gdb!FreePorts({NextPort}) = {}
    <3> DEFINE x == [ctx[c] EXCEPT !.flags = Gdb!AllFlags \ {"selected"}]
    <3>1. ctx' = [ctx EXCEPT ![c] = x] /\ nextApplicationGdbCtx' = 0
      BY <1>1, <1>2, <1>3, <2>1 DEF Gdb!DebugNextApplication
    <3>2. /\ x \in ContextTypes /\ x.flags = Gdb!AllFlags \ {"selected"} /\ x.debug = Gdb!NoProc
          /\ x.state = ctx[c].state /\ x.attached = ctx[c].attached
          /\ x.eventToWaitFor = ctx[c].eventToWaitFor
      BY <1>3, <1>6 DEF ContextTypes
    <3> HIDE DEF x
    <3> QED BY <3>1, <3>2
  <2>2. CASE Gdb!FreePorts({NextPort}) # {}
    <3>1. PICK accepted \in BOOLEAN :
            IF accepted
            THEN /\ ctx' = [ctx EXCEPT ![c].flags = @ \cup {"selected"},
                                       ![c].localPort = NextPort,
                                       ![c].debug = Gdb!NoProc, ![c].pid = Gdb!NoProc]
                 /\ nextApplicationGdbCtx' = c
            ELSE /\ ctx' = [ctx EXCEPT ![c].flags = {}, ![c].localPort = 0,
                                       ![c].debug = Gdb!NoProc, ![c].pid = Gdb!NoProc]
                 /\ UNCHANGED nextApplicationGdbCtx
      BY <1>2, <2>2 DEF Gdb!DebugNextApplication
    <3>2. CASE accepted
      <4> DEFINE x == [ctx[c] EXCEPT !.flags = @ \cup {"selected"}, !.localPort = NextPort,
                                     !.debug = Gdb!NoProc, !.pid = Gdb!NoProc]
      <4>1. ctx' = [ctx EXCEPT ![c] = x] /\ nextApplicationGdbCtx' = c
        BY <1>3, <3>1, <3>2
      <4>2. /\ x \in ContextTypes /\ x.flags = ctx[c].flags \cup {"selected"}
            /\ x.localPort = NextPort /\ x.debug = Gdb!NoProc
            /\ x.state = ctx[c].state /\ x.attached = ctx[c].attached
            /\ x.eventToWaitFor = ctx[c].eventToWaitFor
        BY <1>3, Sentinels DEF ContextTypes, Gdb!AllFlags, Gdb!AllocatedMask
      <4> HIDE DEF x
      <4> QED BY <4>1, <4>2
    <3>3. CASE ~accepted
      <4> DEFINE x == [ctx[c] EXCEPT !.flags = {}, !.localPort = 0, !.debug = Gdb!NoProc,
                                     !.pid = Gdb!NoProc]
      <4>1. ctx' = [ctx EXCEPT ![c] = x] /\ nextApplicationGdbCtx' = 0
        BY <1>1, <1>3, <3>1, <3>3
      <4>2. /\ x \in ContextTypes /\ x.flags = {} /\ x.debug = Gdb!NoProc
            /\ x.state = ctx[c].state /\ x.attached = ctx[c].attached
            /\ x.eventToWaitFor = ctx[c].eventToWaitFor
        BY <1>3 DEF ContextTypes
      <4> HIDE DEF x
      <4> QED BY <4>1, <4>2
    <3> QED BY <3>2, <3>3
  <2> QED BY <2>1, <2>2
<1>8. /\ ctx' \in [Ctxs -> ContextTypes] /\ ctx'[c] = x
      /\ \A d \in Ctxs \ {c} : ctx'[d] = ctx[d]
  BY <1>3, <1>7
<1>9. GdbTypes'
  BY <1>1, <1>7, <1>8 DEF GdbInv, GdbTypes
<1>10. EventsInv'
  BY <1>1, <1>6, <1>7, <1>8 DEF GdbInv, GdbTypes, EventsInv
<1>11. AnswersInv' /\ EndsInv' /\ MenuInv'
  BY <1>1, <1>7, <1>8 DEF GdbInv, GdbTypes, AnswersInv, EndsInv, MenuInv, Served
<1>12. PortsInv'
  <2>1. socket.at = "detachAck" => socket.c # c
    BY <1>4 DEF GdbInv, PortsInv
  <2>2. \A d \in Ctxs : (Served(d)' <=> Served(d)) /\ (Awaits(d)' <=> Awaits(d))
    BY <1>1 DEF Served, Awaits
  <2>3. ASSUME NEW q \in Gdb!Ports, NEW d \in Ctxs, clientOf[q] = d
        PROVE  /\ Awaits(d) \/ ctx'[d].localPort = q
               /\ Awaits(d) \/ "used" \in ctx'[d].flags
                            \/ (q = NextPort /\ "selected" \in ctx'[d].flags)
    <3>1. CASE d = c
      BY <1>5, <2>3, <3>1 DEF Served
    <3>2. CASE d # c
      BY <1>8, <2>3, <3>2 DEF GdbInv, PortsInv
    <3> QED BY <3>1, <3>2
  <2>4. socket.at = "detachAck" => "used" \in ctx'[socket.c].flags
    BY <1>8, <2>1 DEF GdbInv, PortsInv, GdbTypes
  <2> QED BY <1>1, <2>2, <2>3, <2>4 DEF GdbInv, PortsInv, Awaits, Served
<1>13. FlagsInv'
  BY <1>4, <1>7, <1>8
     DEF GdbInv, FlagsInv, Gdb!Allocated, Gdb!AllocatedMask, Gdb!AllFlags, Gdb!RestartMask
<1>14. SessionsInv'
  <2>1. nextApplicationGdbCtx' \in {0, c} /\ \A d \in Ctxs : d # 0
    BY <1>7, Sentinels
  <2>2. SessionAt(c)'
    <3>1. ctx[c].state = "disconnected" \/ Served(c)
      BY DEF GdbInv, SessionsInv, SessionAt
    <3>2. ~(Gdb!AllocatedMask \subseteq x.flags)
      BY <1>4, <1>7 DEF Gdb!AllocatedMask
    <3>3. nextApplicationGdbCtx' = c => x.localPort = NextPort /\ "selected" \in x.flags
      BY <1>7, <2>1
    <3> QED BY <1>1, <1>5, <1>7, <1>8, <3>1, <3>2, <3>3 DEF SessionAt, Served, Awaits
  <2>3. ASSUME NEW d \in Ctxs \ {c} PROVE SessionAt(d)'
    BY <1>1, <1>8, <2>1 DEF GdbInv, SessionsInv, SessionAt, Served, Awaits
  <2> QED BY <2>2, <2>3 DEF SessionsInv
<1> QED
  BY <1>9, <1>10, <1>11, <1>12, <1>13, <1>14 DEF GdbInv

\* The thread that ends last closes what is left.
LEMMA FinalizeServerStep ==
  ASSUME Gdb!GdbAssumption, GdbInv, Gdb!FinalizeServer
  PROVE  GdbInv'
<1>1. /\ monitor.at = "ended" /\ socket.at = "ended"
      /\ UNCHANGED <<statusUpdated, statusUpdateReceived, shall_terminate, nextApplicationGdbCtx,
                     menu, monitor, socket>>
      /\ clientOf' = [p \in Gdb!Ports |-> 0]
  BY DEF Gdb!FinalizeServer, Gdb!status, Gdb!outside
<1>2. /\ ctx \in [Ctxs -> ContextTypes] /\ proc \in [Gdb!Debuggable -> ProcTypes]
      /\ clientOf \in [Gdb!Ports -> Ctxs \cup {0}] /\ menu = 0
  BY <1>1 DEF GdbInv, GdbTypes, EndsInv, MenuInv
<1>3. ASSUME NEW c \in Ctxs
      PROVE  \/ /\ ctx'[c] \in ContextTypes
                /\ ctx'[c].flags = {} /\ ctx'[c].state = "disconnected"
                /\ ctx'[c].debug = Gdb!NoProc /\ ~ctx'[c].attached
                /\ ctx'[c].eventToWaitFor = "attached"
                /\ nextApplicationGdbCtx # c
             \/ ctx'[c] = ctx[c] /\ ~Served(c) /\ ctx[c].debug = Gdb!NoProc
  <2>1. ctx'[c] = IF ctx[c].debug # Gdb!NoProc \/ Served(c)
                  THEN [Gdb!Closed(c) EXCEPT !.attached = FALSE] ELSE ctx[c]
    BY DEF Gdb!FinalizeServer, Served
  <2>2. CASE ctx[c].debug # Gdb!NoProc \/ Served(c)
    <3>1. PICK x \in ContextTypes :
            /\ x = Gdb!Closed(c) /\ x.flags = {} /\ x.state = "disconnected"
            /\ x.debug = Gdb!NoProc /\ x.eventToWaitFor = "attached"
      BY ClosedContext
    <3>2. ctx'[c] = [x EXCEPT !.attached = FALSE]
      BY <2>1, <2>2, <3>1
    <3>3. nextApplicationGdbCtx # c
      BY <1>1, <2>2 DEF GdbInv, SessionsInv, SessionAt, Awaits
    <3> QED BY <3>1, <3>2, <3>3 DEF ContextTypes
  <2>3. CASE ~(ctx[c].debug # Gdb!NoProc \/ Served(c))
    BY <2>1, <2>3
  <2> QED BY <2>2, <2>3
<1>4. ctx' \in [Ctxs -> ContextTypes]
  <2>1. \A c \in Ctxs : ctx'[c] \in ContextTypes
    BY <1>2, <1>3
  <2>2. ctx' = [c \in Ctxs |-> ctx'[c]]
    BY DEF Gdb!FinalizeServer
  <2> QED BY <2>1, <2>2
<1>5. proc' \in [Gdb!Debuggable -> ProcTypes]
  <2>1. ASSUME NEW p \in Gdb!Debuggable
        PROVE  proc'[p] \in ProcTypes
    <3> DEFINE by == {c \in Ctxs : ctx[c].debug = p}
    <3>1. proc'[p] = IF by = {} THEN proc[p] ELSE Gdb!Released(Gdb!Least(by))[p]
      BY DEF Gdb!FinalizeServer
    <3>2. by # {} => Gdb!Least(by) \in Ctxs
      BY LeastIn
    <3>3. \A c \in Ctxs : Gdb!Released(c) \in [Gdb!Debuggable -> ProcTypes]
      BY <1>2 DEF Gdb!Released, ProcTypes
    <3> HIDE DEF by
    <3> QED BY <1>2, <3>1, <3>2, <3>3
  <2>2. proc' = [p \in Gdb!Debuggable |-> proc'[p]]
    BY DEF Gdb!FinalizeServer
  <2> QED BY <2>1, <2>2
<1>6. \A c \in Ctxs : ~Served(c)'
  BY <1>1, Sentinels DEF Served
<1>7. GdbTypes'
  BY <1>1, <1>4, <1>5 DEF GdbInv, GdbTypes
<1>8. EventsInv'
  BY <1>1, <1>3 DEF GdbInv, EventsInv
<1>9. AnswersInv' /\ EndsInv' /\ MenuInv'
  BY <1>1, <1>2 DEF GdbInv, AnswersInv, EndsInv, MenuInv
<1>10. PortsInv'
  BY <1>1, <1>6, Sentinels DEF GdbInv, PortsInv, Served
<1>11. FlagsInv'
  BY <1>3 DEF GdbInv, FlagsInv, Gdb!Allocated
<1>12. SessionsInv'
  <2>1. ASSUME NEW c \in Ctxs PROVE SessionAt(c)'
    BY <1>1, <1>3, <1>6 DEF GdbInv, SessionsInv, SessionAt, Awaits, Gdb!AllocatedMask
  <2> QED BY <2>1 DEF SessionsInv
<1> QED
  BY <1>7, <1>8, <1>9, <1>10, <1>11, <1>12 DEF GdbInv

\* At first there is no client, no process and no reference.
LEMMA GdbInit ==
  ASSUME Gdb!GdbAssumption, Gdb!Init
  PROVE  GdbInv
<1>1. /\ ctx = [c \in Ctxs |-> Gdb!FreshContext] /\ clientOf = [p \in Gdb!Ports |-> 0]
      /\ statusUpdated = FALSE /\ statusUpdateReceived = FALSE /\ shall_terminate = FALSE
      /\ nextApplicationGdbCtx = 0 /\ menu = 0
      /\ monitor = Gdb!MonitorAt("start", 0) /\ socket = [at |-> "poll", c |-> 0]
      /\ proc = [p \in Gdb!Debuggable |-> [run |-> "running", pending |-> "none"]]
  BY DEF Gdb!Init
<1>2. Gdb!FreshContext \in ContextTypes
  BY DEF Gdb!FreshContext, ContextTypes, States, Watched
<1>3. /\ monitor \in [at : MonitorPlaces, handles : [Ctxs -> Watched], c : Ctxs \cup {0}]
      /\ monitor.at = "start" /\ \A c \in Ctxs : monitor.handles[c] = "attached"
  BY <1>1, MonitorReadsAgain DEF MonitorPlaces, Gdb!MonitorAt
<1>4. \A c \in Ctxs : ~Served(c) /\ nextApplicationGdbCtx # c
  BY <1>1, Sentinels DEF Served
<1>5. GdbTypes
  BY <1>1, <1>2, <1>3 DEF GdbTypes, SocketPlaces, ProcTypes
<1>6. EventsInv /\ AnswersInv /\ EndsInv /\ MenuInv /\ FlagsInv
  BY <1>1, <1>3 DEF EventsInv, AnswersInv, EndsInv, MenuInv, FlagsInv, Gdb!FreshContext
<1>7. PortsInv
  BY <1>1, Sentinels DEF PortsInv
<1>8. SessionsInv
  BY <1>1, <1>4 DEF SessionsInv, SessionAt, Gdb!FreshContext, Awaits, Gdb!AllocatedMask
<1> QED
  BY <1>5, <1>6, <1>7, <1>8 DEF GdbInv

\* No step breaks the invariant.
LEMMA GdbStep ==
  ASSUME Gdb!GdbAssumption, Prompt, GdbInv, [Gdb!Next]_(Gdb!vars)
  PROVE  GdbInv'
<1>1. CASE UNCHANGED Gdb!vars
  <2>1. UNCHANGED <<ctx, clientOf, statusUpdated, statusUpdateReceived, shall_terminate,
                    nextApplicationGdbCtx, monitor, socket, menu, proc>>
    BY <1>1 DEF Gdb!vars
  <2>2. GdbTypes' /\ EventsInv' /\ EndsInv' /\ MenuInv' /\ FlagsInv' /\ AnswersInv'
    BY <2>1 DEF GdbInv, GdbTypes, EventsInv, EndsInv, MenuInv, FlagsInv, Gdb!Allocated, AnswersInv,
                Served
  <2>3. PortsInv' /\ SessionsInv'
    BY <2>1 DEF GdbInv, PortsInv, SessionsInv, SessionAt, Served, Awaits
  <2> QED BY <2>2, <2>3 DEF GdbInv
<1>2. CASE Gdb!MonitorStarts \/ Gdb!ReadHandles \/ Gdb!BeginWait \/ Gdb!MonitorTerminated
           \/ Gdb!StatusWasUpdated \/ Gdb!WakeForContext \/ Gdb!HandleContext
  BY <1>2, MonitorStartsStep, ReadHandlesStep, BeginWaitStep, MonitorTerminatedStep,
     StatusWasUpdatedStep, WakeForContextStep, HandleContextStep
<1>3. CASE \E port \in Gdb!Ports : Gdb!Accept(port) \/ Gdb!Hangup(port)
  BY <1>3, AcceptStep, HangupStep
<1>4. CASE \E c \in Ctxs :
             \/ Gdb!Continue(c) \/ Gdb!Break(c) \/ Gdb!EnableExtendedMode(c) \/ Gdb!OtherPacket(c)
             \/ \E p \in Procs : Gdb!Attach(c, p)
             \/ \E kill \in BOOLEAN : Gdb!DetachOrKill(c, kill)
  BY <1>4, ContinueStep, BreakStep, EnableExtendedModeStep, OtherPacketStep, AttachStep,
     DetachOrKillStep
<1>5. CASE Gdb!NextApplicationArrived \/ Gdb!AcceptClient \/ Gdb!FinishDetach
           \/ Gdb!BeginClose \/ Gdb!TestReferences \/ Gdb!CloseAcknowledged
           \/ Gdb!CloseClient \/ Gdb!SocketTerminated
  BY <1>5, NextApplicationArrivedStep, AcceptClientStep, FinishDetachStep, BeginCloseStep,
     TestReferencesStep, CloseAcknowledgedStep, CloseClientStep, SocketTerminatedStep
<1>6. CASE \E p \in Procs : Gdb!Select(p) \/ Gdb!Unselect(p)
  BY <1>6, SelectStep, UnselectStep
<1>7. CASE Gdb!Unselected \/ Gdb!DebugNextApplication \/ Gdb!NextApplicationLaunched \/ Gdb!Disable
           \/ Gdb!FinalizeServer
  BY <1>7, UnselectedNever, DebugNextApplicationStep, NextApplicationLaunchedStep, DisableStep,
     FinalizeServerStep
<1>8. CASE \E p \in Gdb!Debuggable, event \in {"stop", "output", "exit"} : Gdb!DebugEvent(p, event)
  BY <1>8, DebugEventStep
<1> QED
  BY <1>1, <1>2, <1>3, <1>4, <1>5, <1>6, <1>7, <1>8 DEF Gdb!Next

\* What the invariant says of the contexts.
LEMMA GdbInvImplies ==
  ASSUME GdbInv
  PROVE  Gdb!ContextsConsistent
<1>1. Gdb!TypeOK
  <2>1. \A c \in Ctxs : ctx[c] \in ContextTypes
    BY DEF GdbInv, GdbTypes
  <2> QED BY <2>1 DEF Gdb!TypeOK, GdbInv, GdbTypes, ContextTypes
<1>2. Gdb!FreeContextIsClean
  <2>1. SUFFICES ASSUME NEW c \in Gdb!Free, ~Awaits(c)
                 PROVE  /\ ctx[c].debug = Gdb!NoProc /\ ctx[c].state = "disconnected"
                        /\ \A port \in Gdb!Ports : clientOf[port] # c
    BY DEF Gdb!FreeContextIsClean, Awaits
  <2>2. c \in Ctxs /\ "used" \notin ctx[c].flags /\ "selected" \notin ctx[c].flags
    BY DEF Gdb!Free, Gdb!Allocated, Gdb!AllocatedMask
  <2>3. ~Served(c)
    BY <2>1, <2>2 DEF GdbInv, PortsInv, Served
  <2> QED BY <2>2, <2>3 DEF GdbInv, SessionsInv, SessionAt, Served
<1>3. Gdb!MonitorSurvives
  BY DEF GdbInv, EndsInv, Gdb!MonitorSurvives
<1> QED
  BY <1>1, <1>2, <1>3 DEF Gdb!ContextsConsistent

\* All of it holds at every time.
THEOREM GdbInvariant ==
  ASSUME Gdb!GdbAssumption, Prompt
  PROVE  Gdb!Spec => []GdbInv
<1>1. Gdb!Init => GdbInv
  BY GdbInit
<1>2. GdbInv /\ [Gdb!Next]_(Gdb!vars) => GdbInv'
  BY GdbStep
<1> QED
  BY <1>1, <1>2, PTL DEF Gdb!Spec

\* A context that nobody uses is as it was at first, however its last session
\* ended, and the monitor ends only when the server is to end: no debug handle
\* is closed between the moment the monitor copies it under the locks and the
\* end of its wait (monitor.c:63-92; the two waits for statusUpdateReceived are
\* those of gdb.c and debug.c), for every number of contexts, ports and processes.
THEOREM ContextsAreConsistent ==
  ASSUME Gdb!GdbAssumption, Prompt
  PROVE  Gdb!Spec => []Gdb!ContextsConsistent
<1>1. GdbInv => Gdb!ContextsConsistent
  BY GdbInvImplies
<1> QED
  BY <1>1, GdbInvariant, PTL

\* The menu that waits for a client to be closed waits for ever: it keeps the
\* lock of every context, and the end of the client needs one.
THEOREM UnselectNeverCompletes ==
  ASSUME Gdb!GdbAssumption, Prompt
  PROVE  Gdb!Spec => [][menu # 0 => menu' = menu]_(Gdb!vars)
<1>1. ASSUME GdbInv, [Gdb!Next]_(Gdb!vars) PROVE [menu # 0 => menu' = menu]_(Gdb!vars)
  <2>1. SUFFICES ASSUME Gdb!Next, menu # 0 PROVE menu' = menu
    BY <1>1
  <2>2. ~Gdb!Unselected
    BY <1>1, UnselectedNever
  <2> QED
    BY <2>1, <2>2
       DEF Gdb!Next, Gdb!MonitorStarts, Gdb!ReadHandles, Gdb!BeginWait, Gdb!MonitorTerminated,
           Gdb!StatusWasUpdated, Gdb!WakeForContext, Gdb!HandleContext, Gdb!Accept,
           Gdb!NextApplicationArrived, Gdb!AcceptClient, Gdb!Continue, Gdb!Break,
           Gdb!EnableExtendedMode, Gdb!Attach, Gdb!DetachOrKill, Gdb!OtherPacket,
           Gdb!FinishDetach, Gdb!Hangup, Gdb!BeginClose, Gdb!TestReferences,
           Gdb!CloseAcknowledged, Gdb!CloseClient, Gdb!SocketTerminated, Gdb!Select,
           Gdb!Unselect, Gdb!DebugNextApplication, Gdb!NextApplicationLaunched, Gdb!Disable,
           Gdb!FinalizeServer, Gdb!DebugEvent, Gdb!outside
<1> QED
  BY <1>1, GdbInvariant, PTL DEF Gdb!Spec
-----------------------------------------------------------------------------
(* What the console boots                                                  *)

CONSTANTS Pads, Options, DefaultOptions, EmuNands, Versions
VARIABLES mcu, ini, pinFile, sdInserted, bootenv, deliverArg, version, boot, running, origin

\* The program is not replaced while a system runs.
Boots == INSTANCE Arm9Boot WITH Settled <- TRUE, b <- boot

\* The types.
Media == {"sd", "nand"}
Systems == [nand : {"sys", "emu"}, index : 0..3]
Configs == [nand : {"sys", "emu"}, index : 0..3, noForce : BOOLEAN, ntrCard : BOOLEAN]
McuTypes == [version : Versions, bootCfg : Configs]
Places ==
  {"off", "error", "payload", "mount", "config", "firmlaunch", "buttons", "pin", "menu",
   "safeMode", "payloads", "choose", "boot", "launched"}
BootTypes ==
  [pc : Places, bootType : {"B9S", "FIRM0", "NTR", "FIRMLAUNCH"}, medium : Media \cup {"firm"},
   firm : {"NATIVE", "TWL", "AGB", "SAFE", "SYSUPDATER"}, create : BOOLEAN, options : Options,
   bootConfig : Configs, oldBootConfig : Configs, pressed : Pads, nand : {"sys", "emu"},
   index : 0..3, noForce : BOOLEAN, pinExists : BOOLEAN, again : BOOLEAN]
Origins ==
  [how : {"cold", "reboot", "agb", "launch", "firmlaunch"}, quiet : BOOLEAN, agb : BOOLEAN]

BootsTypes ==
  /\ mcu \in McuTypes \cup {None}
  /\ ini \in [Media -> Options \cup {None}]
  /\ sdInserted \in BOOLEAN /\ version \in Versions
  /\ running \in Systems /\ boot \in BootTypes /\ origin \in Origins

\* How far main() is.  At Deciding the buttons are read and a system chosen,
\* Configured is after readConfig.
Ended == {"off", "error", "payload"}
Deciding == {"pin", "menu", "safeMode", "payloads", "choose"}
Configured == {"firmlaunch", "buttons", "boot", "launched"} \cup Deciding
Follows == boot.pc \notin Ended /\ origin.how # "cold"

\* The medium is there; only a cold boot has to look for it.
MediumInv ==
  /\ boot.pc \notin Ended \cup {"mount"} \/ Follows => boot.medium \in Media
  /\ boot.pc \notin Ended \cup {"mount"} \/ Follows => (boot.medium = "sd" => sdInserted)

\* What a boot has read is what the registers hold; the configuration is made
\* before a system starts.
ConfigInv ==
  /\ boot.pc \in Configured =>
       /\ mcu # None /\ mcu.version = version
       /\ boot.pc # "launched" =>
            boot.bootConfig = mcu.bootCfg /\ boot.oldBootConfig = mcu.bootCfg
       /\ boot.create \/ ini[boot.medium] # None
  /\ boot.pc \in {"safeMode", "payloads", "choose", "boot", "launched"} => ~boot.create

\* The register of the boot environment says what the boot follows, until a
\* system is chosen.
EnvInv ==
  boot.pc \in {"mount", "config", "buttons"} \cup Deciding =>
    /\ origin.how = "cold" => bootenv = 0
    /\ origin.how = "reboot" => bootenv \in {1, 3}
    /\ origin.how = "launch" => bootenv = 3
    /\ origin.how = "agb" => bootenv = 7

\* A boot that follows another one finds what that has left: the system that
\* ran is the one that the MCU names, and it is still there.
Remembered ==
  /\ mcu # None /\ mcu.version = version /\ ini[boot.medium] # None
  /\ mcu.bootCfg.nand = running.nand /\ mcu.bootCfg.index = running.index
  /\ mcu.bootCfg.noForce = origin.agb
  /\ Boots!LocateEmuNand(running) = running
  /\ boot.medium = "nand" => running = Boots!SysNand
FollowInv ==
  /\ Follows \/ boot.pc = "launched" => Remembered
  /\ Follows => ~boot.create
  /\ boot.pc \in {"mount", "config", "firmlaunch", "buttons"} \cup Deciding =>
       boot.nand = "sys" /\ boot.index = 0 /\ ~boot.noForce
  /\ boot.pc \in {"mount", "config", "firmlaunch", "buttons", "boot"} \cup Deciding =>
       (boot.bootType = "FIRMLAUNCH" <=> origin.how = "firmlaunch")
  /\ boot.pc = "firmlaunch" => origin.how = "firmlaunch"
  /\ boot.pc \in {"buttons"} \cup Deciding => origin.how # "firmlaunch"
  /\ boot.pc \in {"mount", "config", "buttons"} =>
       boot.pressed = {} /\ (origin.how = "reboot" => origin.quiet)

\* A reboot that decides although no button is held was preceded by a GBA game.
\* Once a system is chosen it is the one that is expected.
ChosenInv ==
  /\ boot.pc \in Deciding =>
       /\ origin.how # "agb"
       /\ origin.how = "reboot" /\ origin.quiet =>
            origin.agb /\ boot.pressed = {} /\ boot.pc # "menu"
  /\ boot.pc = "boot" =>
       /\ origin.how = "firmlaunch" => Boots!System(boot.nand, boot.index) = running
       /\ origin.how = "reboot" /\ origin.quiet =>
            Boots!System(boot.nand, boot.index) =
              IF origin.agb THEN Boots!Chosen({}, boot.options) ELSE running
       /\ origin.how = "agb" \/ ~Boots!isSdMode =>
            Boots!System(boot.nand, boot.index) = Boots!SysNand

BootInv == BootsTypes /\ MediumInv /\ ConfigInv /\ EnvInv /\ FollowInv /\ ChosenInv

\* What a boot begins with.
LEMMA BootIsBoot ==
  ASSUME Boots!BootAssumption, NEW t \in {"B9S", "FIRM0", "NTR", "FIRMLAUNCH"},
         NEW m \in Media \cup {"firm"},
         NEW f \in {"NATIVE", "TWL", "AGB", "SAFE", "SYSUPDATER"}
  PROVE  Boots!Boot(t, m, f) \in BootTypes
<1>1. Boots!NoConfig \in Configs
  BY DEF Boots!NoConfig, Configs
<1>2. DefaultOptions \in Options /\ {} \in Pads
  BY DEF Boots!BootAssumption
<1> QED
  BY <1>1, <1>2 DEF Boots!Boot, BootTypes, Places

\* Neither has a console that is off read anything.
LEMMA OffIsBoot ==
  ASSUME Boots!BootAssumption
  PROVE  Boots!Off \in BootTypes /\ Boots!Off.pc = "off"
<1>1. Boots!Boot("B9S", "sd", "NATIVE") \in BootTypes
  BY BootIsBoot DEF Media
<1> QED
  BY <1>1 DEF Boots!Off, BootTypes, Places

\* A console that is off follows no system.
LEMMA PowerOffBoots ==
  ASSUME Boots!BootAssumption, BootInv, Boots!PowerOff
  PROVE  BootInv'
<1>1. boot' = Boots!Off /\ boot' \in BootTypes /\ boot'.pc = "off"
  BY OffIsBoot DEF Boots!PowerOff
<1>2. UNCHANGED <<Boots!persistent, running, origin>>
  BY DEF Boots!PowerOff
<1>3. BootsTypes'
  BY <1>1, <1>2
  DEF BootInv, BootsTypes, Boots!persistent, McuTypes, Media, Systems, Origins, Configs,
      BootTypes, Places
<1>4. MediumInv' /\ ConfigInv' /\ EnvInv' /\ FollowInv' /\ ChosenInv'
  BY <1>1
  DEF MediumInv, ConfigInv, Configured, EnvInv, FollowInv, Follows, Ended, Deciding, ChosenInv
<1> QED
  BY <1>3, <1>4 DEF BootInv

\* A cold boot finds the boot environment cleared.
LEMMA PowerOnBoots ==
  ASSUME Boots!BootAssumption, BootInv, NEW t \in {"B9S", "FIRM0", "NTR"}, Boots!PowerOn(t)
  PROVE  BootInv'
<1>1. PICK m \in Media \cup {"firm"} : boot' = Boots!Boot(t, m, "NATIVE")
  BY DEF Boots!PowerOn, Boots!Loads, Media
<1>2. /\ boot' \in BootTypes /\ boot'.pc = "mount" /\ boot'.bootType # "FIRMLAUNCH"
      /\ ~boot'.create
      /\ boot'.nand = "sys" /\ boot'.index = 0 /\ ~boot'.noForce /\ boot'.pressed = {}
  BY <1>1, BootIsBoot DEF Boots!Boot
<1>3. /\ bootenv' = 0 /\ origin' \in Origins /\ origin'.how = "cold" /\ origin'.quiet
      /\ UNCHANGED <<mcu, ini, sdInserted, version, running>>
  BY DEF Boots!PowerOn, Origins
<1>4. BootsTypes'
  BY <1>2, <1>3 DEF BootInv, BootsTypes, McuTypes, Systems, Configs, Media
<1>5. MediumInv' /\ ConfigInv' /\ EnvInv'
  BY <1>2, <1>3 DEF MediumInv, ConfigInv, Configured, EnvInv, Follows, Ended, Deciding
<1>6. FollowInv' /\ ChosenInv'
  BY <1>2, <1>3 DEF FollowInv, Follows, Ended, Deciding, ChosenInv
<1> QED
  BY <1>4, <1>5, <1>6 DEF BootInv

\* Only a cold boot may miss its medium, or be without one before this step.
LEMMA MountBoots ==
  ASSUME Boots!BootAssumption, BootInv, Boots!Mount
  PROVE  BootInv'
<1> DEFINE error == boot.medium = "sd" /\ ~sdInserted
<1>1. boot.pc = "mount" /\ boot \in BootTypes /\ UNCHANGED <<Boots!persistent, running, origin>>
  BY DEF BootInv, BootsTypes, Boots!Mount
<1>2. BootsTypes'
  <2>1. boot' \in BootTypes
    <3>1. CASE error
      BY <1>1, <3>1 DEF Boots!Mount, Boots!Goto, BootTypes, Places
    <3>2. CASE ~error
      <4>1. PICK m \in Media, pc \in {"payload", "config"} :
              boot' = [boot EXCEPT !.medium = m, !.pc = pc]
        <5>1. boot.medium \in Media \cup {"firm"}
          BY <1>1 DEF BootTypes
        <5> QED
          BY <3>2, <5>1 DEF Boots!Mount, Media
      <4> QED
        BY <1>1, <4>1 DEF BootTypes, Places
    <3> QED
      BY <3>1, <3>2
  <2> QED
    BY <1>1, <2>1
    DEF BootInv, BootsTypes, Boots!persistent, McuTypes, Systems, Configs, Media, Origins
<1>3. CASE boot'.pc \in Ended
  <2>1. ~Follows' /\ boot'.pc \notin Configured \cup Deciding \cup {"mount", "config"}
    BY <1>3 DEF Follows, Ended, Deciding, Configured
  <2> QED
    BY <1>2, <1>3, <2>1
    DEF BootInv, MediumInv, ConfigInv, EnvInv, FollowInv, ChosenInv, Ended, Deciding, Configured
<1>4. CASE boot'.pc \notin Ended
  <2>1. ~error
    BY <1>1, <1>4 DEF Boots!Mount, Boots!Goto, Ended, BootTypes
  <2>2. boot.medium \in Media \cup {"firm"}
    BY <1>1 DEF BootTypes
  <2>3. /\ boot'.pc = "config" /\ boot'.medium \in Media /\ (boot'.medium = "sd" => sdInserted)
        /\ boot.medium # "firm" => boot'.medium = boot.medium
        /\ boot'.bootType = boot.bootType /\ boot'.create = boot.create
        /\ boot'.nand = boot.nand
        /\ boot'.index = boot.index /\ boot'.noForce = boot.noForce
        /\ boot'.pressed = boot.pressed
    BY <1>1, <1>4, <2>1, <2>2 DEF Boots!Mount, BootTypes, Ended, Media
  <2>4. MediumInv' /\ ConfigInv' /\ EnvInv'
    BY <1>1, <2>3
    DEF BootInv, MediumInv, ConfigInv, Configured, EnvInv, Follows, Ended, Deciding,
        Boots!persistent
  <2>5. FollowInv' /\ ChosenInv'
    <3>1. Follows' => Follows /\ boot'.medium = boot.medium
      BY <1>1, <2>3 DEF BootInv, MediumInv, Follows, Ended, Media
    <3>2. Follows' => Remembered'
      BY <1>1, <3>1
      DEF BootInv, FollowInv, Remembered, Boots!LocateEmuNand, Boots!System, Boots!SysNand,
          Boots!persistent
    <3> QED
      BY <1>1, <2>3, <3>1, <3>2
      DEF BootInv, FollowInv, Follows, Ended, Deciding, ChosenInv, Boots!persistent
  <2> QED
    BY <1>2, <2>4, <2>5 DEF BootInv
<1> QED
  BY <1>3, <1>4

\* What was written by this version is read as it is, so that a boot that
\* follows another one has the options and the system of that one.
LEMMA ReadConfigBoots ==
  ASSUME Boots!BootAssumption, BootInv, Boots!ReadConfig
  PROVE  BootInv'
<1> DEFINE read == Boots!ReadConfigMcu
<1> DEFINE ok == read.ok /\ ini[boot.medium] # None
<1>1. /\ boot.pc = "config" /\ boot \in BootTypes /\ mcu \in McuTypes \cup {None}
      /\ version \in Versions
      /\ ini \in [Media -> Options \cup {None}] /\ boot.medium \in Media
      /\ UNCHANGED <<ini, pinFile, sdInserted, bootenv, deliverArg, version, running, origin>>
  BY DEF BootInv, BootsTypes, MediumInv, Ended, Boots!ReadConfig
<1>2. Boots!NoConfig \in Configs
  BY DEF Boots!NoConfig, Configs
<1>3. /\ read.ok \in BOOLEAN /\ read.mcu \in McuTypes /\ read.mcu.version = version
      /\ mcu # None /\ mcu.version = version => read.ok /\ read.mcu = mcu
  <2>1. CASE mcu = None
    BY <1>1, <1>2, <2>1 DEF Boots!ReadConfigMcu, McuTypes
  <2>2. CASE mcu # None
    <3>1. mcu \in McuTypes /\ mcu.version \in Nat /\ version \in Nat
      BY <1>1, <2>2 DEF Boots!BootAssumption, McuTypes
    <3> QED
      BY <1>1, <1>2, <2>2, <3>1 DEF Boots!ReadConfigMcu, McuTypes
  <2> QED
    BY <2>1, <2>2
<1>4. read.mcu # None /\ read.mcu.bootCfg \in Configs
  BY <1>3 DEF Boots!BootAssumption, McuTypes, Configs
<1>5. ok \in BOOLEAN /\ (ok => ini[boot.medium] \in Options) /\ DefaultOptions \in Options
  BY <1>1, <1>3 DEF Boots!BootAssumption
<1>6. PICK o \in Options, pc \in {"firmlaunch", "buttons"} :
        /\ boot' = [boot EXCEPT !.create = ~ok, !.options = o, !.bootConfig = read.mcu.bootCfg,
                                !.oldBootConfig = read.mcu.bootCfg, !.pc = pc]
        /\ pc = IF boot.bootType = "FIRMLAUNCH" THEN "firmlaunch" ELSE "buttons"
  BY <1>5 DEF Boots!ReadConfig
<1>7. /\ boot' \in BootTypes /\ boot'.pc \in {"firmlaunch", "buttons"} /\ boot'.create = ~ok
      /\ boot'.bootConfig = read.mcu.bootCfg /\ boot'.oldBootConfig = read.mcu.bootCfg
      /\ boot'.medium = boot.medium /\ boot'.bootType = boot.bootType /\ boot'.nand = boot.nand
      /\ boot'.index = boot.index /\ boot'.noForce = boot.noForce
      /\ boot'.pressed = boot.pressed
      /\ boot'.pc = "firmlaunch" <=> boot.bootType = "FIRMLAUNCH"
  BY <1>1, <1>4, <1>5, <1>6 DEF BootTypes, Places
<1>8. mcu' = read.mcu
  BY DEF Boots!ReadConfig
<1> HIDE DEF read, ok
<1>9. BootsTypes'
  BY <1>1, <1>3, <1>7, <1>8 DEF BootInv, BootsTypes, McuTypes, Systems, Configs, Origins
<1>10. MediumInv' /\ EnvInv'
  BY <1>1, <1>7 DEF BootInv, MediumInv, EnvInv, Follows, Ended, Deciding
<1>11. ConfigInv'
  BY <1>1, <1>3, <1>4, <1>7, <1>8 DEF ConfigInv, Configured, Deciding, ok
<1>12. Follows => ok /\ mcu' = mcu /\ Remembered'
  <2> SUFFICES ASSUME Follows PROVE ok /\ mcu' = mcu /\ Remembered'
    OBVIOUS
  <2>1. Remembered
    BY DEF BootInv, FollowInv
  <2>2. ok /\ mcu' = mcu
    BY <1>3, <1>8, <2>1 DEF ok, Remembered
  <2> QED
    BY <1>1, <1>7, <2>1, <2>2 DEF Remembered, Boots!LocateEmuNand, Boots!System, Boots!SysNand
<1>13. FollowInv' /\ ChosenInv'
  BY <1>1, <1>7, <1>12 DEF BootInv, FollowInv, Follows, Ended, Deciding, ChosenInv
<1> QED
  BY <1>9, <1>10, <1>11, <1>13 DEF BootInv

\* A firmlaunch does not have to make the configuration; it takes the system
\* that the MCU names.
LEMMA FollowFirmlaunchBoots ==
  ASSUME Boots!BootAssumption, BootInv, Boots!FollowFirmlaunch
  PROVE  BootInv'
<1>1. /\ boot.pc = "firmlaunch" /\ boot \in BootTypes /\ Follows /\ Remembered /\ ~boot.create
      /\ UNCHANGED <<Boots!persistent, running, origin>> /\ origin.how = "firmlaunch"
      /\ boot.bootType = "FIRMLAUNCH"
  BY DEF BootInv, BootsTypes, FollowInv, Follows, Ended, Boots!FollowFirmlaunch
<1>2. boot.bootConfig = mcu.bootCfg /\ boot.bootConfig \in Configs
  BY <1>1 DEF BootInv, ConfigInv, Configured, BootTypes
<1>3. boot' = [boot EXCEPT !.nand = boot.bootConfig.nand, !.index = boot.bootConfig.index,
                           !.pc = "boot"]
  BY <1>1 DEF Boots!FollowFirmlaunch
<1>4. /\ boot' \in BootTypes /\ boot'.pc = "boot" /\ boot'.nand = running.nand
      /\ boot'.index = running.index
      /\ boot'.medium = boot.medium /\ boot'.create = boot.create
      /\ boot'.bootConfig = boot.bootConfig
      /\ boot'.oldBootConfig = boot.oldBootConfig /\ boot'.bootType = boot.bootType
  BY <1>1, <1>2, <1>3 DEF BootTypes, Places, Configs, Remembered
<1>5. running \in Systems
  BY DEF BootInv, BootsTypes
<1>6. Boots!System(boot'.nand, boot'.index) = running
  BY <1>4, <1>5 DEF Boots!System, Systems
<1>7. BootsTypes'
  BY <1>1, <1>4
  DEF BootInv, BootsTypes, Boots!persistent, McuTypes, Systems, Configs, Media, Origins
<1>8. MediumInv' /\ ConfigInv' /\ EnvInv'
  BY <1>1, <1>4
  DEF BootInv, MediumInv, ConfigInv, Configured, EnvInv, Follows, Ended, Deciding,
      Boots!persistent
<1>9. Remembered'
  BY <1>1, <1>4
  DEF Remembered, Boots!LocateEmuNand, Boots!System, Boots!SysNand, Boots!persistent
<1>10. boot'.medium \in Media /\ (~Boots!isSdMode' => running' = Boots!SysNand)
  BY <1>1, <1>4 DEF BootInv, MediumInv, Remembered, Media, Boots!isSdMode, Follows
<1>11. FollowInv' /\ ChosenInv'
  BY <1>1, <1>4, <1>6, <1>9, <1>10
  DEF BootInv, FollowInv, Follows, Ended, Deciding, ChosenInv, Boots!persistent
<1> QED
  BY <1>7, <1>8, <1>11 DEF BootInv

\* Three ways on: the NAND after a GBA game, the last system, or the decision.
LEMMA ReadButtonsBoots ==
  ASSUME Boots!BootAssumption, BootInv, NEW p \in Pads, Boots!ReadButtons(p)
  PROVE  BootInv'
<1> DEFINE forced == bootenv # 0 /\ ~boot.create
<1>1. /\ boot.pc = "buttons" /\ boot \in BootTypes /\ boot.medium \in Media /\ boot.pressed = {}
      /\ boot.nand = "sys" /\ boot.index = 0 /\ ~boot.noForce /\ boot.bootType # "FIRMLAUNCH"
      /\ origin \in Origins /\ origin.how # "firmlaunch"
      /\ origin.how = "reboot" => origin.quiet
      /\ UNCHANGED <<mcu, ini, pinFile, sdInserted, version, running>>
  BY DEF BootInv, BootsTypes, MediumInv, FollowInv, Ended, Deciding, Boots!ReadButtons
<1>2. boot.bootConfig = mcu.bootCfg /\ boot.bootConfig \in Configs
  BY <1>1 DEF BootInv, ConfigInv, Configured, BootTypes
<1>3. /\ origin' \in Origins /\ origin'.how = origin.how /\ origin'.agb = origin.agb
      /\ origin'.quiet = (origin.quiet /\ p = {})
  BY <1>1 DEF Boots!ReadButtons, Boots!Seen, Origins
<1>4. origin.how # "cold" => Remembered /\ ~boot.create
  BY <1>1 DEF BootInv, FollowInv, Follows, Ended
<1>5. /\ origin.how = "cold" <=> bootenv = 0
      /\ origin.how = "agb" <=> bootenv = 7
      /\ forced <=> origin.how # "cold"
  BY <1>1, <1>4 DEF BootInv, EnvInv, Origins
<1>6. CASE forced /\ bootenv = 7
  <2>1. boot' = [boot EXCEPT !.pressed = p, !.noForce = boot.bootConfig.nand # "sys",
                             !.pc = "boot"]
    BY <1>6 DEF Boots!ReadButtons, Boots!Pressed
  <2>2. /\ boot' \in BootTypes /\ boot'.pc = "boot" /\ boot'.nand = boot.nand
        /\ boot'.index = boot.index
        /\ boot'.medium = boot.medium /\ boot'.create = boot.create
        /\ boot'.bootConfig = boot.bootConfig
        /\ boot'.oldBootConfig = boot.oldBootConfig /\ boot'.bootType = boot.bootType
    BY <1>1, <2>1 DEF BootTypes, Places
  <2>3. Boots!System(boot'.nand, boot'.index) = Boots!SysNand
    BY <1>1, <2>2 DEF Boots!System, Boots!SysNand
  <2>4. BootsTypes'
    BY <1>1, <1>3, <2>2 DEF BootInv, BootsTypes, McuTypes, Systems, Configs, Media
  <2>5. MediumInv' /\ ConfigInv' /\ EnvInv'
    BY <1>1, <1>3, <1>6, <2>2
    DEF BootInv, MediumInv, ConfigInv, Configured, EnvInv, Follows, Ended, Deciding
  <2>6. Remembered'
    BY <1>1, <1>3, <1>4, <1>5, <1>6, <2>2
    DEF Remembered, Boots!LocateEmuNand, Boots!System, Boots!SysNand
  <2>7. FollowInv' /\ ChosenInv'
    BY <1>1, <1>3, <1>4, <1>5, <1>6, <2>2, <2>3, <2>6
    DEF FollowInv, Follows, Ended, Deciding, ChosenInv
  <2> QED
    BY <2>4, <2>5, <2>7 DEF BootInv
<1>7. CASE /\ ~(forced /\ bootenv = 7) /\ forced
           /\ Boots!ValidTlnc \/ (p = {} /\ ~boot.bootConfig.noForce)
  <2>1. boot' = [boot EXCEPT !.pressed = p, !.nand = boot.bootConfig.nand,
                             !.index = boot.bootConfig.index, !.pc = "boot"]
    BY <1>7 DEF Boots!ReadButtons, Boots!Pressed
  <2>2. /\ boot' \in BootTypes /\ boot'.pc = "boot" /\ boot'.nand = running.nand
        /\ boot'.index = running.index /\ boot'.medium = boot.medium
        /\ boot'.create = boot.create
        /\ boot'.bootConfig = boot.bootConfig /\ boot'.oldBootConfig = boot.oldBootConfig
        /\ boot'.bootType = boot.bootType
    <3>1. boot.bootConfig.nand = running.nand /\ boot.bootConfig.index = running.index
      BY <1>2, <1>4, <1>5, <1>7 DEF Remembered
    <3>2. boot.bootConfig.nand \in {"sys", "emu"} /\ boot.bootConfig.index \in 0..3
      BY <1>2 DEF Configs
    <3> QED
      BY <1>1, <2>1, <3>1, <3>2 DEF BootTypes, Places
  <2>3. /\ Boots!System(boot'.nand, boot'.index) = running
        /\ (~Boots!isSdMode' => running = Boots!SysNand)
    BY <1>1, <1>4, <1>5, <1>7, <2>2
    DEF BootInv, BootsTypes, Boots!System, Systems, Remembered, Media, Boots!isSdMode
  <2>4. ~origin.agb
    <3>1. ~Boots!ValidTlnc
      BY DEF Boots!ValidTlnc, Boots!CrcLen
    <3> QED
      BY <1>2, <1>4, <1>5, <1>7, <3>1 DEF Remembered
  <2>5. BootsTypes'
    BY <1>1, <1>3, <2>2 DEF BootInv, BootsTypes, McuTypes, Systems, Configs, Media
  <2>6. MediumInv' /\ ConfigInv' /\ EnvInv'
    BY <1>1, <1>3, <1>7, <2>2
    DEF BootInv, MediumInv, ConfigInv, Configured, EnvInv, Follows, Ended, Deciding
  <2>7. Remembered'
    BY <1>1, <1>3, <1>4, <1>5, <1>7, <2>2
    DEF Remembered, Boots!LocateEmuNand, Boots!System, Boots!SysNand
  <2>8. FollowInv' /\ ChosenInv'
    BY <1>1, <1>3, <1>4, <1>5, <1>7, <2>2, <2>3, <2>4, <2>7
    DEF FollowInv, Follows, Ended, Deciding, ChosenInv
  <2> QED
    BY <2>5, <2>6, <2>8 DEF BootInv
<1>8. CASE ~(forced /\ (bootenv = 7 \/ Boots!ValidTlnc \/ (p = {} /\ ~boot.bootConfig.noForce)))
  <2>1. boot' = [boot EXCEPT !.pressed = p, !.pc = "pin"]
    BY <1>8 DEF Boots!ReadButtons, Boots!Pressed
  <2>2. /\ boot' \in BootTypes /\ boot'.pc = "pin" /\ boot'.nand = boot.nand
        /\ boot'.index = boot.index
        /\ boot'.medium = boot.medium /\ boot'.create = boot.create
        /\ boot'.bootConfig = boot.bootConfig
        /\ boot'.oldBootConfig = boot.oldBootConfig /\ boot'.bootType = boot.bootType
        /\ boot'.pressed = p /\ boot'.noForce = boot.noForce
    BY <1>1, <2>1 DEF BootTypes, Places
  <2>3. BootsTypes'
    BY <1>1, <1>3, <2>2 DEF BootInv, BootsTypes, McuTypes, Systems, Configs, Media
  <2>4. MediumInv' /\ ConfigInv'
    BY <1>1, <1>3, <2>2 DEF BootInv, MediumInv, ConfigInv, Configured, Follows, Ended, Deciding
  <2>5. EnvInv'
    <3>1. bootenv' = bootenv \/ (bootenv = 1 /\ bootenv' \in {1, 3})
      BY <1>8 DEF Boots!ReadButtons, Boots!ConfigureAutoboot
    <3>2. bootenv = 1 => origin.how \notin {"cold", "launch", "agb"}
      BY <1>1, <1>5 DEF BootInv, EnvInv
    <3> QED
      BY <1>1, <1>3, <3>1, <3>2 DEF BootInv, EnvInv
  <2>6. Follows' => Remembered'
    BY <1>1, <1>3, <1>4, <2>2
    DEF Follows, Remembered, Boots!LocateEmuNand, Boots!System, Boots!SysNand
  <2>7. FollowInv'
    BY <1>1, <1>3, <1>4, <2>2, <2>6 DEF FollowInv, Follows, Ended, Deciding
  <2>8. ChosenInv'
    BY <1>1, <1>2, <1>3, <1>4, <1>5, <1>8, <2>2 DEF Deciding, ChosenInv, Remembered
  <2> QED
    BY <2>3, <2>4, <2>5, <2>7, <2>8 DEF BootInv
<1> QED
  BY <1>6, <1>7, <1>8

\* The menu opens for a configuration to be made, or for buttons.
LEMMA VerifyPinBoots ==
  ASSUME Boots!BootAssumption, BootInv, NEW p \in Pads, Boots!VerifyPin(p)
  PROVE  BootInv'
<1>1. /\ boot.pc = "pin" /\ boot \in BootTypes /\ origin \in Origins
      /\ UNCHANGED <<Boots!persistent, running>>
  BY DEF BootInv, BootsTypes, Boots!VerifyPin
<1>2. PICK exists \in BOOLEAN, later \in Pads :
        /\ boot' = [boot EXCEPT !.pressed = later, !.pinExists = exists,
                                !.pc = IF Boots!WantsMenu(later) THEN "menu" ELSE "safeMode"]
        /\ Boots!Seen(later)
  <2>1. boot.pressed \in Pads
    BY <1>1 DEF BootTypes
  <2> QED
    BY <2>1 DEF Boots!VerifyPin, Boots!Pressed
<1>3. /\ boot' \in BootTypes /\ boot'.pressed = later
      /\ boot'.pc = IF Boots!WantsMenu(later) THEN "menu" ELSE "safeMode"
      /\ boot'.nand = boot.nand /\ boot'.index = boot.index /\ boot'.medium = boot.medium
      /\ boot'.create = boot.create
      /\ boot'.bootConfig = boot.bootConfig /\ boot'.oldBootConfig = boot.oldBootConfig
      /\ boot'.bootType = boot.bootType /\ boot'.noForce = boot.noForce
  BY <1>1, <1>2 DEF BootTypes, Places
<1>4. /\ origin' \in Origins /\ origin'.how = origin.how /\ origin'.agb = origin.agb
      /\ origin'.quiet = (origin.quiet /\ later = {})
  BY <1>1, <1>2 DEF Boots!Seen, Origins
<1>5. boot'.pc \in {"menu", "safeMode"} /\ (boot.create \/ later # {} \/ boot'.pc = "safeMode")
      /\ (boot'.pc = "safeMode" => ~boot.create)
  BY <1>3 DEF Boots!WantsMenu
<1>6. BootsTypes'
  BY <1>1, <1>3, <1>4
  DEF BootInv, BootsTypes, Boots!persistent, McuTypes, Systems, Configs, Media
<1>7. MediumInv' /\ ConfigInv' /\ EnvInv'
  BY <1>1, <1>3, <1>4, <1>5
  DEF BootInv, MediumInv, ConfigInv, Configured, EnvInv, Follows, Ended, Deciding,
      Boots!persistent
<1>8. Follows' => Follows /\ Remembered'
  BY <1>1, <1>3, <1>4
  DEF BootInv, FollowInv, Follows, Ended, Remembered, Boots!LocateEmuNand, Boots!System,
      Boots!SysNand, Boots!persistent
<1>9. FollowInv' /\ ChosenInv'
  BY <1>1, <1>3, <1>4, <1>5, <1>8
  DEF BootInv, FollowInv, Follows, Ended, Deciding, ChosenInv
<1> QED
  BY <1>6, <1>7, <1>9 DEF BootInv

\* A payload ends the boot; otherwise the buttons may be others now.
LEMMA PayloadsBoots ==
  ASSUME Boots!BootAssumption, BootInv, NEW p \in Pads, NEW q \in Pads, NEW found \in BOOLEAN,
         Boots!Payloads(p, q, found)
  PROVE  BootInv'
<1>1. /\ boot.pc = "payloads" /\ boot \in BootTypes /\ origin \in Origins
      /\ UNCHANGED <<Boots!persistent, running>> /\ Boots!Seen(p \cup q)
  BY DEF BootInv, BootsTypes, Boots!Payloads
<1>2. PICK again \in BOOLEAN, later \in {p, q}, pc \in {"payload", "safeMode"} :
        /\ boot' = [boot EXCEPT !.pressed = later, !.pc = pc, !.again = again]
        /\ pc = "safeMode" => later = q
  <2>1. boot.again \in BOOLEAN /\ boot = [boot EXCEPT !.again = boot.again]
    BY <1>1 DEF BootTypes
  <2>2. CASE found /\ Boots!PayloadCombo(p)
    <3>1. boot' = [boot EXCEPT !.pressed = p, !.pc = "payload"]
      BY <2>2 DEF Boots!Payloads, Boots!Pressed
    <3>2. boot' = [boot EXCEPT !.pressed = p, !.pc = "payload", !.again = boot.again]
      BY <1>1, <3>1 DEF BootTypes
    <3> QED
      BY <2>1, <3>2
  <2>3. CASE ~(found /\ Boots!PayloadCombo(p))
    BY <2>3 DEF Boots!Payloads, Boots!Pressed
  <2> QED
    BY <2>2, <2>3
<1>3. /\ boot' \in BootTypes /\ boot'.pressed = later /\ boot'.pc = pc
      /\ boot'.nand = boot.nand /\ boot'.index = boot.index /\ boot'.medium = boot.medium
      /\ boot'.create = boot.create
      /\ boot'.bootConfig = boot.bootConfig /\ boot'.oldBootConfig = boot.oldBootConfig
      /\ boot'.bootType = boot.bootType /\ boot'.noForce = boot.noForce
  BY <1>1, <1>2 DEF BootTypes, Places
<1>4. /\ origin' \in Origins /\ origin'.how = origin.how /\ origin'.agb = origin.agb
      /\ origin'.quiet => origin.quiet /\ later = {}
  BY <1>1, <1>2 DEF Boots!Seen, Origins
<1>5. BootsTypes'
  BY <1>1, <1>3, <1>4
  DEF BootInv, BootsTypes, Boots!persistent, McuTypes, Systems, Configs, Media
<1>6. MediumInv' /\ ConfigInv' /\ EnvInv'
  BY <1>1, <1>2, <1>3, <1>4
  DEF BootInv, MediumInv, ConfigInv, Configured, EnvInv, Follows, Ended, Deciding,
      Boots!persistent
<1>7. Follows' => Follows /\ Remembered'
  BY <1>1, <1>2, <1>3, <1>4
  DEF BootInv, FollowInv, Follows, Ended, Remembered, Boots!LocateEmuNand, Boots!System,
      Boots!SysNand, Boots!persistent
<1>8. FollowInv' /\ ChosenInv'
  BY <1>1, <1>2, <1>3, <1>4, <1>7
  DEF BootInv, FollowInv, Follows, Ended, Deciding, ChosenInv
<1> QED
  BY <1>5, <1>6, <1>8 DEF BootInv

\* What main() chooses is one of the systems, and the NAND without the card.
LEMMA ChosenIsSystem ==
  ASSUME Boots!BootAssumption, NEW p, NEW o \in Options
  PROVE  /\ Boots!Chosen(p, o) \in Systems
         /\ ~Boots!isSdMode => Boots!Chosen(p, o) = Boots!SysNand
<1>1. o.defaultEmu \in 0..3
  BY DEF Boots!BootAssumption
<1>2. Boots!EmuIndex(p, o) \in 0..3
  BY <1>1 DEF Boots!EmuIndex
<1> QED
  BY <1>2 DEF Boots!Chosen, Systems, Boots!System, Boots!SysNand

\* What is chosen with no button is what the options say.
LEMMA ChooseBoots ==
  ASSUME Boots!BootAssumption, BootInv, Boots!Choose
  PROVE  BootInv'
<1>1. /\ boot.pc = "choose" /\ boot \in BootTypes /\ boot.options \in Options
      /\ UNCHANGED <<mcu, ini, pinFile, sdInserted, version, running, origin>>
  BY DEF BootInv, BootsTypes, BootTypes, Boots!Choose
<1>2. PICK system \in Systems :
        /\ system = Boots!Chosen(boot.pressed, boot.options)
        /\ (~Boots!isSdMode => system = Boots!SysNand)
        /\ boot' = [boot EXCEPT !.nand = system.nand, !.index = system.index, !.pc = "boot"]
  BY <1>1, ChosenIsSystem DEF Boots!Choose
<1>3. /\ boot' \in BootTypes /\ boot'.pc = "boot" /\ boot'.nand = system.nand
      /\ boot'.index = system.index
      /\ boot'.medium = boot.medium /\ boot'.create = boot.create
      /\ boot'.bootConfig = boot.bootConfig
      /\ boot'.oldBootConfig = boot.oldBootConfig /\ boot'.bootType = boot.bootType
      /\ boot'.pressed = boot.pressed /\ boot'.options = boot.options
      /\ boot'.noForce = boot.noForce
  BY <1>1, <1>2 DEF BootTypes, Places, Systems
<1>4. Boots!System(boot'.nand, boot'.index) = system
  BY <1>3 DEF Boots!System, Systems
<1>5. BootsTypes'
  BY <1>1, <1>3 DEF BootInv, BootsTypes, McuTypes, Systems, Configs, Media, Origins
<1>6. MediumInv' /\ ConfigInv' /\ EnvInv'
  BY <1>1, <1>3
  DEF BootInv, MediumInv, ConfigInv, Configured, EnvInv, Follows, Ended, Deciding
<1>7. Follows' => Follows /\ Remembered'
  BY <1>1, <1>3
  DEF BootInv, FollowInv, Follows, Ended, Remembered, Boots!LocateEmuNand, Boots!System,
      Boots!SysNand
<1>8. FollowInv'
  BY <1>1, <1>3, <1>7 DEF BootInv, FollowInv, Follows, Ended, Deciding
<1>9. /\ (Boots!isSdMode' <=> Boots!isSdMode)
      /\ Boots!Chosen({}, boot.options)' = Boots!Chosen({}, boot.options)
  BY <1>3 DEF Boots!isSdMode, Boots!Chosen, Boots!System, Boots!SysNand, Boots!EmuIndex
<1>10. ChosenInv'
  BY <1>1, <1>2, <1>3, <1>4, <1>9 DEF BootInv, FollowInv, Deciding, ChosenInv
<1> QED
  BY <1>5, <1>6, <1>8, <1>10 DEF BootInv

\* An EmuNAND that was found is found again, and without the card the NAND is.
LEMMA LocatedStays ==
  ASSUME NEW s \in Systems
  PROVE  /\ Boots!LocateEmuNand(s) \in Systems
         /\ Boots!LocateEmuNand(Boots!LocateEmuNand(s)) = Boots!LocateEmuNand(s)
         /\ Boots!LocateEmuNand(Boots!SysNand) = Boots!SysNand
BY DEF Boots!LocateEmuNand, Systems, Boots!System, Boots!SysNand

\* The system that is started is the one that is written to the MCU, and it
\* is found again as long as the card stays.
LEMMA LaunchBoots ==
  ASSUME Boots!BootAssumption, BootInv, Boots!Launch
  PROVE  BootInv'
<1>1. /\ boot.pc = "boot" /\ boot \in BootTypes
      /\ Boots!System(boot.nand, boot.index) \in Systems
      /\ origin \in Origins /\ mcu \in McuTypes /\ version \in Versions /\ running \in Systems
      /\ ~boot.create /\ mcu.version = version /\ boot.oldBootConfig = mcu.bootCfg
      /\ ini[boot.medium] # None /\ boot.medium \in Media /\ (boot.medium = "sd" => sdInserted)
      /\ UNCHANGED <<ini, pinFile, sdInserted, bootenv, deliverArg, version>>
      /\ boot.bootType = "FIRMLAUNCH" <=> origin.how = "firmlaunch"
  BY DEF BootInv, BootsTypes, BootTypes, Boots!System, Systems, ConfigInv, Configured,
         MediumInv, FollowInv, Ended, Boots!Launch
<1>2. PICK system \in Systems :
        /\ system = Boots!LocateEmuNand(Boots!System(boot.nand, boot.index))
        /\ Boots!LocateEmuNand(system) = system
        /\ boot.bootType # "FIRMLAUNCH" => Boots!WriteBootConfig(system)
        /\ boot.bootType = "FIRMLAUNCH" => UNCHANGED mcu
        /\ running' = system
        /\ boot' = [boot EXCEPT !.nand = system.nand, !.index = system.index, !.pc = "launched"]
  BY <1>1, LocatedStays DEF Boots!Launch
<1>3. /\ boot' \in BootTypes /\ boot'.pc = "launched" /\ boot'.nand = system.nand
      /\ boot'.index = system.index /\ boot'.medium = boot.medium /\ boot'.create = boot.create
      /\ boot'.bootType = boot.bootType
  BY <1>1, <1>2 DEF BootTypes, Places, Systems
<1>4. /\ origin' \in Origins /\ origin'.how = origin.how
      /\ origin'.agb = IF origin.how = "firmlaunch" THEN origin.agb ELSE boot.noForce
  BY <1>1 DEF Boots!Launch, Origins, BootTypes
<1>5. /\ mcu' \in McuTypes /\ mcu' # None /\ mcu'.version = version
      /\ mcu'.bootCfg.nand = system.nand /\ mcu'.bootCfg.index = system.index
      /\ mcu'.bootCfg.noForce = origin'.agb
  <2>1. CASE boot.bootType = "FIRMLAUNCH"
    <3>1. Follows /\ Remembered /\ Boots!System(boot.nand, boot.index) = running
      BY <1>1, <2>1 DEF BootInv, FollowInv, Follows, Ended, ChosenInv
    <3>2. system = running /\ mcu' = mcu
      BY <1>2, <2>1, <3>1 DEF Remembered
    <3> QED
      BY <1>1, <1>4, <2>1, <3>1, <3>2 DEF Remembered
  <2>2. CASE boot.bootType # "FIRMLAUNCH"
    <3>1. PICK config \in Configs :
            /\ config = [nand |-> system.nand, index |-> system.index, noForce |-> boot.noForce,
                         ntrCard |-> boot.bootType = "NTR"]
            /\ mcu' = IF config # mcu.bootCfg THEN [version |-> version, bootCfg |-> config]
                      ELSE mcu
      BY <1>1, <1>2, <2>2 DEF Boots!WriteBootConfig, Configs, Systems, BootTypes
    <3>2. mcu' \in McuTypes /\ mcu'.version = version /\ mcu'.bootCfg = config
      BY <1>1, <3>1 DEF McuTypes
    <3>3. mcu' # None
      BY <3>2 DEF McuTypes, Configs, Boots!BootAssumption
    <3> QED
      BY <1>1, <1>4, <2>2, <3>1, <3>2, <3>3
  <2> QED
    BY <2>1, <2>2
<1>6. boot.medium = "nand" => system = Boots!SysNand
  <2>1. boot.medium = "nand" => Boots!System(boot.nand, boot.index) = Boots!SysNand
    BY <1>1 DEF BootInv, ChosenInv, Boots!isSdMode
  <2> QED
    BY <1>1, <1>2, <2>1, LocatedStays
<1>7. BootsTypes'
  BY <1>1, <1>2, <1>3, <1>4, <1>5 DEF BootInv, BootsTypes
<1>8. MediumInv' /\ ConfigInv' /\ EnvInv'
  BY <1>1, <1>3, <1>4, <1>5
  DEF MediumInv, ConfigInv, Configured, EnvInv, Follows, Ended, Deciding
<1>9. Remembered'
  BY <1>1, <1>2, <1>3, <1>5, <1>6
  DEF Remembered, Boots!LocateEmuNand, Boots!System, Boots!SysNand
<1>10. FollowInv' /\ ChosenInv'
  BY <1>1, <1>3, <1>4, <1>9 DEF FollowInv, Follows, Ended, Deciding, ChosenInv
<1> QED
  BY <1>7, <1>8, <1>10 DEF BootInv

\* The card is only changed while the console is off.
LEMMA InsertOrRemoveSdBoots ==
  ASSUME BootInv, Boots!InsertOrRemoveSd
  PROVE  BootInv'
<1>1. boot.pc = "off" /\ sdInserted' \in BOOLEAN
      /\ UNCHANGED <<mcu, ini, pinFile, bootenv, deliverArg, version, boot, running, origin>>
  BY DEF BootInv, BootsTypes, Boots!InsertOrRemoveSd
<1>2. BootsTypes'
  BY <1>1
  DEF BootInv, BootsTypes, McuTypes, Systems, Configs, Media, Origins, BootTypes, Places
<1>3. MediumInv' /\ ConfigInv' /\ EnvInv' /\ FollowInv' /\ ChosenInv'
  BY <1>1
  DEF MediumInv, ConfigInv, Configured, EnvInv, FollowInv, Follows, Ended, Deciding, ChosenInv
<1> QED
  BY <1>2, <1>3 DEF BootInv

\* Another version is put in place, with the console off.
LEMMA UpdateBoots ==
  ASSUME BootInv, NEW v \in Versions, Boots!Update(v)
  PROVE  BootInv'
<1>1. boot.pc = "off" /\ version' = v
      /\ UNCHANGED <<mcu, ini, pinFile, sdInserted, bootenv, deliverArg, boot, running, origin>>
  BY DEF Boots!Update
<1>2. BootsTypes'
  BY <1>1
  DEF BootInv, BootsTypes, McuTypes, Systems, Configs, Media, Origins, BootTypes, Places
<1>3. MediumInv' /\ ConfigInv' /\ EnvInv' /\ FollowInv' /\ ChosenInv'
  BY <1>1
  DEF MediumInv, ConfigInv, Configured, EnvInv, FollowInv, Follows, Ended, Deciding, ChosenInv
<1> QED
  BY <1>2, <1>3 DEF BootInv

\* A boot that follows a system has its medium, and what the system left.
LEMMA NextBoots ==
  ASSUME Boots!BootAssumption, BootInv, boot.pc = "launched",
         NEW t \in {"B9S", "FIRM0", "NTR", "FIRMLAUNCH"},
         NEW f \in {"NATIVE", "TWL", "AGB", "SAFE", "SYSUPDATER"},
         boot' = Boots!Boot(t, boot.medium, f),
         UNCHANGED <<mcu, ini, sdInserted, version, running>>,
         origin' \in Origins, origin'.agb = origin.agb, origin'.how # "cold",
         t = "FIRMLAUNCH" <=> origin'.how = "firmlaunch",
         origin'.how = "reboot" => origin'.quiet, EnvInv'
  PROVE  BootInv'
<1>1. boot.medium \in Media /\ (boot.medium = "sd" => sdInserted) /\ Remembered
  BY DEF BootInv, MediumInv, FollowInv, Ended
<1>2. /\ boot' \in BootTypes /\ boot'.pc = "mount" /\ boot'.bootType = t
      /\ boot'.medium = boot.medium
      /\ ~boot'.create /\ boot'.nand = "sys" /\ boot'.index = 0 /\ ~boot'.noForce
      /\ boot'.pressed = {}
  BY <1>1, BootIsBoot DEF Boots!Boot
<1>3. BootsTypes'
  BY <1>2 DEF BootInv, BootsTypes, McuTypes, Systems, Configs, Media
<1>4. MediumInv' /\ ConfigInv'
  BY <1>1, <1>2 DEF MediumInv, ConfigInv, Configured, Follows, Ended, Deciding
<1>5. Remembered'
  BY <1>1, <1>2 DEF Remembered, Boots!LocateEmuNand, Boots!System, Boots!SysNand
<1>6. FollowInv' /\ ChosenInv'
  BY <1>2, <1>5 DEF FollowInv, Follows, Ended, Deciding, ChosenInv
<1> QED
  BY <1>3, <1>4, <1>6 DEF BootInv

\* A reboot leaves in the register what the next boot follows.
LEMMA McuRebootBoots ==
  ASSUME Boots!BootAssumption, BootInv,
         NEW ps \in {1, 3, 7} \X {"none", "launch", "empty", "full"}, Boots!McuReboot(ps)
  PROVE  BootInv'
<1>1. /\ boot.pc = "launched" /\ boot' = Boots!Boot("B9S", boot.medium, "NATIVE")
      /\ bootenv' = ps[1]
      /\ UNCHANGED <<mcu, ini, sdInserted, version, running>>
      /\ origin' = [how |-> IF ps[1] = 7 THEN "agb"
                            ELSE IF ps[2] = "launch" THEN "launch" ELSE "reboot",
                    quiet |-> TRUE, agb |-> origin.agb]
  BY DEF Boots!McuReboot
<1>2. /\ origin' \in Origins /\ origin'.agb = origin.agb /\ origin'.quiet
      /\ origin'.how \in {"agb", "launch", "reboot"}
      /\ origin'.how = "agb" <=> ps[1] = 7
      /\ origin'.how = "launch" => ps[2] = "launch"
  BY <1>1 DEF BootInv, BootsTypes, Origins
<1>3. ps[1] \in {1, 3, 7} /\ (ps[2] = "launch" => ps[1] = 3)
  BY DEF Boots!McuReboot, Boots!RebootParams
<1>4. EnvInv'
  BY <1>1, <1>2, <1>3 DEF EnvInv
<1> QED
  BY <1>1, <1>2, <1>4, NextBoots

\* A firmlaunch does too, by how it starts the program.
LEMMA FirmlaunchBoots ==
  ASSUME Boots!BootAssumption, BootInv,
         NEW f \in {"NATIVE", "TWL", "AGB", "SAFE", "SYSUPDATER"},
         Boots!Firmlaunch(f)
  PROVE  BootInv'
<1>1. /\ boot.pc = "launched" /\ boot' = Boots!Boot("FIRMLAUNCH", boot.medium, f)
      /\ UNCHANGED <<mcu, ini, sdInserted, version, running>>
  BY DEF Boots!Firmlaunch, Boots!persistent
<1>2. /\ origin' \in Origins /\ origin'.agb = origin.agb /\ origin'.how = "firmlaunch"
  BY DEF BootInv, BootsTypes, Origins, Boots!Firmlaunch
<1>3. EnvInv'
  BY <1>2 DEF EnvInv
<1> QED
  BY <1>1, <1>2, <1>3, NextBoots

\* The menu makes the configuration, on the medium of the boot.
LEMMA ConfigMenuBoots ==
  ASSUME Boots!BootAssumption, BootInv, NEW o \in Options, NEW p \in Pads,
         Boots!ConfigMenu(o, p)
  PROVE  BootInv'
<1>1. /\ boot.pc = "menu" /\ boot \in BootTypes /\ boot.medium \in Media /\ origin \in Origins
      /\ ini \in [Media -> Options \cup {None}] /\ None \notin Options
      /\ UNCHANGED <<mcu, sdInserted, bootenv, deliverArg, version, running>>
      /\ boot' = [boot EXCEPT !.pressed = p, !.options = o, !.create = FALSE, !.pc = "safeMode"]
      /\ Boots!Seen(p)
  BY DEF BootInv, BootsTypes, MediumInv, Ended, Boots!ConfigMenu, Boots!Pressed,
         Boots!BootAssumption
<1>2. /\ boot' \in BootTypes /\ boot'.pc = "safeMode" /\ ~boot'.create /\ boot'.pressed = p
      /\ boot'.nand = boot.nand /\ boot'.index = boot.index /\ boot'.medium = boot.medium
      /\ boot'.bootConfig = boot.bootConfig /\ boot'.oldBootConfig = boot.oldBootConfig
      /\ boot'.bootType = boot.bootType /\ boot'.noForce = boot.noForce
  BY <1>1 DEF BootTypes, Places
<1>3. /\ origin' \in Origins /\ origin'.how = origin.how /\ origin'.agb = origin.agb
      /\ origin'.quiet => origin.quiet
  BY <1>1 DEF Boots!Seen, Origins
<1>4. ini' \in [Media -> Options \cup {None}] /\ ini'[boot.medium] # None
  <2>1. boot.create \/ ini[boot.medium] # None
    BY <1>1 DEF BootInv, ConfigInv, Configured, Deciding
  <2> QED
    BY <1>1, <2>1 DEF Boots!ConfigMenu
<1>5. BootsTypes'
  BY <1>1, <1>2, <1>3, <1>4 DEF BootInv, BootsTypes, McuTypes, Systems, Configs
<1>6. MediumInv' /\ ConfigInv' /\ EnvInv'
  BY <1>1, <1>2, <1>3, <1>4
  DEF BootInv, MediumInv, ConfigInv, Configured, EnvInv, Follows, Ended, Deciding
<1>7. Follows' => Remembered'
  BY <1>1, <1>2, <1>3, <1>4
  DEF BootInv, FollowInv, Follows, Ended, Remembered, Boots!LocateEmuNand, Boots!System,
      Boots!SysNand
<1>8. ~(origin.how = "reboot" /\ origin.quiet)
  BY <1>1 DEF BootInv, ChosenInv, Deciding
<1>9. FollowInv' /\ ChosenInv'
  BY <1>1, <1>2, <1>3, <1>7, <1>8
  DEF BootInv, FollowInv, Follows, Ended, Deciding, ChosenInv
<1> QED
  BY <1>5, <1>6, <1>9 DEF BootInv

\* A boot that stops says nothing of any system.
LEMMA EndsBoots ==
  ASSUME BootInv, NEW pc \in Ended, Boots!Goto(pc),
         UNCHANGED <<Boots!persistent, running, origin>>
  PROVE  BootInv'
<1>1. boot' \in BootTypes /\ boot'.pc = pc
  BY DEF BootInv, BootsTypes, BootTypes, Boots!Goto, Ended, Places
<1>2. BootsTypes'
  BY <1>1 DEF BootInv, BootsTypes, Boots!persistent, McuTypes, Systems, Configs, Media, Origins
<1>3. MediumInv' /\ ConfigInv' /\ EnvInv' /\ FollowInv' /\ ChosenInv'
  BY <1>1
  DEF MediumInv, ConfigInv, Configured, EnvInv, FollowInv, Follows, Ended, Deciding, ChosenInv
<1> QED
  BY <1>2, <1>3 DEF BootInv

\* The combination only counts on a cold boot.
LEMMA CheckSafeModeBoots ==
  ASSUME BootInv, Boots!CheckSafeMode
  PROVE  BootInv'
<1>1. /\ boot.pc = "safeMode" /\ boot \in BootTypes
      /\ UNCHANGED <<Boots!persistent, running, origin>>
  BY DEF BootInv, BootsTypes, Boots!CheckSafeMode
<1>2. PICK pc \in {"boot", "choose", "payloads"} :
        /\ boot' = [boot EXCEPT !.pc = pc]
        /\ pc = "boot" => bootenv = 0
  BY DEF Boots!CheckSafeMode
<1>3. /\ boot' \in BootTypes /\ boot'.pc = pc /\ boot'.create = boot.create
      /\ boot'.pressed = boot.pressed
      /\ boot'.nand = boot.nand /\ boot'.index = boot.index /\ boot'.medium = boot.medium
      /\ boot'.bootConfig = boot.bootConfig /\ boot'.oldBootConfig = boot.oldBootConfig
      /\ boot'.bootType = boot.bootType /\ boot'.noForce = boot.noForce
  BY <1>1, <1>2 DEF BootTypes, Places
<1>4. BootsTypes'
  BY <1>1, <1>3
  DEF BootInv, BootsTypes, Boots!persistent, McuTypes, Systems, Configs, Media, Origins
<1>5. MediumInv' /\ ConfigInv' /\ EnvInv'
  BY <1>1, <1>2, <1>3
  DEF BootInv, MediumInv, ConfigInv, Configured, EnvInv, Follows, Ended, Deciding,
      Boots!persistent
<1>6. Follows' => Follows /\ Remembered'
  BY <1>1, <1>2, <1>3
  DEF BootInv, FollowInv, Follows, Ended, Remembered, Boots!LocateEmuNand, Boots!System,
      Boots!SysNand, Boots!persistent
<1>7. pc = "boot" =>
        Boots!System(boot'.nand, boot'.index) = Boots!SysNand /\ origin.how = "cold"
  BY <1>1, <1>2, <1>3
  DEF BootInv, BootsTypes, Origins, EnvInv, FollowInv, Deciding, ChosenInv, Boots!System,
      Boots!SysNand
<1>8. FollowInv' /\ ChosenInv'
  BY <1>1, <1>2, <1>3, <1>6, <1>7
  DEF BootInv, FollowInv, Follows, Ended, Deciding, ChosenInv, Boots!persistent
<1> QED
  BY <1>4, <1>5, <1>8 DEF BootInv

\* A console that was never on.
LEMMA BootInit ==
  ASSUME Boots!BootAssumption, Boots!Init
  PROVE  BootInv
<1>1. boot = Boots!Off /\ boot \in BootTypes /\ boot.pc = "off"
  BY OffIsBoot DEF Boots!Init
<1>2. BootsTypes
  BY <1>1 DEF Boots!Init, BootsTypes, Media, Systems, Boots!System, Boots!SysNand, Origins
<1>3. MediumInv /\ ConfigInv /\ EnvInv /\ FollowInv /\ ChosenInv
  BY <1>1
  DEF MediumInv, ConfigInv, Configured, EnvInv, FollowInv, Follows, Ended, Deciding, ChosenInv
<1> QED
  BY <1>2, <1>3 DEF BootInv

\* One case for each action, and one for a step of something else.
LEMMA BootStep ==
  ASSUME Boots!BootAssumption, BootInv, [Boots!Next]_(Boots!vars)
  PROVE  BootInv'
<1>1. CASE \/ Boots!PowerOff \/ Boots!InsertOrRemoveSd \/ Boots!Mount \/ Boots!ReadConfig
           \/ Boots!FollowFirmlaunch
  BY <1>1, PowerOffBoots, InsertOrRemoveSdBoots, MountBoots, ReadConfigBoots,
     FollowFirmlaunchBoots
<1>2. CASE Boots!CheckSafeMode \/ Boots!Choose \/ Boots!Launch
  BY <1>2, CheckSafeModeBoots, ChooseBoots, LaunchBoots
<1>3. CASE Boots!MenuPayload \/ Boots!LaunchFails
  BY <1>3, EndsBoots DEF Boots!MenuPayload, Boots!LaunchFails, Ended
<1>4. CASE \E bootType \in {"B9S", "FIRM0", "NTR"} : Boots!PowerOn(bootType)
  BY <1>4, PowerOnBoots
<1>5. CASE \E params \in {1, 3, 7} \X {"none", "launch", "empty", "full"} :
             Boots!McuReboot(params)
  BY <1>5, McuRebootBoots
<1>6. CASE \E firm \in {"NATIVE", "TWL", "AGB", "SAFE", "SYSUPDATER"} : Boots!Firmlaunch(firm)
  BY <1>6, FirmlaunchBoots
<1>7. CASE \E v \in Versions : Boots!Update(v)
  BY <1>7, UpdateBoots
<1>8. CASE \E p \in Pads : Boots!ReadButtons(p) \/ Boots!VerifyPin(p)
  BY <1>8, ReadButtonsBoots, VerifyPinBoots
<1>9. CASE \E options \in Options, p \in Pads : Boots!ConfigMenu(options, p)
  BY <1>9, ConfigMenuBoots
<1>10. CASE \E p, q \in Pads, found \in BOOLEAN : Boots!Payloads(p, q, found)
  BY <1>10, PayloadsBoots
<1>11. CASE UNCHANGED Boots!vars
  <2>1. UNCHANGED <<mcu, ini, sdInserted, bootenv, version, boot, running, origin>>
    BY <1>11 DEF Boots!vars, Boots!persistent
  <2>2. BootsTypes' /\ MediumInv' /\ ConfigInv' /\ EnvInv'
    BY <2>1
    DEF BootInv, BootsTypes, McuTypes, Systems, Configs, Media, Origins, BootTypes, Places,
        MediumInv, ConfigInv, Configured, EnvInv, Follows, Ended, Deciding
  <2>3. FollowInv' /\ ChosenInv'
    BY <2>1
    DEF BootInv, FollowInv, Follows, Ended, Deciding, ChosenInv, Remembered,
        Boots!LocateEmuNand, Boots!System, Boots!SysNand, Boots!Chosen, Boots!EmuIndex,
        Boots!isSdMode
  <2> QED
    BY <2>2, <2>3 DEF BootInv
<1> QED
  BY <1>1, <1>2, <1>3, <1>4, <1>5, <1>6, <1>7, <1>8, <1>9, <1>10, <1>11 DEF Boots!Next

\* What the properties say of a step.
LEMMA StartsBoots ==
  ASSUME BootInv, [Boots!Next]_(Boots!vars)
  PROVE  [Boots!StartsAsExpected]_(Boots!vars)
<1>1. Boots!FollowFirmlaunch => ~boot.create
  BY DEF BootInv, FollowInv, Follows, Ended, Boots!FollowFirmlaunch
<1>2. ASSUME Boots!Launch
      PROVE  /\ origin.how = "firmlaunch" => running' = running
             /\ origin.how = "reboot" /\ origin.quiet =>
                  running' = IF origin.agb
                             THEN Boots!LocateEmuNand(Boots!Chosen({}, boot.options))
                             ELSE running
             /\ origin.how = "agb" \/ ~Boots!isSdMode => running' = Boots!SysNand
  <2>1. boot.pc = "boot" /\ running' = Boots!LocateEmuNand(Boots!System(boot.nand, boot.index))
    BY <1>2 DEF Boots!Launch
  <2>2. origin.how \in {"firmlaunch", "reboot"} => Boots!LocateEmuNand(running) = running
    BY <2>1 DEF BootInv, FollowInv, Follows, Ended, Remembered
  <2>3. Boots!LocateEmuNand(Boots!SysNand) = Boots!SysNand
    BY DEF Boots!LocateEmuNand, Boots!System, Boots!SysNand
  <2> QED
    BY <2>1, <2>2, <2>3 DEF BootInv, ChosenInv
<1> QED
  BY <1>1, <1>2 DEF Boots!StartsAsExpected

(***************************************************************************)
(* A boot that follows another one starts what StartsAsExpected says,      *)
(* whatever options, buttons, EmuNANDs and versions there are: it finds    *)
(* the configuration made, and the system that ran still named by the MCU. *)
(***************************************************************************)
THEOREM StartsTheExpectedSystem ==
  ASSUME Boots!BootAssumption
  PROVE  Boots!Spec => Boots!BootsAsExpected
<1>1. Boots!Init => BootInv
  BY BootInit
<1>2. BootInv /\ [Boots!Next]_(Boots!vars) => BootInv'
  BY BootStep
<1>3. BootInv /\ [Boots!Next]_(Boots!vars) => [Boots!StartsAsExpected]_(Boots!vars)
  BY StartsBoots
<1> QED
  BY <1>1, <1>2, <1>3, PTL DEF Boots!Spec, Boots!BootsAsExpected
-----------------------------------------------------------------------------
(* The screen of rosalina and the pauses it needs                          *)

CONSTANTS LateShell, Items, LeastRefCount
VARIABLES
  menuRefCount, framebufferCache, drawLock, menuShouldExit, preTerminationRequested,
  rosalinaOpen, rosalinaState, paused, app, thread, crashed, outOfTurn

\* A call of KernelSetState is left before another thread of rosalina runs.
Menu == INSTANCE RosalinaMenu WITH Preemptible <- FALSE, th <- thread

\* Where the threads of rosalina may be, and where they may go on to.
KernelPlaces == {"xor", "decide", "pause", "resume"}
Locking == {"entering", "allocate", "unlock", "leaving", "wait", "brightness", "reallocate"}
Filtering == {"filter", "apply", "filtered"}
ScreenPlaces ==
  Menu!Idle \cup Locking \cup Filtering \cup {"enter", "leave", "show", "dialog", "closed"}
ThreadTypes ==
  [at : ScreenPlaces \cup KernelPlaces, then : ScreenPlaces \cup {Menu!Nowhere},
   bits : SUBSET {"app", "gsp"}, after : ScreenPlaces \cup {Menu!Nowhere}]

DialogTypes ==
  /\ menuRefCount \in Int /\ menuRefCount <= 1
  /\ framebufferCache \in BOOLEAN
  /\ rosalinaState \subseteq {"app", "gsp"} /\ paused \subseteq {"app", "gsp"}
  /\ thread \in [Menu!Threads -> ThreadTypes]
  /\ drawLock \in [owner : Menu!Threads \cup {Menu!Nobody}, count : 0..1]
  /\ app \in {"user", "post"}
  /\ menuShouldExit \in BOOLEAN /\ rosalinaOpen \in BOOLEAN

\* Where t goes on to from place p, after menuEnter, menuLeave or the filters.
Enters == {"enter", "entering", "allocate"}
Leaves == {"leave", "leaving"}
GoesOn(t, p, then) ==
  /\ p \in ScreenPlaces
  /\ p \in Enters => then \in {"show", "dialog"}
  /\ p \in Leaves => then \in {"closed", "show", "receive", "run"}
  /\ p = "unlock" => then \in {"show", "dialog", "closed", "receive", "run"}
  /\ p \in Filtering => then \in {"loop", "run"}
  /\ t = "errdisp" =>
       /\ p \notin Filtering \cup {"show", "closed", "brightness", "reallocate"}
       /\ then \in {"dialog", "receive", Menu!Nowhere}
PlacesInv == \A t \in Menu!Threads : GoesOn(t, Menu!Place(t), thread[t].then)

\* The lock is with the thread whose place needs it.
LockInv ==
  /\ \A t \in Menu!Threads : Menu!Place(t) \in Locking <=> drawLock.owner = t
  /\ drawLock.count = IF drawLock.owner = Menu!Nobody THEN 0 ELSE 1

\* A call of KernelSetState is finished before another begins; in between,
\* what is left of it is in bits.
Before(t) == thread[t].at = "xor"
KernelInv ==
  /\ \A s, t \in Menu!InKernel : s = t
  /\ Menu!InKernel = {} => paused = rosalinaState
  /\ \A t \in Menu!InKernel :
       /\ thread[t].after \in ScreenPlaces \ Menu!Idle
       /\ Before(t) => paused = rosalinaState
       /\ \A v \in {"app", "gsp"} \ thread[t].bits : v \in paused <=> v \in rosalinaState
       /\ thread[t].at \in {"pause", "resume"} =>
            /\ thread[t].bits # {}
            /\ LET v == IF "gsp" \in thread[t].bits THEN "gsp" ELSE "app"
               IN thread[t].at = "pause" <=> v \in rosalinaState
  /\ app = "post" => "app" \in rosalinaState \ paused

\* Each bit has been inverted as often as the dialogs and filters say.
Shown == menuRefCount = 1
Inverted(t) == Menu!Place(t) \in {"apply", "brightness"}
Pending(v) == \E t \in Menu!Threads : Before(t) /\ v \in thread[t].bits
BitsInv ==
  /\ ("app" \in rosalinaState) <=> (Shown <=> ~Pending("app"))
  /\ ("gsp" \in rosalinaState) <=>
       ((Shown <=> ~Pending("gsp")) <=> (Inverted("menu") <=> Inverted("main")))

\* There is a cache while a dialog is shown, but for those who hold the lock
\* to make one; and somebody will call menuLeave.
Making == {"allocate", "brightness", "reallocate"}
WillLeave(p, then) ==
  \/ p \in Making \cup Leaves \cup {"show", "dialog", "wait"}
  \/ p = "unlock" /\ then \in {"show", "dialog"}
CacheInv ==
  /\ framebufferCache <=> (Shown /\ \A t \in Menu!Threads : Menu!Place(t) \notin Making)
  /\ \A t \in Menu!Threads : Menu!Place(t) \in Making => Shown
  /\ Shown => \E t \in Menu!Threads : WillLeave(Menu!Place(t), thread[t].then)

\* In turn, one thread draws and the count is of its dialog, which is not
\* left to be shown again.
TurnInv ==
  /\ \A s, t \in Menu!Drawing : s = t
  /\ Menu!Drawing = {} => menuRefCount = 0
  /\ \A t \in Menu!Drawing :
       menuRefCount = IF WillLeave(Menu!Place(t), thread[t].then) THEN 1 ELSE 0
  /\ \A t \in Menu!Threads : Menu!Place(t) \in Leaves => thread[t].then # "show"

DialogInv ==
  /\ crashed \in BOOLEAN /\ outOfTurn \in BOOLEAN
  /\ ~outOfTurn => ~crashed
  /\ ~crashed =>
       DialogTypes /\ PlacesInv /\ LockInv /\ KernelInv /\ BitsInv /\ CacheInv /\
       (~outOfTurn => TurnInv)

\* A thread goes from one place to another, outside the kernel or into it,
\* while the others stay.
Moves(t, q, n) ==
  /\ thread' \in [Menu!Threads -> ThreadTypes]
  /\ \A s \in Menu!Threads \ {t} : thread'[s] = thread[s]
  /\ thread'[t].at = q /\ thread'[t].then = n
PlaceMoves(t, p, q, n) ==
  /\ Menu!Place(t) = p /\ Menu!Place(t)' = q /\ thread'[t].then = n
  /\ \A s \in Menu!Threads \ {t} :
       Menu!Place(s)' = Menu!Place(s) /\ thread'[s].then = thread[s].then

\* What Goto, Call, Return and Toggle do to the threads.
LEMMA GotoMoves ==
  ASSUME DialogTypes, NEW t \in Menu!Threads, NEW q \in ScreenPlaces, Menu!Goto(t, q)
  PROVE  Moves(t, q, thread[t].then)
BY DEF DialogTypes, Menu!Goto, Moves, ThreadTypes

LEMMA CallMoves ==
  ASSUME DialogTypes, NEW t \in Menu!Threads, NEW q \in ScreenPlaces, NEW n \in ScreenPlaces,
         Menu!Call(t, q, n)
  PROVE  Moves(t, q, n)
BY DEF DialogTypes, Menu!Call, Moves, ThreadTypes

LEMMA ReturnMoves ==
  ASSUME DialogTypes, NEW t \in Menu!Threads, thread[t].then \in ScreenPlaces, Menu!Return(t)
  PROVE  Moves(t, thread[t].then, Menu!Nowhere)
BY DEF DialogTypes, Menu!Return, Moves, ThreadTypes

LEMMA ToggleMoves ==
  ASSUME DialogTypes, NEW t \in Menu!Threads, NEW B \in SUBSET {"app", "gsp"},
         NEW q \in ScreenPlaces,
         Menu!Toggle(t, B, q)
  PROVE  Moves(t, "xor", thread[t].then) /\ thread'[t].bits = B /\ thread'[t].after = q
BY DEF DialogTypes, Menu!Toggle, Moves, ThreadTypes, KernelPlaces

\* A thread that is not in a call of KernelSetState only runs when none is.
LEMMA NoneInKernel ==
  ASSUME DialogInv, NEW t \in Menu!Threads, NEW p, Menu!At(t, p), p \notin KernelPlaces
  PROVE  /\ ~crashed /\ Menu!InKernel = {} /\ app = "user" /\ paused = rosalinaState
         /\ \A s \in Menu!Threads :
              thread[s].at \notin KernelPlaces /\ Menu!Place(s) = thread[s].at
         /\ \A v : ~Pending(v)
         /\ Menu!Place(t) = p
<1>1. ~crashed /\ Menu!InKernel \subseteq {t} /\ app = "user" /\ thread[t].at = p
  BY DEF Menu!At, Menu!Runs
<1>2. \A s \in Menu!Threads : s \in Menu!InKernel <=> thread[s].at \in KernelPlaces
  BY DEF Menu!InKernel, KernelPlaces
<1>3. Menu!InKernel = {}
  BY <1>1, <1>2 DEF Menu!InKernel
<1>4. paused = rosalinaState
  BY <1>1, <1>3 DEF DialogInv, KernelInv
<1> QED
  BY <1>1, <1>2, <1>3, <1>4 DEF Menu!Place, Pending, Before, KernelPlaces

\* A move outside the kernel leaves nobody there.
LEMMA QuietStep ==
  ASSUME DialogInv, NEW t \in Menu!Threads, NEW p \in ScreenPlaces, Menu!At(t, p),
         NEW q \in ScreenPlaces, NEW n, Moves(t, q, n), UNCHANGED Menu!kernel
  PROVE  /\ PlaceMoves(t, p, q, n) /\ KernelInv'
         /\ \A v : ~Pending(v) /\ ~Pending(v)'
<1>1. ScreenPlaces \cap KernelPlaces = {}
  BY DEF ScreenPlaces, KernelPlaces, Menu!Idle, Locking, Filtering
<1>2. /\ ~crashed /\ Menu!InKernel = {} /\ app = "user" /\ paused = rosalinaState
      /\ \A s \in Menu!Threads :
           thread[s].at \notin KernelPlaces /\ Menu!Place(s) = thread[s].at
      /\ \A v : ~Pending(v)
      /\ Menu!Place(t) = p
  BY <1>1, NoneInKernel
<1>3. \A s \in Menu!Threads : thread'[s].at \notin KernelPlaces
  BY <1>1, <1>2 DEF Moves
<1>4. /\ Menu!InKernel' = {}
      /\ \A s \in Menu!Threads : Menu!Place(s)' = thread'[s].at
  BY <1>3 DEF Menu!InKernel, KernelPlaces, Menu!Place
<1>5. PlaceMoves(t, p, q, n)
  BY <1>2, <1>4 DEF PlaceMoves, Moves
<1>6. KernelInv'
  BY <1>2, <1>4 DEF KernelInv, Menu!kernel
<1>7. \A v : ~Pending(v)'
  BY <1>3 DEF Pending, Before, KernelPlaces
<1> QED
  BY <1>2, <1>5, <1>6, <1>7

\* A call of KernelSetState leaves its thread alone in the kernel.
LEMMA ToggleStep ==
  ASSUME DialogInv, NEW t \in Menu!Threads, NEW p \in ScreenPlaces, Menu!At(t, p),
         NEW q \in ScreenPlaces \ Menu!Idle, NEW B \in SUBSET {"app", "gsp"},
         Menu!Toggle(t, B, q),
         UNCHANGED Menu!kernel
  PROVE  /\ thread' \in [Menu!Threads -> ThreadTypes]
         /\ thread'[t].at = "xor" /\ thread'[t].after = q
         /\ \A s \in Menu!Threads \ {t} : thread'[s].at \notin KernelPlaces
         /\ PlaceMoves(t, p, q, thread[t].then) /\ KernelInv'
         /\ \A v : ~Pending(v) /\ (Pending(v)' <=> v \in B)
<1>1. ScreenPlaces \cap KernelPlaces = {}
  BY DEF ScreenPlaces, KernelPlaces, Menu!Idle, Locking, Filtering
<1>2. /\ ~crashed /\ Menu!InKernel = {} /\ app = "user" /\ paused = rosalinaState
      /\ \A s \in Menu!Threads :
           thread[s].at \notin KernelPlaces /\ Menu!Place(s) = thread[s].at
      /\ \A v : ~Pending(v)
      /\ Menu!Place(t) = p
  BY <1>1, NoneInKernel
<1>3. Moves(t, "xor", thread[t].then) /\ thread'[t].bits = B /\ thread'[t].after = q
  BY <1>2, ToggleMoves, q \in ScreenPlaces DEF DialogInv
<1>4. \A s \in Menu!Threads \ {t} : thread'[s].at \notin KernelPlaces
  BY <1>2, <1>3 DEF Moves
<1>5. Menu!InKernel' = {t}
  BY <1>3, <1>4 DEF Menu!InKernel, KernelPlaces, Moves
<1>6. Menu!Place(t)' = q /\ \A s \in Menu!Threads \ {t} : Menu!Place(s)' = thread'[s].at
  BY <1>3, <1>5 DEF Menu!Place
<1>7. PlaceMoves(t, p, q, thread[t].then)
  BY <1>2, <1>3, <1>6 DEF PlaceMoves, Moves
<1>8. KernelInv'
  BY <1>2, <1>3, <1>5 DEF KernelInv, Menu!kernel, Before, Moves
<1>9. \A v : Pending(v)' <=> v \in B
  BY <1>3, <1>4 DEF Pending, Before, KernelPlaces, Moves
<1> QED
  BY <1>2, <1>3, <1>4, <1>7, <1>8, <1>9 DEF Moves

\* What a move leaves true of the places, the lock, the bits, the cache and
\* the turns.
LEMMA PlacesKept ==
  ASSUME PlacesInv, NEW t \in Menu!Threads, NEW p, NEW q, NEW n, PlaceMoves(t, p, q, n),
         GoesOn(t, q, n)
  PROVE  PlacesInv'
BY DEF PlacesInv, PlaceMoves

LEMMA LockKept ==
  ASSUME LockInv, NEW t \in Menu!Threads, NEW p, NEW q, NEW n, PlaceMoves(t, p, q, n),
         p \in Locking <=> q \in Locking, UNCHANGED drawLock
  PROVE  LockInv'
BY DEF LockInv, PlaceMoves

LEMMA LockTaken ==
  ASSUME LockInv, DialogTypes, NEW t \in Menu!Threads, NEW p, NEW q, NEW n,
         PlaceMoves(t, p, q, n),
         p \notin Locking, q \in Locking, Menu!Draw_Lock(t)
  PROVE  LockInv' /\ drawLock' = [owner |-> t, count |-> 1]
<1>1. drawLock.owner = Menu!Nobody /\ drawLock.count = 0
  BY DEF LockInv, Menu!Draw_Lock, PlaceMoves
<1>2. drawLock' = [owner |-> t, count |-> 1]
  BY <1>1 DEF Menu!Draw_Lock
<1>3. t # Menu!Nobody /\ \A s \in Menu!Threads \ {t} : Menu!Place(s) \notin Locking
  BY <1>1 DEF LockInv, Menu!Threads, Menu!Nobody
<1> QED
  BY <1>2, <1>3 DEF LockInv, PlaceMoves

LEMMA LockGiven ==
  ASSUME LockInv, DialogTypes, NEW t \in Menu!Threads, NEW p, NEW q, NEW n,
         PlaceMoves(t, p, q, n),
         p \in Locking, q \notin Locking, Menu!Draw_Unlock(t)
  PROVE  LockInv' /\ drawLock' = [owner |-> Menu!Nobody, count |-> 0]
<1>1. drawLock.owner = t /\ t # Menu!Nobody /\ Menu!Nobody \notin Menu!Threads
  BY DEF LockInv, PlaceMoves, Menu!Threads, Menu!Nobody
<1>2. drawLock' = [owner |-> Menu!Nobody, count |-> 0]
  BY <1>1 DEF Menu!Draw_Unlock, LockInv
<1>3. \A s \in Menu!Threads \ {t} : Menu!Place(s) \notin Locking
  BY <1>1 DEF LockInv
<1> QED
  BY <1>1, <1>2, <1>3 DEF LockInv, PlaceMoves

LEMMA BitsKept ==
  ASSUME BitsInv, NEW t \in Menu!Threads, NEW p, NEW q, NEW n, PlaceMoves(t, p, q, n),
         p \in {"apply", "brightness"} <=> q \in {"apply", "brightness"},
         \A v : ~Pending(v) /\ ~Pending(v)', Shown' <=> Shown, UNCHANGED rosalinaState
  PROVE  BitsInv'
<1>1. \A s \in Menu!Threads : Inverted(s)' <=> Inverted(s)
  BY DEF PlaceMoves, Inverted
<1>2. "menu" \in Menu!Threads /\ "main" \in Menu!Threads
  BY DEF Menu!Threads
<1> QED
  BY <1>1, <1>2 DEF BitsInv

LEMMA CacheKept ==
  ASSUME CacheInv, NEW t \in Menu!Threads, NEW p, NEW q, NEW n, PlaceMoves(t, p, q, n),
         p \notin Making, q \notin Making, WillLeave(p, thread[t].then) => WillLeave(q, n),
         UNCHANGED Menu!screen
  PROVE  CacheInv'
<1>1. Shown' <=> Shown
  BY DEF Shown, Menu!screen
<1>2. \A s \in Menu!Threads : Menu!Place(s)' \in Making <=> Menu!Place(s) \in Making
  BY DEF PlaceMoves
<1>3. \A s \in Menu!Threads :
         WillLeave(Menu!Place(s), thread[s].then) => WillLeave(Menu!Place(s), thread[s].then)'
  BY DEF PlaceMoves, WillLeave
<1> QED
  BY <1>1, <1>2, <1>3 DEF CacheInv, Menu!screen

LEMMA TurnKept ==
  ASSUME TurnInv, NEW t \in Menu!Threads, NEW p, NEW q, NEW n, PlaceMoves(t, p, q, n),
         p \notin Menu!Idle, WillLeave(p, thread[t].then) <=> WillLeave(q, n),
         q \in Menu!Idle => ~WillLeave(q, n), UNCHANGED menuRefCount,
         q \in Leaves => n # "show"
  PROVE  TurnInv'
<1>1. t \in Menu!Drawing /\ \A s \in Menu!Threads \ {t} : s \notin Menu!Drawing
  BY DEF TurnInv, Menu!Drawing, PlaceMoves
<1>2. \A s \in Menu!Threads \ {t} : s \notin Menu!Drawing'
  BY <1>1 DEF PlaceMoves, Menu!Drawing
<1>3. menuRefCount = IF WillLeave(q, n) THEN 1 ELSE 0
  BY <1>1 DEF TurnInv, PlaceMoves
<1>4. t \in Menu!Drawing' => q \notin Menu!Idle
  BY DEF Menu!Drawing, PlaceMoves
<1>5. Menu!Drawing' \subseteq {t} /\ (Menu!Drawing' = {} => q \in Menu!Idle)
  BY <1>2 DEF Menu!Drawing, PlaceMoves
<1>6. WillLeave(Menu!Place(t), thread[t].then)' <=> WillLeave(q, n)
  BY DEF PlaceMoves, WillLeave
<1>7. \A s \in Menu!Threads : Menu!Place(s)' \in Leaves => thread'[s].then # "show"
  BY DEF TurnInv, PlaceMoves
<1> QED
  BY <1>3, <1>5, <1>6, <1>7 DEF TurnInv

\* A dialog begins in turn when nobody draws.
LEMMA TurnBegins ==
  ASSUME TurnInv, NEW t \in Menu!Threads, NEW p, NEW q, NEW n, PlaceMoves(t, p, q, n),
         Menu!Drawing \ {t} = {}, p \in Menu!Idle, q \notin Menu!Idle, ~WillLeave(q, n),
         UNCHANGED menuRefCount,
         q \in Leaves => n # "show"
  PROVE  TurnInv'
<1>1. Menu!Drawing = {} /\ menuRefCount = 0
  BY DEF TurnInv, Menu!Drawing, PlaceMoves
<1>2. Menu!Drawing' \subseteq {t}
  BY <1>1 DEF PlaceMoves, Menu!Drawing
<1>3. Menu!Drawing' # {}
  BY DEF PlaceMoves, Menu!Drawing
<1>4. WillLeave(Menu!Place(t), thread[t].then)' <=> WillLeave(q, n)
  BY DEF PlaceMoves, WillLeave
<1>5. \A s \in Menu!Threads : Menu!Place(s)' \in Leaves => thread'[s].then # "show"
  BY DEF TurnInv, PlaceMoves
<1> QED
  BY <1>1, <1>2, <1>3, <1>4, <1>5 DEF TurnInv

\* A thread that is idle stays so.
LEMMA TurnIdle ==
  ASSUME TurnInv, NEW t \in Menu!Threads, NEW p, NEW q, NEW n, PlaceMoves(t, p, q, n),
         p \in Menu!Idle, q \in Menu!Idle, UNCHANGED menuRefCount,
         q \in Leaves => n # "show"
  PROVE  TurnInv'
<1>1. Menu!Drawing' = Menu!Drawing /\ t \notin Menu!Drawing
  BY DEF PlaceMoves, Menu!Drawing
<1>2. \A s \in Menu!Drawing :
         WillLeave(Menu!Place(s), thread[s].then)' <=> WillLeave(Menu!Place(s), thread[s].then)
  BY <1>1 DEF PlaceMoves, WillLeave, Menu!Drawing
<1>3. \A s \in Menu!Threads : Menu!Place(s)' \in Leaves => thread'[s].then # "show"
  BY DEF TurnInv, PlaceMoves
<1> QED
  BY <1>1, <1>2, <1>3 DEF TurnInv

\* The holder of the lock makes, or drops, the cache.
LEMMA CacheMoved ==
  ASSUME LockInv, NEW t \in Menu!Threads, NEW p, NEW q, NEW n, PlaceMoves(t, p, q, n),
         drawLock.owner \in {Menu!Nobody, t},
         framebufferCache' <=> Shown' /\ q \notin Making,
         q \in Making => Shown', Shown' => WillLeave(q, n)
  PROVE  CacheInv'
<1>1. \A s \in Menu!Threads \ {t} : Menu!Place(s) \notin Making
  BY DEF LockInv, Making, Locking, Menu!Threads, Menu!Nobody
<1>2. \A s \in Menu!Threads \ {t} : Menu!Place(s)' \notin Making
  BY <1>1 DEF PlaceMoves
<1>3. WillLeave(Menu!Place(t), thread[t].then)' <=> WillLeave(q, n)
  BY DEF PlaceMoves, WillLeave
<1> QED
  BY <1>2, <1>3 DEF CacheInv, PlaceMoves

LEMMA TurnMoved ==
  ASSUME TurnInv, NEW t \in Menu!Threads, NEW p, NEW q, NEW n, PlaceMoves(t, p, q, n),
         p \notin Menu!Idle, q \notin Menu!Idle, q \in Leaves => n # "show",
         menuRefCount' = IF WillLeave(q, n) THEN 1 ELSE 0
  PROVE  TurnInv'
<1>1. t \in Menu!Drawing /\ \A s \in Menu!Threads \ {t} : s \notin Menu!Drawing
  BY DEF TurnInv, Menu!Drawing, PlaceMoves
<1>2. Menu!Drawing' = {t}
  BY <1>1 DEF PlaceMoves, Menu!Drawing
<1>3. WillLeave(Menu!Place(t), thread[t].then)' <=> WillLeave(q, n)
  BY DEF PlaceMoves, WillLeave
<1>4. \A s \in Menu!Threads : Menu!Place(s)' \in Leaves => thread'[s].then # "show"
  BY DEF TurnInv, PlaceMoves
<1> QED
  BY <1>2, <1>3, <1>4 DEF TurnInv

\* What is known of a thread that runs outside the kernel.
LEMMA Here ==
  ASSUME DialogInv, NEW t \in Menu!Threads, NEW p \in ScreenPlaces, Menu!At(t, p)
  PROVE  /\ ~crashed /\ Menu!Place(t) = p /\ thread[t].at = p /\ GoesOn(t, p, thread[t].then)
         /\ DialogTypes /\ PlacesInv /\ LockInv /\ KernelInv /\ BitsInv /\ CacheInv
         /\ ~outOfTurn => TurnInv
         /\ p \in Locking <=> drawLock.owner = t
         /\ outOfTurn \in BOOLEAN /\ app = "user" /\ paused = rosalinaState
         /\ \A v : ~Pending(v)
         /\ \A s \in Menu!Threads : thread[s].at \notin KernelPlaces
<1>1. p \notin KernelPlaces
  BY DEF ScreenPlaces, KernelPlaces, Menu!Idle, Locking, Filtering
<1>2. /\ ~crashed /\ Menu!Place(t) = p /\ app = "user" /\ paused = rosalinaState
      /\ \A v : ~Pending(v)
      /\ \A s \in Menu!Threads : thread[s].at \notin KernelPlaces
  BY <1>1, NoneInKernel
<1>3. thread[t].at = p
  BY DEF Menu!At
<1> QED
  BY <1>2, <1>3 DEF DialogInv, PlacesInv, LockInv

\* The lock as a move leaves it.
LockMoves(t, p, q) ==
  \/ (p \in Locking <=> q \in Locking) /\ UNCHANGED drawLock
  \/ p \notin Locking /\ q \in Locking /\ Menu!Draw_Lock(t)
  \/ p \in Locking /\ q \notin Locking /\ Menu!Draw_Unlock(t)

\* The lock follows the place.
LEMMA LockMoved ==
  ASSUME LockInv, DialogTypes, NEW t \in Menu!Threads, NEW p, NEW q, NEW n,
         PlaceMoves(t, p, q, n),
         LockMoves(t, p, q)
  PROVE  LockInv' /\ drawLock' \in [owner : Menu!Threads \cup {Menu!Nobody}, count : 0..1]
<1>1. CASE (p \in Locking <=> q \in Locking) /\ UNCHANGED drawLock
  BY <1>1, LockKept DEF DialogTypes
<1>2. CASE p \notin Locking /\ q \in Locking /\ Menu!Draw_Lock(t)
  BY <1>2, LockTaken
<1>3. CASE p \in Locking /\ q \notin Locking /\ Menu!Draw_Unlock(t)
  BY <1>3, LockGiven
<1> QED
  BY <1>1, <1>2, <1>3 DEF LockMoves

\* The turns as a move leaves them.
TurnMoves(t, p, q, n) ==
  /\ q \in Leaves => n # "show"
  /\ \/ /\ p \notin Menu!Idle
        /\ WillLeave(p, thread[t].then) <=> WillLeave(q, n)
        /\ q \in Menu!Idle => ~WillLeave(q, n)
     \/ p \in Menu!Idle /\ q \notin Menu!Idle /\ Menu!Drawing \ {t} = {} /\ ~WillLeave(q, n)
     \/ p \in Menu!Idle /\ q \in Menu!Idle

\* A move that toggles nothing and leaves the screen alone.
LEMMA QuietDialogs ==
  ASSUME DialogInv, NEW t \in Menu!Threads, NEW p \in ScreenPlaces, Menu!At(t, p),
         NEW q \in ScreenPlaces, NEW n, Moves(t, q, n), GoesOn(t, q, n), LockMoves(t, p, q),
         UNCHANGED <<Menu!screen, Menu!kernel, crashed>>,
         p \in {"apply", "brightness"} <=> q \in {"apply", "brightness"},
         p \notin Making, q \notin Making, WillLeave(p, thread[t].then) => WillLeave(q, n),
         ~outOfTurn' => ~outOfTurn /\ TurnMoves(t, p, q, n),
         outOfTurn' \in BOOLEAN, menuShouldExit' \in BOOLEAN, rosalinaOpen' \in BOOLEAN
  PROVE  DialogInv'
<1>1. /\ ~crashed /\ DialogTypes /\ PlacesInv /\ LockInv /\ KernelInv /\ BitsInv /\ CacheInv
      /\ ~outOfTurn => TurnInv
  BY Here
<1>2. PlaceMoves(t, p, q, n) /\ KernelInv' /\ \A v : ~Pending(v) /\ ~Pending(v)'
  BY QuietStep
<1>3. PlacesInv' /\ BitsInv' /\ CacheInv'
  BY <1>1, <1>2, PlacesKept, BitsKept, CacheKept DEF Menu!screen, Menu!kernel, Shown
<1>4. LockInv' /\ drawLock' \in [owner : Menu!Threads \cup {Menu!Nobody}, count : 0..1]
  BY <1>1, <1>2, LockMoved
<1>5. DialogTypes'
  BY <1>1, <1>4 DEF DialogTypes, Moves, Menu!screen, Menu!kernel
<1>6. ~outOfTurn' => TurnInv'
  BY <1>1, <1>2, TurnKept, TurnBegins, TurnIdle DEF TurnMoves, Menu!screen
<1> QED
  BY <1>1, <1>2, <1>3, <1>4, <1>5, <1>6 DEF DialogInv

\* The steps that toggle nothing.
LEMMA LockToEnterDialogs ==
  ASSUME DialogInv, NEW t \in Menu!Threads, Menu!LockToEnter(t)
  PROVE  DialogInv'
<1>1. "enter" \in ScreenPlaces /\ Menu!At(t, "enter")
  BY DEF Menu!LockToEnter, ScreenPlaces, Menu!Idle, Locking, Filtering
<1>2. DialogTypes /\ GoesOn(t, "enter", thread[t].then) /\ outOfTurn \in BOOLEAN
  BY <1>1, Here
<1>3. "entering" \in ScreenPlaces
  BY DEF ScreenPlaces, Menu!Idle, Locking, Filtering
<1>4. Moves(t, "entering", thread[t].then)
  BY <1>1, <1>2, <1>3, GotoMoves DEF Menu!LockToEnter
<1>5. GoesOn(t, "entering", thread[t].then) /\ LockMoves(t, "enter", "entering")
  BY <1>1, <1>2, <1>3
  DEF Menu!LockToEnter, GoesOn, ScreenPlaces, Menu!Idle, Locking, Filtering, Enters, Leaves,
      LockMoves
<1>6. /\ "enter" \notin Making /\ "entering" \notin Making
      /\ "enter" \in {"apply", "brightness"} <=>
           "entering" \in {"apply", "brightness"}
      /\ WillLeave("enter", thread[t].then) =>
           WillLeave("entering", thread[t].then)
      /\ ~outOfTurn' =>
           ~outOfTurn /\ TurnMoves(t, "enter", "entering", thread[t].then)
  BY <1>1, <1>2, <1>3
  DEF Menu!LockToEnter, Menu!ghosts, GoesOn, Menu!Idle, Locking, Filtering, Enters, Leaves,
      Making, WillLeave, TurnMoves
<1>7. /\ UNCHANGED <<Menu!screen, Menu!kernel, crashed>>
      /\ outOfTurn' \in BOOLEAN /\ menuShouldExit' \in BOOLEAN /\ rosalinaOpen' \in BOOLEAN
  BY <1>2 DEF Menu!LockToEnter, Menu!ghosts, Menu!flags, DialogTypes
<1> QED
  BY <1>1, <1>3, <1>4, <1>5, <1>6, <1>7, QuietDialogs

LEMMA UnlockDialogs ==
  ASSUME DialogInv, NEW t \in Menu!Threads, Menu!Unlock(t)
  PROVE  DialogInv'
<1>1. "unlock" \in ScreenPlaces /\ Menu!At(t, "unlock")
  BY DEF Menu!Unlock, ScreenPlaces, Menu!Idle, Locking, Filtering
<1>2. DialogTypes /\ GoesOn(t, "unlock", thread[t].then) /\ outOfTurn \in BOOLEAN
  BY <1>1, Here
<1>3. thread[t].then \in ScreenPlaces
  BY <1>2 DEF GoesOn, ScreenPlaces, Menu!Idle, Locking, Filtering
<1>4. Moves(t, thread[t].then, Menu!Nowhere)
  BY <1>1, <1>2, <1>3, ReturnMoves DEF Menu!Unlock
<1>5. GoesOn(t, thread[t].then, Menu!Nowhere) /\ LockMoves(t, "unlock", thread[t].then)
  <2>1. /\ thread[t].then \in {"show", "dialog", "closed", "receive", "run"}
        /\ "unlock" \notin Menu!Idle
    BY <1>2 DEF GoesOn, Filtering, Menu!Idle
  <2>2. GoesOn(t, thread[t].then, Menu!Nowhere)
    BY <1>2, <1>3, <2>1 DEF GoesOn, Filtering, Enters, Leaves, Menu!Nowhere
  <2>3. LockMoves(t, "unlock", thread[t].then)
    BY <2>1 DEF LockMoves, Locking, Menu!Unlock
  <2> QED
    BY <2>2, <2>3
<1>6. /\ "unlock" \notin Making /\ thread[t].then \notin Making
      /\ "unlock" \in {"apply", "brightness"} <=>
           thread[t].then \in {"apply", "brightness"}
      /\ WillLeave("unlock", thread[t].then) =>
           WillLeave(thread[t].then, Menu!Nowhere)
      /\ ~outOfTurn' =>
           ~outOfTurn /\ TurnMoves(t, "unlock", thread[t].then, Menu!Nowhere)
  BY <1>1, <1>2, <1>3
  DEF Menu!Unlock, Menu!ghosts, GoesOn, Menu!Idle, Locking, Filtering, Enters, Leaves, Making,
      WillLeave, TurnMoves
<1>7. /\ UNCHANGED <<Menu!screen, Menu!kernel, crashed>>
      /\ outOfTurn' \in BOOLEAN /\ menuShouldExit' \in BOOLEAN /\ rosalinaOpen' \in BOOLEAN
  BY <1>2 DEF Menu!Unlock, Menu!ghosts, Menu!flags, DialogTypes
<1> QED
  BY <1>1, <1>3, <1>4, <1>5, <1>6, <1>7, QuietDialogs

LEMMA LockToLeaveDialogs ==
  ASSUME DialogInv, NEW t \in Menu!Threads, Menu!LockToLeave(t)
  PROVE  DialogInv'
<1>1. "leave" \in ScreenPlaces /\ Menu!At(t, "leave")
  BY DEF Menu!LockToLeave, ScreenPlaces, Menu!Idle, Locking, Filtering
<1>2. /\ DialogTypes /\ GoesOn(t, "leave", thread[t].then) /\ outOfTurn \in BOOLEAN
      /\ ~outOfTurn => thread[t].then # "show"
  BY <1>1, Here DEF TurnInv, Leaves
<1>3. "leaving" \in ScreenPlaces
  BY DEF ScreenPlaces, Menu!Idle, Locking, Filtering
<1>4. Moves(t, "leaving", thread[t].then)
  BY <1>1, <1>2, <1>3, GotoMoves DEF Menu!LockToLeave
<1>5. GoesOn(t, "leaving", thread[t].then) /\ LockMoves(t, "leave", "leaving")
  BY <1>1, <1>2, <1>3
  DEF Menu!LockToLeave, GoesOn, ScreenPlaces, Menu!Idle, Locking, Filtering, Enters, Leaves,
      LockMoves
<1>6. /\ "leave" \notin Making /\ "leaving" \notin Making
      /\ "leave" \in {"apply", "brightness"} <=>
           "leaving" \in {"apply", "brightness"}
      /\ WillLeave("leave", thread[t].then) =>
           WillLeave("leaving", thread[t].then)
      /\ ~outOfTurn' =>
           ~outOfTurn /\ TurnMoves(t, "leave", "leaving", thread[t].then)
  BY <1>1, <1>2, <1>3
  DEF Menu!LockToLeave, Menu!ghosts, GoesOn, Menu!Idle, Locking, Filtering, Enters, Leaves,
      Making, WillLeave, TurnMoves
<1>7. /\ UNCHANGED <<Menu!screen, Menu!kernel, crashed>>
      /\ outOfTurn' \in BOOLEAN /\ menuShouldExit' \in BOOLEAN /\ rosalinaOpen' \in BOOLEAN
  BY <1>2 DEF Menu!LockToLeave, Menu!ghosts, Menu!flags, DialogTypes
<1> QED
  BY <1>1, <1>3, <1>4, <1>5, <1>6, <1>7, QuietDialogs

LEMMA CloseMenuDialogs ==
  ASSUME DialogInv, NEW t \in Menu!Threads, Menu!CloseMenu(t)
  PROVE  DialogInv'
<1>1. "show" \in ScreenPlaces /\ Menu!At(t, "show")
  BY DEF Menu!CloseMenu, ScreenPlaces, Menu!Idle, Locking, Filtering
<1>2. DialogTypes /\ GoesOn(t, "show", thread[t].then) /\ outOfTurn \in BOOLEAN
  BY <1>1, Here
<1>3. "leave" \in ScreenPlaces /\ "closed" \in ScreenPlaces
  BY DEF ScreenPlaces, Menu!Idle, Locking, Filtering
<1>4. Moves(t, "leave", "closed")
  BY <1>1, <1>2, <1>3, CallMoves DEF Menu!CloseMenu
<1>5. GoesOn(t, "leave", "closed") /\ LockMoves(t, "show", "leave")
  BY <1>1, <1>2, <1>3
  DEF Menu!CloseMenu, GoesOn, ScreenPlaces, Menu!Idle, Locking, Filtering, Enters, Leaves,
      LockMoves
<1>6. /\ "show" \notin Making /\ "leave" \notin Making
      /\ "show" \in {"apply", "brightness"} <=>
           "leave" \in {"apply", "brightness"}
      /\ WillLeave("show", thread[t].then) =>
           WillLeave("leave", "closed")
      /\ ~outOfTurn' =>
           ~outOfTurn /\ TurnMoves(t, "show", "leave", "closed")
  BY <1>1, <1>2, <1>3
  DEF Menu!CloseMenu, Menu!ghosts, GoesOn, Menu!Idle, Locking, Filtering, Enters, Leaves,
      Making, WillLeave, TurnMoves
<1>7. /\ UNCHANGED <<Menu!screen, Menu!kernel, crashed>>
      /\ outOfTurn' \in BOOLEAN /\ menuShouldExit' \in BOOLEAN /\ rosalinaOpen' \in BOOLEAN
  BY <1>2 DEF Menu!CloseMenu, Menu!ghosts, Menu!flags, DialogTypes
<1> QED
  BY <1>1, <1>3, <1>4, <1>5, <1>6, <1>7, QuietDialogs

LEMMA MenuClosedDialogs ==
  ASSUME DialogInv, NEW t \in Menu!Threads, Menu!MenuClosed(t)
  PROVE  DialogInv'
<1>1. "closed" \in ScreenPlaces /\ Menu!At(t, "closed")
  BY DEF Menu!MenuClosed, ScreenPlaces, Menu!Idle, Locking, Filtering
<1>2. DialogTypes /\ GoesOn(t, "closed", thread[t].then) /\ outOfTurn \in BOOLEAN
  BY <1>1, Here
<1>3. (IF t = "menu" THEN "loop" ELSE "run") \in ScreenPlaces
  BY DEF ScreenPlaces, Menu!Idle, Locking, Filtering
<1>4. Moves(t, (IF t = "menu" THEN "loop" ELSE "run"), thread[t].then)
  BY <1>1, <1>2, <1>3, GotoMoves DEF Menu!MenuClosed
<1>5. /\ GoesOn(t, (IF t = "menu" THEN "loop" ELSE "run"), thread[t].then)
      /\ LockMoves(t, "closed", (IF t = "menu" THEN "loop" ELSE "run"))
  BY <1>1, <1>2, <1>3
  DEF Menu!MenuClosed, GoesOn, ScreenPlaces, Menu!Idle, Locking, Filtering, Enters, Leaves,
      LockMoves
<1>6. /\ "closed" \notin Making /\ (IF t = "menu" THEN "loop" ELSE "run") \notin Making
      /\ "closed" \in {"apply", "brightness"} <=>
           (IF t = "menu" THEN "loop" ELSE "run") \in {"apply", "brightness"}
      /\ WillLeave("closed", thread[t].then) =>
           WillLeave((IF t = "menu" THEN "loop" ELSE "run"), thread[t].then)
      /\ ~outOfTurn' =>
           /\ ~outOfTurn
           /\ TurnMoves(t, "closed", (IF t = "menu" THEN "loop" ELSE "run"), thread[t].then)
  BY <1>1, <1>2, <1>3
  DEF Menu!MenuClosed, Menu!ghosts, GoesOn, Menu!Idle, Locking, Filtering, Enters, Leaves,
      Making, WillLeave, TurnMoves
<1>7. /\ UNCHANGED <<Menu!screen, Menu!kernel, crashed>>
      /\ outOfTurn' \in BOOLEAN /\ menuShouldExit' \in BOOLEAN /\ rosalinaOpen' \in BOOLEAN
  BY <1>2 DEF Menu!MenuClosed, Menu!ghosts, Menu!flags, DialogTypes
<1> QED
  BY <1>1, <1>3, <1>4, <1>5, <1>6, <1>7, QuietDialogs

LEMMA PowerOffDialogs ==
  ASSUME DialogInv, NEW t \in Menu!Threads, Menu!PowerOff(t)
  PROVE  DialogInv'
<1>1. "show" \in ScreenPlaces /\ Menu!At(t, "show")
  BY DEF Menu!PowerOff, ScreenPlaces, Menu!Idle, Locking, Filtering
<1>2. DialogTypes /\ GoesOn(t, "show", thread[t].then) /\ outOfTurn \in BOOLEAN
  BY <1>1, Here
<1>3. "leave" \in ScreenPlaces /\ "show" \in ScreenPlaces
  BY DEF ScreenPlaces, Menu!Idle, Locking, Filtering
<1>4. Moves(t, "leave", "show")
  BY <1>1, <1>2, <1>3, CallMoves DEF Menu!PowerOff
<1>5. GoesOn(t, "leave", "show") /\ LockMoves(t, "show", "leave")
  BY <1>1, <1>2, <1>3
  DEF Menu!PowerOff, GoesOn, ScreenPlaces, Menu!Idle, Locking, Filtering, Enters, Leaves,
      LockMoves
<1>6. /\ "show" \notin Making /\ "leave" \notin Making
      /\ "show" \in {"apply", "brightness"} <=>
           "leave" \in {"apply", "brightness"}
      /\ WillLeave("show", thread[t].then) =>
           WillLeave("leave", "show")
      /\ ~outOfTurn' =>
           ~outOfTurn /\ TurnMoves(t, "show", "leave", "show")
  BY <1>1, <1>2, <1>3
  DEF Menu!PowerOff, Menu!ghosts, GoesOn, Menu!Idle, Locking, Filtering, Enters, Leaves,
      Making, WillLeave, TurnMoves
<1>7. /\ UNCHANGED <<Menu!screen, Menu!kernel, crashed>>
      /\ outOfTurn' \in BOOLEAN /\ menuShouldExit' \in BOOLEAN /\ rosalinaOpen' \in BOOLEAN
  BY <1>2 DEF Menu!PowerOff, Menu!ghosts, Menu!flags, DialogTypes
<1> QED
  BY <1>1, <1>3, <1>4, <1>5, <1>6, <1>7, QuietDialogs

LEMMA ShowDialogDialogs ==
  ASSUME DialogInv, NEW t \in Menu!Threads, Menu!ShowDialog(t)
  PROVE  DialogInv'
<1>1. "dialog" \in ScreenPlaces /\ Menu!At(t, "dialog")
  BY DEF Menu!ShowDialog, ScreenPlaces, Menu!Idle, Locking, Filtering
<1>2. DialogTypes /\ GoesOn(t, "dialog", thread[t].then) /\ outOfTurn \in BOOLEAN
  BY <1>1, Here
<1>3. "wait" \in ScreenPlaces
  BY DEF ScreenPlaces, Menu!Idle, Locking, Filtering
<1>4. Moves(t, "wait", thread[t].then)
  BY <1>1, <1>2, <1>3, GotoMoves DEF Menu!ShowDialog
<1>5. GoesOn(t, "wait", thread[t].then) /\ LockMoves(t, "dialog", "wait")
  BY <1>1, <1>2, <1>3
  DEF Menu!ShowDialog, GoesOn, ScreenPlaces, Menu!Idle, Locking, Filtering, Enters, Leaves,
      LockMoves
<1>6. /\ "dialog" \notin Making /\ "wait" \notin Making
      /\ "dialog" \in {"apply", "brightness"} <=>
           "wait" \in {"apply", "brightness"}
      /\ WillLeave("dialog", thread[t].then) =>
           WillLeave("wait", thread[t].then)
      /\ ~outOfTurn' =>
           ~outOfTurn /\ TurnMoves(t, "dialog", "wait", thread[t].then)
  BY <1>1, <1>2, <1>3
  DEF Menu!ShowDialog, Menu!ghosts, GoesOn, Menu!Idle, Locking, Filtering, Enters, Leaves,
      Making, WillLeave, TurnMoves
<1>7. /\ UNCHANGED <<Menu!screen, Menu!kernel, crashed>>
      /\ outOfTurn' \in BOOLEAN /\ menuShouldExit' \in BOOLEAN /\ rosalinaOpen' \in BOOLEAN
  BY <1>2 DEF Menu!ShowDialog, Menu!ghosts, Menu!flags, DialogTypes
<1> QED
  BY <1>1, <1>3, <1>4, <1>5, <1>6, <1>7, QuietDialogs

LEMMA EndDialogDialogs ==
  ASSUME DialogInv, NEW t \in Menu!Threads, Menu!EndDialog(t)
  PROVE  DialogInv'
<1>1. "wait" \in ScreenPlaces /\ Menu!At(t, "wait")
  BY DEF Menu!EndDialog, ScreenPlaces, Menu!Idle, Locking, Filtering
<1>2. DialogTypes /\ GoesOn(t, "wait", thread[t].then) /\ outOfTurn \in BOOLEAN
  BY <1>1, Here
<1>3. "leave" \in ScreenPlaces /\ (IF t = "errdisp" THEN "receive" ELSE "run") \in ScreenPlaces
  BY DEF ScreenPlaces, Menu!Idle, Locking, Filtering
<1>4. Moves(t, "leave", (IF t = "errdisp" THEN "receive" ELSE "run"))
  BY <1>1, <1>2, <1>3, CallMoves DEF Menu!EndDialog
<1>5. /\ GoesOn(t, "leave", (IF t = "errdisp" THEN "receive" ELSE "run"))
      /\ LockMoves(t, "wait", "leave")
  BY <1>1, <1>2, <1>3
  DEF Menu!EndDialog, GoesOn, ScreenPlaces, Menu!Idle, Locking, Filtering, Enters, Leaves,
      LockMoves
<1>6. /\ "wait" \notin Making /\ "leave" \notin Making
      /\ "wait" \in {"apply", "brightness"} <=>
           "leave" \in {"apply", "brightness"}
      /\ WillLeave("wait", thread[t].then) =>
           WillLeave("leave", (IF t = "errdisp" THEN "receive" ELSE "run"))
      /\ ~outOfTurn' =>
           /\ ~outOfTurn
           /\ TurnMoves(t, "wait", "leave", (IF t = "errdisp" THEN "receive" ELSE "run"))
  BY <1>1, <1>2, <1>3
  DEF Menu!EndDialog, Menu!ghosts, GoesOn, Menu!Idle, Locking, Filtering, Enters, Leaves,
      Making, WillLeave, TurnMoves
<1>7. /\ UNCHANGED <<Menu!screen, Menu!kernel, crashed>>
      /\ outOfTurn' \in BOOLEAN /\ menuShouldExit' \in BOOLEAN /\ rosalinaOpen' \in BOOLEAN
  BY <1>2 DEF Menu!EndDialog, Menu!ghosts, Menu!flags, DialogTypes
<1> QED
  BY <1>1, <1>3, <1>4, <1>5, <1>6, <1>7, QuietDialogs

LEMMA FilteredDialogs ==
  ASSUME DialogInv, NEW t \in Menu!Threads, Menu!Filtered(t)
  PROVE  DialogInv'
<1>1. "filtered" \in ScreenPlaces /\ Menu!At(t, "filtered")
  BY DEF Menu!Filtered, ScreenPlaces, Menu!Idle, Locking, Filtering
<1>2. DialogTypes /\ GoesOn(t, "filtered", thread[t].then) /\ outOfTurn \in BOOLEAN
  BY <1>1, Here
<1>3. thread[t].then \in ScreenPlaces
  BY <1>2 DEF GoesOn, ScreenPlaces, Menu!Idle, Locking, Filtering
<1>4. Moves(t, thread[t].then, Menu!Nowhere)
  BY <1>1, <1>2, <1>3, ReturnMoves DEF Menu!Filtered
<1>5. GoesOn(t, thread[t].then, Menu!Nowhere) /\ LockMoves(t, "filtered", thread[t].then)
  <2>1. thread[t].then \in {"loop", "run"} /\ "filtered" \notin Menu!Idle
    BY <1>2 DEF GoesOn, Filtering, Menu!Idle
  <2>2. GoesOn(t, thread[t].then, Menu!Nowhere)
    BY <1>2, <1>3, <2>1 DEF GoesOn, Filtering, Enters, Leaves, Menu!Nowhere
  <2>3. LockMoves(t, "filtered", thread[t].then)
    BY <2>1 DEF LockMoves, Locking, Menu!Filtered
  <2> QED
    BY <2>2, <2>3
<1>6. /\ "filtered" \notin Making /\ thread[t].then \notin Making
      /\ "filtered" \in {"apply", "brightness"} <=>
           thread[t].then \in {"apply", "brightness"}
      /\ WillLeave("filtered", thread[t].then) =>
           WillLeave(thread[t].then, Menu!Nowhere)
      /\ ~outOfTurn' =>
           ~outOfTurn /\ TurnMoves(t, "filtered", thread[t].then, Menu!Nowhere)
  BY <1>1, <1>2, <1>3
  DEF Menu!Filtered, Menu!ghosts, GoesOn, Menu!Idle, Locking, Filtering, Enters, Leaves,
      Making, WillLeave, TurnMoves
<1>7. /\ UNCHANGED <<Menu!screen, Menu!kernel, crashed>>
      /\ outOfTurn' \in BOOLEAN /\ menuShouldExit' \in BOOLEAN /\ rosalinaOpen' \in BOOLEAN
  BY <1>2 DEF Menu!Filtered, Menu!ghosts, Menu!flags, DialogTypes
<1> QED
  BY <1>1, <1>3, <1>4, <1>5, <1>6, <1>7, QuietDialogs

LEMMA MenuComboDialogs ==
  ASSUME DialogInv, Menu!MenuCombo
  PROVE  DialogInv'
<1>1. "menu" \in Menu!Threads /\ "loop" \in ScreenPlaces /\ Menu!At("menu", "loop")
  BY DEF Menu!Threads, Menu!MenuCombo, Menu!openRosalina, Menu!Begin, ScreenPlaces, Menu!Idle,
         Locking, Filtering
<1>2. DialogTypes /\ GoesOn("menu", "loop", thread["menu"].then) /\ outOfTurn \in BOOLEAN
  BY <1>1, Here
<1>3. "enter" \in ScreenPlaces /\ "show" \in ScreenPlaces
  BY DEF ScreenPlaces, Menu!Idle, Locking, Filtering
<1>4. Moves("menu", "enter", "show")
  BY <1>1, <1>2, <1>3, CallMoves DEF Menu!MenuCombo, Menu!openRosalina, Menu!Begin
<1>5. GoesOn("menu", "enter", "show") /\ LockMoves("menu", "loop", "enter")
  BY <1>1, <1>2, <1>3
  DEF Menu!MenuCombo, Menu!openRosalina, Menu!Begin, GoesOn, ScreenPlaces, Menu!Idle, Locking,
      Filtering, Enters, Leaves, LockMoves
<1>6. /\ "loop" \notin Making /\ "enter" \notin Making
      /\ "loop" \in {"apply", "brightness"} <=>
           "enter" \in {"apply", "brightness"}
      /\ WillLeave("loop", thread["menu"].then) =>
           WillLeave("enter", "show")
      /\ ~outOfTurn' =>
           ~outOfTurn /\ TurnMoves("menu", "loop", "enter", "show")
  BY <1>1, <1>2, <1>3
  DEF Menu!MenuCombo, Menu!openRosalina, Menu!Begin, Menu!ghosts, GoesOn, Menu!Idle, Locking,
      Filtering, Enters, Leaves, Making, WillLeave, TurnMoves
<1>7. /\ UNCHANGED <<Menu!screen, Menu!kernel, crashed>>
      /\ outOfTurn' \in BOOLEAN /\ menuShouldExit' \in BOOLEAN /\ rosalinaOpen' \in BOOLEAN
  BY <1>2
  DEF Menu!MenuCombo, Menu!openRosalina, Menu!Begin, Menu!ghosts, Menu!flags, DialogTypes
<1> QED
  BY <1>1, <1>3, <1>4, <1>5, <1>6, <1>7, QuietDialogs

LEMMA HomeButtonDialogs ==
  ASSUME DialogInv, Menu!HomeButton
  PROVE  DialogInv'
<1>1. "main" \in Menu!Threads /\ "run" \in ScreenPlaces /\ Menu!At("main", "run")
  BY DEF Menu!Threads, Menu!HomeButton, Menu!openRosalina, Menu!Begin, ScreenPlaces, Menu!Idle,
         Locking, Filtering
<1>2. DialogTypes /\ GoesOn("main", "run", thread["main"].then) /\ outOfTurn \in BOOLEAN
  BY <1>1, Here
<1>3. "enter" \in ScreenPlaces /\ "show" \in ScreenPlaces
  BY DEF ScreenPlaces, Menu!Idle, Locking, Filtering
<1>4. Moves("main", "enter", "show")
  BY <1>1, <1>2, <1>3, CallMoves DEF Menu!HomeButton, Menu!openRosalina, Menu!Begin
<1>5. GoesOn("main", "enter", "show") /\ LockMoves("main", "run", "enter")
  BY <1>1, <1>2, <1>3
  DEF Menu!HomeButton, Menu!openRosalina, Menu!Begin, GoesOn, ScreenPlaces, Menu!Idle, Locking,
      Filtering, Enters, Leaves, LockMoves
<1>6. /\ "run" \notin Making /\ "enter" \notin Making
      /\ "run" \in {"apply", "brightness"} <=>
           "enter" \in {"apply", "brightness"}
      /\ WillLeave("run", thread["main"].then) =>
           WillLeave("enter", "show")
      /\ ~outOfTurn' =>
           ~outOfTurn /\ TurnMoves("main", "run", "enter", "show")
  BY <1>1, <1>2, <1>3
  DEF Menu!HomeButton, Menu!openRosalina, Menu!Begin, Menu!ghosts, GoesOn, Menu!Idle, Locking,
      Filtering, Enters, Leaves, Making, WillLeave, TurnMoves
<1>7. /\ UNCHANGED <<Menu!screen, Menu!kernel, crashed>>
      /\ outOfTurn' \in BOOLEAN /\ menuShouldExit' \in BOOLEAN /\ rosalinaOpen' \in BOOLEAN
  BY <1>2
  DEF Menu!HomeButton, Menu!openRosalina, Menu!Begin, Menu!ghosts, Menu!flags, DialogTypes
<1> QED
  BY <1>1, <1>3, <1>4, <1>5, <1>6, <1>7, QuietDialogs

LEMMA MenuThreadStartsDialogs ==
  ASSUME DialogInv, Menu!MenuThreadStarts
  PROVE  DialogInv'
<1>1. "menu" \in Menu!Threads /\ "start" \in ScreenPlaces /\ Menu!At("menu", "start")
  BY DEF Menu!Threads, Menu!MenuThreadStarts, ScreenPlaces, Menu!Idle, Locking, Filtering
<1>2. DialogTypes /\ GoesOn("menu", "start", thread["menu"].then) /\ outOfTurn \in BOOLEAN
  BY <1>1, Here
<1>3. "filter" \in ScreenPlaces /\ "loop" \in ScreenPlaces
  BY DEF ScreenPlaces, Menu!Idle, Locking, Filtering
<1>4. Moves("menu", "filter", "loop")
  BY <1>1, <1>2, <1>3, CallMoves DEF Menu!MenuThreadStarts
<1>5. GoesOn("menu", "filter", "loop") /\ LockMoves("menu", "start", "filter")
  BY <1>1, <1>2, <1>3
  DEF Menu!MenuThreadStarts, GoesOn, ScreenPlaces, Menu!Idle, Locking, Filtering, Enters,
      Leaves, LockMoves
<1>6. /\ "start" \notin Making /\ "filter" \notin Making
      /\ "start" \in {"apply", "brightness"} <=>
           "filter" \in {"apply", "brightness"}
      /\ WillLeave("start", thread["menu"].then) =>
           WillLeave("filter", "loop")
      /\ ~outOfTurn' =>
           ~outOfTurn /\ TurnMoves("menu", "start", "filter", "loop")
  BY <1>1, <1>2, <1>3
  DEF Menu!MenuThreadStarts, Menu!ghosts, GoesOn, Menu!Idle, Locking, Filtering, Enters,
      Leaves, Making, WillLeave, TurnMoves
<1>7. /\ UNCHANGED <<Menu!screen, Menu!kernel, crashed>>
      /\ outOfTurn' \in BOOLEAN /\ menuShouldExit' \in BOOLEAN /\ rosalinaOpen' \in BOOLEAN
  BY <1>2 DEF Menu!MenuThreadStarts, Menu!ghosts, Menu!flags, DialogTypes
<1> QED
  BY <1>1, <1>3, <1>4, <1>5, <1>6, <1>7, QuietDialogs

LEMMA MenuThreadEndsDialogs ==
  ASSUME DialogInv, Menu!MenuThreadEnds
  PROVE  DialogInv'
<1>1. "menu" \in Menu!Threads /\ "loop" \in ScreenPlaces /\ Menu!At("menu", "loop")
  BY DEF Menu!Threads, Menu!MenuThreadEnds, ScreenPlaces, Menu!Idle, Locking, Filtering
<1>2. DialogTypes /\ GoesOn("menu", "loop", thread["menu"].then) /\ outOfTurn \in BOOLEAN
  BY <1>1, Here
<1>3. "ended" \in ScreenPlaces
  BY DEF ScreenPlaces, Menu!Idle, Locking, Filtering
<1>4. Moves("menu", "ended", thread["menu"].then)
  BY <1>1, <1>2, <1>3, GotoMoves DEF Menu!MenuThreadEnds
<1>5. GoesOn("menu", "ended", thread["menu"].then) /\ LockMoves("menu", "loop", "ended")
  BY <1>1, <1>2, <1>3
  DEF Menu!MenuThreadEnds, GoesOn, ScreenPlaces, Menu!Idle, Locking, Filtering, Enters, Leaves,
      LockMoves
<1>6. /\ "loop" \notin Making /\ "ended" \notin Making
      /\ "loop" \in {"apply", "brightness"} <=>
           "ended" \in {"apply", "brightness"}
      /\ WillLeave("loop", thread["menu"].then) =>
           WillLeave("ended", thread["menu"].then)
      /\ ~outOfTurn' =>
           ~outOfTurn /\ TurnMoves("menu", "loop", "ended", thread["menu"].then)
  BY <1>1, <1>2, <1>3
  DEF Menu!MenuThreadEnds, Menu!ghosts, GoesOn, Menu!Idle, Locking, Filtering, Enters, Leaves,
      Making, WillLeave, TurnMoves
<1>7. /\ UNCHANGED <<Menu!screen, Menu!kernel, crashed>>
      /\ outOfTurn' \in BOOLEAN /\ menuShouldExit' \in BOOLEAN /\ rosalinaOpen' \in BOOLEAN
  BY <1>2 DEF Menu!MenuThreadEnds, Menu!ghosts, Menu!flags, DialogTypes
<1> QED
  BY <1>1, <1>3, <1>4, <1>5, <1>6, <1>7, QuietDialogs

LEMMA ThrowDialogs ==
  ASSUME DialogInv, Menu!Throw
  PROVE  DialogInv'
<1>1. "errdisp" \in Menu!Threads /\ "receive" \in ScreenPlaces /\ Menu!At("errdisp", "receive")
  BY DEF Menu!Threads, Menu!Throw, Menu!Begin, ScreenPlaces, Menu!Idle, Locking, Filtering
<1>2. /\ DialogTypes /\ GoesOn("errdisp", "receive", thread["errdisp"].then)
      /\ outOfTurn \in BOOLEAN
  BY <1>1, Here
<1>3. "enter" \in ScreenPlaces /\ "dialog" \in ScreenPlaces
  BY DEF ScreenPlaces, Menu!Idle, Locking, Filtering
<1>4. Moves("errdisp", "enter", "dialog")
  BY <1>1, <1>2, <1>3, CallMoves DEF Menu!Throw, Menu!Begin
<1>5. GoesOn("errdisp", "enter", "dialog") /\ LockMoves("errdisp", "receive", "enter")
  BY <1>1, <1>2, <1>3
  DEF Menu!Throw, Menu!Begin, GoesOn, ScreenPlaces, Menu!Idle, Locking, Filtering, Enters,
      Leaves, LockMoves
<1>6. /\ "receive" \notin Making /\ "enter" \notin Making
      /\ "receive" \in {"apply", "brightness"} <=>
           "enter" \in {"apply", "brightness"}
      /\ WillLeave("receive", thread["errdisp"].then) =>
           WillLeave("enter", "dialog")
      /\ ~outOfTurn' =>
           ~outOfTurn /\ TurnMoves("errdisp", "receive", "enter", "dialog")
  BY <1>1, <1>2, <1>3
  DEF Menu!Throw, Menu!Begin, Menu!ghosts, GoesOn, Menu!Idle, Locking, Filtering, Enters,
      Leaves, Making, WillLeave, TurnMoves
<1>7. /\ UNCHANGED <<Menu!screen, Menu!kernel, crashed>>
      /\ outOfTurn' \in BOOLEAN /\ menuShouldExit' \in BOOLEAN /\ rosalinaOpen' \in BOOLEAN
  BY <1>2 DEF Menu!Throw, Menu!Begin, Menu!ghosts, Menu!flags, DialogTypes
<1> QED
  BY <1>1, <1>3, <1>4, <1>5, <1>6, <1>7, QuietDialogs

LEMMA ErrDispEndsDialogs ==
  ASSUME DialogInv, Menu!ErrDispEnds
  PROVE  DialogInv'
<1>1. "errdisp" \in Menu!Threads /\ "receive" \in ScreenPlaces /\ Menu!At("errdisp", "receive")
  BY DEF Menu!Threads, Menu!ErrDispEnds, ScreenPlaces, Menu!Idle, Locking, Filtering
<1>2. /\ DialogTypes /\ GoesOn("errdisp", "receive", thread["errdisp"].then)
      /\ outOfTurn \in BOOLEAN
  BY <1>1, Here
<1>3. "ended" \in ScreenPlaces
  BY DEF ScreenPlaces, Menu!Idle, Locking, Filtering
<1>4. Moves("errdisp", "ended", thread["errdisp"].then)
  BY <1>1, <1>2, <1>3, GotoMoves DEF Menu!ErrDispEnds
<1>5. /\ GoesOn("errdisp", "ended", thread["errdisp"].then)
      /\ LockMoves("errdisp", "receive", "ended")
  BY <1>1, <1>2, <1>3
  DEF Menu!ErrDispEnds, GoesOn, ScreenPlaces, Menu!Idle, Locking, Filtering, Enters, Leaves,
      LockMoves
<1>6. /\ "receive" \notin Making /\ "ended" \notin Making
      /\ "receive" \in {"apply", "brightness"} <=>
           "ended" \in {"apply", "brightness"}
      /\ WillLeave("receive", thread["errdisp"].then) =>
           WillLeave("ended", thread["errdisp"].then)
      /\ ~outOfTurn' =>
           ~outOfTurn /\ TurnMoves("errdisp", "receive", "ended", thread["errdisp"].then)
  BY <1>1, <1>2, <1>3
  DEF Menu!ErrDispEnds, Menu!ghosts, GoesOn, Menu!Idle, Locking, Filtering, Enters, Leaves,
      Making, WillLeave, TurnMoves
<1>7. /\ UNCHANGED <<Menu!screen, Menu!kernel, crashed>>
      /\ outOfTurn' \in BOOLEAN /\ menuShouldExit' \in BOOLEAN /\ rosalinaOpen' \in BOOLEAN
  BY <1>2 DEF Menu!ErrDispEnds, Menu!ghosts, Menu!flags, DialogTypes
<1> QED
  BY <1>1, <1>3, <1>4, <1>5, <1>6, <1>7, QuietDialogs

LEMMA PluginMessageDialogs ==
  ASSUME DialogInv, Menu!PluginMessage
  PROVE  DialogInv'
<1>1. "main" \in Menu!Threads /\ "run" \in ScreenPlaces /\ Menu!At("main", "run")
  BY DEF Menu!Threads, Menu!PluginMessage, Menu!Begin, ScreenPlaces, Menu!Idle, Locking,
         Filtering
<1>2. DialogTypes /\ GoesOn("main", "run", thread["main"].then) /\ outOfTurn \in BOOLEAN
  BY <1>1, Here
<1>3. "enter" \in ScreenPlaces /\ "dialog" \in ScreenPlaces
  BY DEF ScreenPlaces, Menu!Idle, Locking, Filtering
<1>4. Moves("main", "enter", "dialog")
  BY <1>1, <1>2, <1>3, CallMoves DEF Menu!PluginMessage, Menu!Begin
<1>5. GoesOn("main", "enter", "dialog") /\ LockMoves("main", "run", "enter")
  BY <1>1, <1>2, <1>3
  DEF Menu!PluginMessage, Menu!Begin, GoesOn, ScreenPlaces, Menu!Idle, Locking, Filtering,
      Enters, Leaves, LockMoves
<1>6. /\ "run" \notin Making /\ "enter" \notin Making
      /\ "run" \in {"apply", "brightness"} <=>
           "enter" \in {"apply", "brightness"}
      /\ WillLeave("run", thread["main"].then) =>
           WillLeave("enter", "dialog")
      /\ ~outOfTurn' =>
           ~outOfTurn /\ TurnMoves("main", "run", "enter", "dialog")
  BY <1>1, <1>2, <1>3
  DEF Menu!PluginMessage, Menu!Begin, Menu!ghosts, GoesOn, Menu!Idle, Locking, Filtering,
      Enters, Leaves, Making, WillLeave, TurnMoves
<1>7. /\ UNCHANGED <<Menu!screen, Menu!kernel, crashed>>
      /\ outOfTurn' \in BOOLEAN /\ menuShouldExit' \in BOOLEAN /\ rosalinaOpen' \in BOOLEAN
  BY <1>2 DEF Menu!PluginMessage, Menu!Begin, Menu!ghosts, Menu!flags, DialogTypes
<1> QED
  BY <1>1, <1>3, <1>4, <1>5, <1>6, <1>7, QuietDialogs

LEMMA ShellOpenedDialogs ==
  ASSUME DialogInv, Menu!ShellOpened
  PROVE  DialogInv'
<1>1. "main" \in Menu!Threads /\ "run" \in ScreenPlaces /\ Menu!At("main", "run")
  BY DEF Menu!Threads, Menu!ShellOpened, ScreenPlaces, Menu!Idle, Locking, Filtering
<1>2. DialogTypes /\ GoesOn("main", "run", thread["main"].then) /\ outOfTurn \in BOOLEAN
  BY <1>1, Here
<1>3. "filter" \in ScreenPlaces /\ "run" \in ScreenPlaces
  BY DEF ScreenPlaces, Menu!Idle, Locking, Filtering
<1>4. Moves("main", "filter", "run")
  BY <1>1, <1>2, <1>3, CallMoves DEF Menu!ShellOpened
<1>5. GoesOn("main", "filter", "run") /\ LockMoves("main", "run", "filter")
  BY <1>1, <1>2, <1>3
  DEF Menu!ShellOpened, GoesOn, ScreenPlaces, Menu!Idle, Locking, Filtering, Enters, Leaves,
      LockMoves
<1>6. /\ "run" \notin Making /\ "filter" \notin Making
      /\ "run" \in {"apply", "brightness"} <=>
           "filter" \in {"apply", "brightness"}
      /\ WillLeave("run", thread["main"].then) =>
           WillLeave("filter", "run")
      /\ ~outOfTurn' =>
           ~outOfTurn /\ TurnMoves("main", "run", "filter", "run")
  BY <1>1, <1>2, <1>3
  DEF Menu!ShellOpened, Menu!ghosts, GoesOn, Menu!Idle, Locking, Filtering, Enters, Leaves,
      Making, WillLeave, TurnMoves
<1>7. /\ UNCHANGED <<Menu!screen, Menu!kernel, crashed>>
      /\ outOfTurn' \in BOOLEAN /\ menuShouldExit' \in BOOLEAN /\ rosalinaOpen' \in BOOLEAN
  BY <1>2 DEF Menu!ShellOpened, Menu!ghosts, Menu!flags, DialogTypes
<1> QED
  BY <1>1, <1>3, <1>4, <1>5, <1>6, <1>7, QuietDialogs

LEMMA PreTerminationDialogs ==
  ASSUME DialogInv, Menu!PreTermination
  PROVE  DialogInv'
<1>1. "main" \in Menu!Threads /\ "run" \in ScreenPlaces /\ Menu!At("main", "run")
  BY DEF Menu!Threads, Menu!PreTermination, ScreenPlaces, Menu!Idle, Locking, Filtering
<1>2. DialogTypes /\ GoesOn("main", "run", thread["main"].then) /\ outOfTurn \in BOOLEAN
  BY <1>1, Here
<1>3. "preTerm" \in ScreenPlaces
  BY DEF ScreenPlaces, Menu!Idle, Locking, Filtering
<1>4. Moves("main", "preTerm", thread["main"].then)
  BY <1>1, <1>2, <1>3, GotoMoves DEF Menu!PreTermination
<1>5. GoesOn("main", "preTerm", thread["main"].then) /\ LockMoves("main", "run", "preTerm")
  BY <1>1, <1>2, <1>3
  DEF Menu!PreTermination, GoesOn, ScreenPlaces, Menu!Idle, Locking, Filtering, Enters, Leaves,
      LockMoves
<1>6. /\ "run" \notin Making /\ "preTerm" \notin Making
      /\ "run" \in {"apply", "brightness"} <=>
           "preTerm" \in {"apply", "brightness"}
      /\ WillLeave("run", thread["main"].then) =>
           WillLeave("preTerm", thread["main"].then)
      /\ ~outOfTurn' =>
           ~outOfTurn /\ TurnMoves("main", "run", "preTerm", thread["main"].then)
  BY <1>1, <1>2, <1>3
  DEF Menu!PreTermination, Menu!ghosts, GoesOn, Menu!Idle, Locking, Filtering, Enters, Leaves,
      Making, WillLeave, TurnMoves
<1>7. /\ UNCHANGED <<Menu!screen, Menu!kernel, crashed>>
      /\ outOfTurn' \in BOOLEAN /\ menuShouldExit' \in BOOLEAN /\ rosalinaOpen' \in BOOLEAN
  BY <1>2 DEF Menu!PreTermination, Menu!ghosts, Menu!flags, DialogTypes
<1> QED
  BY <1>1, <1>3, <1>4, <1>5, <1>6, <1>7, QuietDialogs

LEMMA RequestTerminationDialogs ==
  ASSUME DialogInv, Menu!RequestTermination
  PROVE  DialogInv'
<1>1. "main" \in Menu!Threads /\ "preTerm" \in ScreenPlaces /\ Menu!At("main", "preTerm")
  BY DEF Menu!Threads, Menu!RequestTermination, Menu!Requests, ScreenPlaces, Menu!Idle,
         Locking, Filtering
<1>2. DialogTypes /\ GoesOn("main", "preTerm", thread["main"].then) /\ outOfTurn \in BOOLEAN
  BY <1>1, Here
<1>3. "run" \in ScreenPlaces
  BY DEF ScreenPlaces, Menu!Idle, Locking, Filtering
<1>4. Moves("main", "run", thread["main"].then)
  BY <1>1, <1>2, <1>3, GotoMoves DEF Menu!RequestTermination, Menu!Requests
<1>5. GoesOn("main", "run", thread["main"].then) /\ LockMoves("main", "preTerm", "run")
  BY <1>1, <1>2, <1>3
  DEF Menu!RequestTermination, Menu!Requests, GoesOn, ScreenPlaces, Menu!Idle, Locking,
      Filtering, Enters, Leaves, LockMoves
<1>6. /\ "preTerm" \notin Making /\ "run" \notin Making
      /\ "preTerm" \in {"apply", "brightness"} <=>
           "run" \in {"apply", "brightness"}
      /\ WillLeave("preTerm", thread["main"].then) =>
           WillLeave("run", thread["main"].then)
      /\ ~outOfTurn' =>
           ~outOfTurn /\ TurnMoves("main", "preTerm", "run", thread["main"].then)
  BY <1>1, <1>2, <1>3
  DEF Menu!RequestTermination, Menu!Requests, Menu!ghosts, GoesOn, Menu!Idle, Locking,
      Filtering, Enters, Leaves, Making, WillLeave, TurnMoves
<1>7. /\ UNCHANGED <<Menu!screen, Menu!kernel, crashed>>
      /\ outOfTurn' \in BOOLEAN /\ menuShouldExit' \in BOOLEAN /\ rosalinaOpen' \in BOOLEAN
  BY <1>2 DEF Menu!RequestTermination, Menu!Requests, Menu!ghosts, Menu!flags, DialogTypes
<1> QED
  BY <1>1, <1>3, <1>4, <1>5, <1>6, <1>7, QuietDialogs

LEMMA TerminationDialogs ==
  ASSUME DialogInv, Menu!Termination
  PROVE  DialogInv'
<1>1. "main" \in Menu!Threads /\ "run" \in ScreenPlaces /\ Menu!At("main", "run")
  BY DEF Menu!Threads, Menu!Termination, ScreenPlaces, Menu!Idle, Locking, Filtering
<1>2. DialogTypes /\ GoesOn("main", "run", thread["main"].then) /\ outOfTurn \in BOOLEAN
  BY <1>1, Here
<1>3. "joining" \in ScreenPlaces
  BY DEF ScreenPlaces, Menu!Idle, Locking, Filtering
<1>4. Moves("main", "joining", thread["main"].then)
  BY <1>1, <1>2, <1>3, GotoMoves DEF Menu!Termination
<1>5. GoesOn("main", "joining", thread["main"].then) /\ LockMoves("main", "run", "joining")
  BY <1>1, <1>2, <1>3
  DEF Menu!Termination, GoesOn, ScreenPlaces, Menu!Idle, Locking, Filtering, Enters, Leaves,
      LockMoves
<1>6. /\ "run" \notin Making /\ "joining" \notin Making
      /\ "run" \in {"apply", "brightness"} <=>
           "joining" \in {"apply", "brightness"}
      /\ WillLeave("run", thread["main"].then) =>
           WillLeave("joining", thread["main"].then)
      /\ ~outOfTurn' =>
           ~outOfTurn /\ TurnMoves("main", "run", "joining", thread["main"].then)
  BY <1>1, <1>2, <1>3
  DEF Menu!Termination, Menu!ghosts, GoesOn, Menu!Idle, Locking, Filtering, Enters, Leaves,
      Making, WillLeave, TurnMoves
<1>7. /\ UNCHANGED <<Menu!screen, Menu!kernel, crashed>>
      /\ outOfTurn' \in BOOLEAN /\ menuShouldExit' \in BOOLEAN /\ rosalinaOpen' \in BOOLEAN
  BY <1>2 DEF Menu!Termination, Menu!ghosts, Menu!flags, DialogTypes
<1> QED
  BY <1>1, <1>3, <1>4, <1>5, <1>6, <1>7, QuietDialogs

LEMMA JoinDialogs ==
  ASSUME DialogInv, Menu!Join
  PROVE  DialogInv'
<1>1. "main" \in Menu!Threads /\ "joining" \in ScreenPlaces /\ Menu!At("main", "joining")
  BY DEF Menu!Threads, Menu!Join, ScreenPlaces, Menu!Idle, Locking, Filtering
<1>2. DialogTypes /\ GoesOn("main", "joining", thread["main"].then) /\ outOfTurn \in BOOLEAN
  BY <1>1, Here
<1>3. "ended" \in ScreenPlaces
  BY DEF ScreenPlaces, Menu!Idle, Locking, Filtering
<1>4. Moves("main", "ended", thread["main"].then)
  BY <1>1, <1>2, <1>3, GotoMoves DEF Menu!Join
<1>5. GoesOn("main", "ended", thread["main"].then) /\ LockMoves("main", "joining", "ended")
  BY <1>1, <1>2, <1>3
  DEF Menu!Join, GoesOn, ScreenPlaces, Menu!Idle, Locking, Filtering, Enters, Leaves, LockMoves
<1>6. /\ "joining" \notin Making /\ "ended" \notin Making
      /\ "joining" \in {"apply", "brightness"} <=>
           "ended" \in {"apply", "brightness"}
      /\ WillLeave("joining", thread["main"].then) =>
           WillLeave("ended", thread["main"].then)
      /\ ~outOfTurn' =>
           ~outOfTurn /\ TurnMoves("main", "joining", "ended", thread["main"].then)
  BY <1>1, <1>2, <1>3
  DEF Menu!Join, Menu!ghosts, GoesOn, Menu!Idle, Locking, Filtering, Enters, Leaves, Making,
      WillLeave, TurnMoves
<1>7. /\ UNCHANGED <<Menu!screen, Menu!kernel, crashed>>
      /\ outOfTurn' \in BOOLEAN /\ menuShouldExit' \in BOOLEAN /\ rosalinaOpen' \in BOOLEAN
  BY <1>2 DEF Menu!Join, Menu!ghosts, Menu!flags, DialogTypes
<1> QED
  BY <1>1, <1>3, <1>4, <1>5, <1>6, <1>7, QuietDialogs

\* A step that moves nobody.
LEMMA StillDialogs ==
  ASSUME DialogInv, UNCHANGED <<Menu!screen, drawLock, Menu!kernel, thread, Menu!ghosts>>,
         menuShouldExit' \in BOOLEAN, rosalinaOpen' \in BOOLEAN
  PROVE  DialogInv'
<1>1. CASE crashed
  BY <1>1 DEF DialogInv, Menu!ghosts
<1>2. CASE ~crashed
  <2>1. /\ DialogTypes /\ PlacesInv /\ LockInv /\ KernelInv /\ BitsInv /\ CacheInv
        /\ ~outOfTurn => TurnInv
    BY <1>2 DEF DialogInv
  <2>2. /\ menuRefCount' = menuRefCount /\ framebufferCache' = framebufferCache
        /\ drawLock' = drawLock /\ rosalinaState' = rosalinaState /\ paused' = paused
        /\ app' = app /\ thread' = thread /\ crashed' = crashed /\ outOfTurn' = outOfTurn
    BY DEF Menu!screen, Menu!kernel, Menu!ghosts
  <2>3. /\ Menu!InKernel' = Menu!InKernel
        /\ \A s \in Menu!Threads : Menu!Place(s)' = Menu!Place(s)
    BY <2>2 DEF Menu!InKernel, Menu!Place
  <2>4. DialogTypes' /\ PlacesInv' /\ LockInv'
    BY <2>1, <2>2, <2>3 DEF DialogTypes, PlacesInv, LockInv
  <2>5. KernelInv'
    BY <2>1, <2>2, <2>3 DEF KernelInv, Before
  <2>6. BitsInv' /\ CacheInv'
    <3>1. "menu" \in Menu!Threads /\ "main" \in Menu!Threads
      BY DEF Menu!Threads
    <3>2. \A v : Pending(v)' <=> Pending(v)
      BY <2>2 DEF Pending, Before
    <3> QED
      BY <2>1, <2>2, <2>3, <3>1, <3>2 DEF BitsInv, CacheInv, Shown, Inverted, WillLeave
  <2>7. ~outOfTurn' => TurnInv'
    <3>1. Menu!Drawing' = Menu!Drawing
      BY <2>3 DEF Menu!Drawing
    <3>2. \A s \in Menu!Drawing :
            WillLeave(Menu!Place(s), thread[s].then)' <=>
            WillLeave(Menu!Place(s), thread[s].then)
      BY <2>2, <2>3 DEF Menu!Drawing, WillLeave
    <3> QED
      BY <2>1, <2>2, <2>3, <3>1, <3>2 DEF TurnInv
  <2> QED
    BY <1>2, <2>2, <2>4, <2>5, <2>6, <2>7 DEF DialogInv
<1> QED
  BY <1>1, <1>2 DEF DialogInv

\* The kernel's steps: nobody's place changes, nor does the screen.
LEMMA KernelDialogs ==
  ASSUME DialogInv, ~crashed, UNCHANGED <<Menu!screen, drawLock, Menu!flags, Menu!ghosts>>,
         thread' \in [Menu!Threads -> ThreadTypes],
         \A s \in Menu!Threads :
           Menu!Place(s)' = Menu!Place(s) /\ thread'[s].then = thread[s].then,
         rosalinaState' \subseteq {"app", "gsp"}, paused' \subseteq {"app", "gsp"},
         app' \in {"user", "post"},
         KernelInv',
         \A v \in {"app", "gsp"} :
           (v \in rosalinaState' <=> ~Pending(v)') <=> (v \in rosalinaState <=> ~Pending(v))
  PROVE  DialogInv'
<1>1. /\ DialogTypes /\ PlacesInv /\ LockInv /\ BitsInv /\ CacheInv
      /\ ~outOfTurn => TurnInv
  BY DEF DialogInv
<1>2. DialogTypes'
  BY <1>1 DEF DialogTypes, Menu!screen, Menu!flags
<1>3. PlacesInv' /\ LockInv'
  BY <1>1 DEF PlacesInv, LockInv
<1>4. "menu" \in Menu!Threads /\ "main" \in Menu!Threads
  BY DEF Menu!Threads
<1>5. (Shown' <=> Shown) /\ \A s \in Menu!Threads : Inverted(s)' <=> Inverted(s)
  BY DEF Shown, Menu!screen, Inverted
<1>6. BitsInv'
  BY <1>1, <1>4, <1>5 DEF BitsInv
<1>7. \A s \in Menu!Threads :
         WillLeave(Menu!Place(s), thread[s].then)' <=> WillLeave(Menu!Place(s), thread[s].then)
  BY DEF WillLeave
<1>8. CacheInv'
  BY <1>1, <1>5, <1>7 DEF CacheInv, Menu!screen
<1>9. ~outOfTurn' => TurnInv'
  <2>1. Menu!Drawing' = Menu!Drawing /\ \A s \in Menu!Drawing : s \in Menu!Threads
    BY DEF Menu!Drawing
  <2> QED
    BY <1>1, <1>7, <2>1 DEF TurnInv, Menu!screen, Menu!ghosts
<1> QED
  BY <1>2, <1>3, <1>6, <1>8, <1>9 DEF DialogInv, Menu!ghosts

\* A thread in a call of KernelSetState is alone there.
LEMMA AloneInKernel ==
  ASSUME DialogInv, ~crashed, NEW t \in Menu!Threads, thread[t].at \in KernelPlaces
  PROVE  /\ Menu!InKernel = {t} /\ DialogTypes /\ KernelInv
         /\ \A s \in Menu!Threads \ {t} :
              thread[s].at \notin KernelPlaces /\ Menu!Place(s) = thread[s].at
         /\ Menu!Place(t) = thread[t].after /\ thread[t].after \in ScreenPlaces \ Menu!Idle
         /\ \A v : Pending(v) <=> thread[t].at = "xor" /\ v \in thread[t].bits
         /\ thread[t].bits \subseteq {"app", "gsp"}
<1>1. DialogTypes /\ KernelInv
  BY DEF DialogInv
<1>2. \A s \in Menu!Threads : s \in Menu!InKernel <=> thread[s].at \in KernelPlaces
  BY DEF Menu!InKernel, KernelPlaces
<1>3. Menu!InKernel = {t}
  BY <1>1, <1>2 DEF KernelInv, Menu!InKernel
<1>4. \A s \in Menu!Threads \ {t} : thread[s].at \notin KernelPlaces
  BY <1>2, <1>3
<1>5. \A v : Pending(v) <=> thread[t].at = "xor" /\ v \in thread[t].bits
  BY <1>4 DEF Pending, Before, KernelPlaces
<1>6. thread[t].bits \subseteq {"app", "gsp"}
  BY <1>1 DEF DialogTypes, ThreadTypes
<1> QED
  BY <1>1, <1>3, <1>4, <1>5, <1>6 DEF Menu!Place, KernelInv

\* The bits are inverted.
LEMMA XorDialogs ==
  ASSUME DialogInv, NEW t \in Menu!Threads, Menu!Xor(t)
  PROVE  DialogInv'
<1>1. ~crashed /\ thread[t].at = "xor" /\ app = "user" /\ thread[t].at \in KernelPlaces
  BY DEF Menu!Xor, Menu!At, Menu!Runs, KernelPlaces
<1>2. /\ Menu!InKernel = {t} /\ DialogTypes /\ KernelInv
      /\ \A s \in Menu!Threads \ {t} :
           thread[s].at \notin KernelPlaces /\ Menu!Place(s) = thread[s].at
      /\ Menu!Place(t) = thread[t].after /\ thread[t].after \in ScreenPlaces \ Menu!Idle
      /\ \A v : Pending(v) <=> v \in thread[t].bits
      /\ thread[t].bits \subseteq {"app", "gsp"}
  BY <1>1, AloneInKernel
<1>3. /\ thread' \in [Menu!Threads -> ThreadTypes]
      /\ thread'[t].at = "decide" /\ thread'[t].then = thread[t].then
      /\ thread'[t].bits = thread[t].bits /\ thread'[t].after = thread[t].after
      /\ \A s \in Menu!Threads \ {t} : thread'[s] = thread[s]
  BY <1>2 DEF Menu!Xor, Menu!Goto, DialogTypes, ThreadTypes, KernelPlaces
<1>4. /\ Menu!InKernel' = {t}
      /\ \A s \in Menu!Threads :
           Menu!Place(s)' = Menu!Place(s) /\ thread'[s].then = thread[s].then
  BY <1>2, <1>3 DEF Menu!InKernel, KernelPlaces, Menu!Place
<1>5. \A v : ~Pending(v)'
  BY <1>2, <1>3 DEF Pending, Before, KernelPlaces
<1>6. /\ rosalinaState' \subseteq {"app", "gsp"} /\ paused' = paused /\ app' = app
      /\ \A v \in {"app", "gsp"} :
           v \in rosalinaState' <=> (v \in rosalinaState <=> v \notin thread[t].bits)
      /\ UNCHANGED <<Menu!screen, drawLock, Menu!flags, Menu!ghosts>>
  BY <1>2 DEF Menu!Xor, DialogTypes
<1>7. paused = rosalinaState
  BY <1>1, <1>2 DEF KernelInv, Before
<1>8. KernelInv'
  BY <1>1, <1>2, <1>3, <1>4, <1>6, <1>7 DEF KernelInv, Before
<1> QED
  BY <1>1, <1>2, <1>3, <1>4, <1>5, <1>6, <1>8, KernelDialogs DEF DialogTypes

\* The call returns, or what to do about a bit is decided.
LEMMA DecideDialogs ==
  ASSUME DialogInv, NEW t \in Menu!Threads, Menu!Decide(t)
  PROVE  DialogInv'
<1> DEFINE v == IF "gsp" \in thread[t].bits THEN "gsp" ELSE "app"
<1>1. ~crashed /\ thread[t].at = "decide" /\ app = "user" /\ thread[t].at \in KernelPlaces
  BY DEF Menu!Decide, Menu!At, Menu!Runs, KernelPlaces
<1>2. /\ Menu!InKernel = {t} /\ DialogTypes /\ KernelInv
      /\ \A s \in Menu!Threads \ {t} :
           thread[s].at \notin KernelPlaces /\ Menu!Place(s) = thread[s].at
      /\ Menu!Place(t) = thread[t].after /\ thread[t].after \in ScreenPlaces \ Menu!Idle
      /\ \A w : ~Pending(w)
      /\ thread[t].bits \subseteq {"app", "gsp"}
  BY <1>1, AloneInKernel
<1>3. UNCHANGED <<Menu!screen, drawLock, Menu!flags, Menu!ghosts>> /\ UNCHANGED Menu!kernel
  BY DEF Menu!Decide
<1>4. CASE thread[t].bits = {}
  <2>1. /\ thread' \in [Menu!Threads -> ThreadTypes]
        /\ thread'[t].at = thread[t].after /\ thread'[t].then = thread[t].then
        /\ \A s \in Menu!Threads \ {t} : thread'[s] = thread[s]
    BY <1>2, <1>4 DEF Menu!Decide, DialogTypes, ThreadTypes
  <2>2. \A s \in Menu!Threads : thread'[s].at \notin KernelPlaces
    BY <1>2, <2>1 DEF ScreenPlaces, KernelPlaces, Locking, Filtering
  <2>3. /\ Menu!InKernel' = {}
        /\ \A s \in Menu!Threads :
             Menu!Place(s)' = Menu!Place(s) /\ thread'[s].then = thread[s].then
    BY <1>2, <2>1, <2>2 DEF Menu!InKernel, KernelPlaces, Menu!Place
  <2>4. \A w : ~Pending(w)'
    BY <2>2 DEF Pending, Before, KernelPlaces
  <2>5. paused = rosalinaState
    <3>1. \A w \in {"app", "gsp"} : w \in paused <=> w \in rosalinaState
      BY <1>2, <1>4 DEF KernelInv
    <3>2. paused \subseteq {"app", "gsp"} /\ rosalinaState \subseteq {"app", "gsp"}
      BY <1>2 DEF DialogTypes
    <3>3. \A w : w \in paused <=> w \in rosalinaState
      BY <3>1, <3>2
    <3> QED
      BY <3>3
  <2>6. KernelInv'
    BY <1>1, <1>3, <2>3, <2>5 DEF KernelInv, Menu!kernel
  <2> QED
    BY <1>1, <1>2, <1>3, <2>1, <2>3, <2>4, <2>6, KernelDialogs DEF DialogTypes, Menu!kernel
<1>5. CASE thread[t].bits # {}
  <2>1. /\ thread' \in [Menu!Threads -> ThreadTypes]
        /\ thread'[t].at = IF v \in rosalinaState THEN "pause" ELSE "resume"
        /\ thread'[t].then = thread[t].then
        /\ thread'[t].bits = thread[t].bits /\ thread'[t].after = thread[t].after
        /\ \A s \in Menu!Threads \ {t} : thread'[s] = thread[s]
    BY <1>2, <1>5
    DEF Menu!Decide, Menu!Goto, Menu!BitIsSet, DialogTypes, ThreadTypes, KernelPlaces
  <2>2. /\ Menu!InKernel' = {t}
        /\ \A s \in Menu!Threads :
             Menu!Place(s)' = Menu!Place(s) /\ thread'[s].then = thread[s].then
    BY <1>2, <2>1 DEF Menu!InKernel, KernelPlaces, Menu!Place
  <2>3. \A w : ~Pending(w)'
    BY <1>2, <2>1 DEF Pending, Before, KernelPlaces
  <2>4. KernelInv'
    BY <1>1, <1>2, <1>3, <1>5, <2>1, <2>2 DEF KernelInv, Menu!kernel, Before
  <2> QED
    BY <1>1, <1>2, <1>3, <2>1, <2>2, <2>3, <2>4, KernelDialogs DEF DialogTypes, Menu!kernel
<1> QED
  BY <1>4, <1>5

\* What was decided is done.
LEMMA LockOrUnlockDialogs ==
  ASSUME DialogInv, NEW t \in Menu!Threads, Menu!LockOrUnlock(t)
  PROVE  DialogInv'
<1> DEFINE v == IF "gsp" \in thread[t].bits THEN "gsp" ELSE "app"
<1>1. /\ ~crashed /\ thread[t].at \in {"pause", "resume"} /\ app = "user"
      /\ thread[t].at \in KernelPlaces /\ thread[t].at # "xor"
  BY DEF Menu!LockOrUnlock, Menu!At, Menu!Runs, KernelPlaces
<1>2. /\ Menu!InKernel = {t} /\ DialogTypes /\ KernelInv
      /\ \A s \in Menu!Threads \ {t} :
           thread[s].at \notin KernelPlaces /\ Menu!Place(s) = thread[s].at
      /\ Menu!Place(t) = thread[t].after /\ thread[t].after \in ScreenPlaces \ Menu!Idle
      /\ \A w : ~Pending(w)
      /\ thread[t].bits \subseteq {"app", "gsp"}
  BY <1>1, AloneInKernel
<1>3. /\ UNCHANGED <<Menu!screen, drawLock, Menu!flags, Menu!ghosts>>
      /\ rosalinaState' = rosalinaState /\ app' = app
      /\ paused' = IF thread[t].at = "pause" THEN paused \cup {v} ELSE paused \ {v}
  BY DEF Menu!LockOrUnlock
<1>4. /\ thread' \in [Menu!Threads -> ThreadTypes]
      /\ thread'[t].at = "decide" /\ thread'[t].then = thread[t].then
      /\ thread'[t].bits = thread[t].bits \ {v} /\ thread'[t].after = thread[t].after
      /\ \A s \in Menu!Threads \ {t} : thread'[s] = thread[s]
  <2> DEFINE B == thread[t].bits \ {v}
  <2>1. thread' = [thread EXCEPT ![t].at = "decide", ![t].bits = B]
    BY DEF Menu!LockOrUnlock
  <2>2. /\ B \in SUBSET {"app", "gsp"} /\ thread \in [Menu!Threads -> ThreadTypes]
        /\ "decide" \in KernelPlaces
    BY <1>2 DEF DialogTypes, KernelPlaces
  <2> HIDE DEF B
  <2>3. /\ thread' \in [Menu!Threads -> ThreadTypes]
        /\ thread'[t].at = "decide" /\ thread'[t].then = thread[t].then
        /\ thread'[t].bits = B /\ thread'[t].after = thread[t].after
        /\ \A s \in Menu!Threads \ {t} : thread'[s] = thread[s]
    BY <2>1, <2>2 DEF ThreadTypes
  <2> QED
    BY <2>3 DEF B
<1>5. /\ Menu!InKernel' = {t}
      /\ \A s \in Menu!Threads :
           Menu!Place(s)' = Menu!Place(s) /\ thread'[s].then = thread[s].then
  BY <1>2, <1>4 DEF Menu!InKernel, KernelPlaces, Menu!Place
<1>6. \A w : ~Pending(w)'
  BY <1>2, <1>4 DEF Pending, Before, KernelPlaces
<1>7. thread[t].at = "pause" <=> v \in rosalinaState
  BY <1>1, <1>2 DEF KernelInv
<1>8. \A w \in {"app", "gsp"} \ thread'[t].bits : w \in paused' <=> w \in rosalinaState'
  BY <1>2, <1>3, <1>4, <1>7 DEF KernelInv
<1>9. KernelInv'
  BY <1>1, <1>2, <1>3, <1>4, <1>5, <1>8 DEF KernelInv, Before
<1> QED
  BY <1>1, <1>2, <1>3, <1>4, <1>5, <1>6, <1>9, KernelDialogs DEF DialogTypes

\* An application at the end of a system call.
LEMMA PostprocessSvcDialogs ==
  ASSUME DialogInv, Menu!PostprocessSvc
  PROVE  DialogInv'
<1>1. DialogTypes /\ KernelInv
  BY DEF DialogInv, Menu!PostprocessSvc
<1>2. /\ Menu!InKernel' = Menu!InKernel
      /\ \A s \in Menu!Threads :
           Menu!Place(s)' = Menu!Place(s) /\ thread'[s].then = thread[s].then
  BY DEF Menu!PostprocessSvc, Menu!InKernel, Menu!Place
<1>3. \A v : Pending(v)' <=> Pending(v)
  BY DEF Menu!PostprocessSvc, Pending, Before
<1>4. KernelInv'
  BY <1>1, <1>2 DEF Menu!PostprocessSvc, KernelInv, Before
<1> QED
  BY <1>1, <1>2, <1>3, <1>4, KernelDialogs DEF Menu!PostprocessSvc, DialogTypes

LEMMA PauseItselfDialogs ==
  ASSUME DialogInv, Menu!PauseItself
  PROVE  DialogInv'
<1>1. DialogTypes /\ KernelInv
  BY DEF DialogInv, Menu!PauseItself
<1>2. /\ Menu!InKernel' = Menu!InKernel
      /\ \A s \in Menu!Threads :
           Menu!Place(s)' = Menu!Place(s) /\ thread'[s].then = thread[s].then
  BY DEF Menu!PauseItself, Menu!InKernel, Menu!Place
<1>3. \A v : Pending(v)' <=> Pending(v)
  BY DEF Menu!PauseItself, Pending, Before
<1>4. "app" \in rosalinaState \ paused /\ paused # rosalinaState
  BY <1>1 DEF KernelInv, Menu!PauseItself
<1>5. KernelInv'
  BY <1>1, <1>2, <1>4 DEF Menu!PauseItself, KernelInv, Before
<1> QED
  BY <1>1, <1>2, <1>3, <1>5, KernelDialogs DEF Menu!PauseItself, DialogTypes

\* What the steps have in common that change the screen: all but the cache
\* and the turns.
LEMMA MoveParts ==
  ASSUME DialogInv, NEW t \in Menu!Threads, NEW p \in ScreenPlaces, Menu!At(t, p),
         NEW q \in ScreenPlaces, NEW n, Moves(t, q, n), GoesOn(t, q, n), LockMoves(t, p, q),
         UNCHANGED <<Menu!kernel, Menu!flags>>, Shown' <=> Shown,
         p \in {"apply", "brightness"} <=> q \in {"apply", "brightness"},
         menuRefCount' \in Int, menuRefCount' <= 1, framebufferCache' \in BOOLEAN
  PROVE  /\ PlaceMoves(t, p, q, n) /\ DialogTypes' /\ PlacesInv' /\ LockInv' /\ KernelInv'
         /\ BitsInv'
<1>1. DialogTypes /\ PlacesInv /\ LockInv /\ BitsInv
  BY Here
<1>2. PlaceMoves(t, p, q, n) /\ KernelInv' /\ \A v : ~Pending(v) /\ ~Pending(v)'
  BY QuietStep
<1>3. PlacesInv' /\ BitsInv'
  BY <1>1, <1>2, PlacesKept, BitsKept DEF Menu!kernel
<1>4. LockInv' /\ drawLock' \in [owner : Menu!Threads \cup {Menu!Nobody}, count : 0..1]
  BY <1>1, <1>2, LockMoved
<1>5. DialogTypes'
  BY <1>1, <1>4 DEF DialogTypes, Moves, Menu!kernel, Menu!flags
<1> QED
  BY <1>2, <1>3, <1>4, <1>5

\* A call of KernelSetState pays for what was shown or filtered meanwhile.
LEMMA ToggleParts ==
  ASSUME DialogInv, NEW t \in Menu!Threads, NEW p \in ScreenPlaces, Menu!At(t, p),
         NEW q \in ScreenPlaces \ Menu!Idle, NEW B \in SUBSET {"app", "gsp"},
         Menu!Toggle(t, B, q),
         GoesOn(t, q, thread[t].then), LockMoves(t, p, q),
         UNCHANGED <<Menu!kernel, Menu!flags>>,
         "app" \in B <=> ~(Shown' <=> Shown),
         "gsp" \in B <=>
           ~((Shown' <=> Shown) <=>
             (p \in {"apply", "brightness"} <=> q \in {"apply", "brightness"})),
         menuRefCount' \in Int, menuRefCount' <= 1, framebufferCache' \in BOOLEAN
  PROVE  /\ PlaceMoves(t, p, q, thread[t].then)
         /\ DialogTypes' /\ PlacesInv' /\ LockInv' /\ KernelInv' /\ BitsInv'
<1>1. /\ DialogTypes /\ PlacesInv /\ LockInv /\ BitsInv /\ Menu!Place(t) = p
      /\ GoesOn(t, p, thread[t].then)
  BY Here
<1>2. /\ thread' \in [Menu!Threads -> ThreadTypes]
      /\ PlaceMoves(t, p, q, thread[t].then) /\ KernelInv'
      /\ \A v : ~Pending(v) /\ (Pending(v)' <=> v \in B)
  BY ToggleStep DEF Menu!kernel
<1>3. PlacesInv'
  BY <1>1, <1>2, PlacesKept
<1>4. LockInv' /\ drawLock' \in [owner : Menu!Threads \cup {Menu!Nobody}, count : 0..1]
  BY <1>1, <1>2, LockMoved
<1>5. DialogTypes'
  BY <1>1, <1>2, <1>4 DEF DialogTypes, Menu!kernel, Menu!flags
<1>6. BitsInv'
  <2>1. /\ "menu" \in Menu!Threads /\ "main" \in Menu!Threads /\ rosalinaState' = rosalinaState
        /\ t \in {"menu", "main", "errdisp"}
    BY DEF Menu!Threads, Menu!kernel
  <2>2. \A s \in Menu!Threads \ {t} : Inverted(s)' <=> Inverted(s)
    BY <1>2 DEF PlaceMoves, Inverted
  <2>3. /\ Inverted(t) <=> p \in {"apply", "brightness"}
        /\ Inverted(t)' <=> q \in {"apply", "brightness"}
    BY <1>1, <1>2 DEF PlaceMoves, Inverted
  <2>4. t = "errdisp" => ~Inverted(t) /\ ~Inverted(t)'
    BY <1>1, <2>3 DEF GoesOn, Filtering
  <2>5. (Inverted("menu")' <=> Inverted("main")') <=>
        ((Inverted("menu") <=> Inverted("main")) <=>
         (p \in {"apply", "brightness"} <=> q \in {"apply", "brightness"}))
    <3>1. CASE t = "menu"
      BY <2>1, <2>2, <2>3, <3>1
    <3>2. CASE t = "main"
      BY <2>1, <2>2, <2>3, <3>2
    <3>3. CASE t = "errdisp"
      BY <2>1, <2>2, <2>3, <2>4, <3>3
    <3> QED
      BY <2>1, <3>1, <3>2, <3>3
  <2> QED
    BY <1>1, <1>2, <2>1, <2>5 DEF BitsInv
<1> QED
  BY <1>2, <1>3, <1>4, <1>5, <1>6

\* menuEnter shows, or finds something shown.
LEMMA menuEnterDialogs ==
  ASSUME DialogInv, NEW t \in Menu!Threads, Menu!menuEnter(t)
  PROVE  DialogInv'
<1>1. /\ "entering" \in ScreenPlaces /\ Menu!At(t, "entering")
      /\ "unlock" \in ScreenPlaces \ Menu!Idle /\ "allocate" \in ScreenPlaces \ Menu!Idle
  BY DEF Menu!menuEnter, ScreenPlaces, Menu!Idle, Locking, Filtering
<1>2. /\ ~crashed /\ DialogTypes /\ GoesOn(t, "entering", thread[t].then)
      /\ outOfTurn \in BOOLEAN
      /\ LockInv /\ CacheInv /\ (~outOfTurn => TurnInv) /\ drawLock.owner = t
  BY <1>1, Here DEF Locking
<1>3. CASE Menu!NothingShown
  <2>1. /\ menuRefCount = 0 /\ menuRefCount' = 1 /\ Menu!Toggle(t, {"app", "gsp"}, "allocate")
        /\ outOfTurn' = outOfTurn /\ crashed' = crashed
        /\ framebufferCache' = framebufferCache
        /\ UNCHANGED <<Menu!kernel, Menu!flags, drawLock>>
    BY <1>3 DEF Menu!menuEnter, Menu!NothingShown
  <2>2. ~Shown /\ Shown' /\ ~framebufferCache
    BY <1>2, <2>1 DEF Shown, CacheInv
  <2>3. GoesOn(t, "allocate", thread[t].then) /\ LockMoves(t, "entering", "allocate")
    BY <1>1, <1>2, <2>1 DEF GoesOn, Enters, Leaves, Filtering, LockMoves, Locking
  <2>4. /\ PlaceMoves(t, "entering", "allocate", thread[t].then)
        /\ DialogTypes' /\ PlacesInv' /\ LockInv' /\ KernelInv' /\ BitsInv'
    BY <1>1, <1>2, <2>1, <2>2, <2>3, ToggleParts DEF DialogTypes
  <2>5. WillLeave("allocate", thread[t].then)
    BY DEF WillLeave, Making
  <2>6. CacheInv'
    BY <1>2, <2>1, <2>2, <2>4, <2>5, CacheMoved DEF Making
  <2>7. ~outOfTurn' => TurnInv'
    BY <1>2, <2>1, <2>4, <2>5, TurnMoved DEF Menu!Idle, Leaves
  <2> QED
    BY <1>2, <2>1, <2>4, <2>6, <2>7 DEF DialogInv
<1>4. CASE ~Menu!NothingShown
  <2>1. /\ Menu!Goto(t, "unlock") /\ outOfTurn' = TRUE
        /\ UNCHANGED <<Menu!screen, drawLock, Menu!flags, Menu!kernel, crashed>>
    BY <1>4 DEF Menu!menuEnter, Menu!screen
  <2>2. Moves(t, "unlock", thread[t].then)
    BY <1>1, <1>2, <2>1, GotoMoves
  <2>3. GoesOn(t, "unlock", thread[t].then) /\ LockMoves(t, "entering", "unlock")
    BY <1>1, <1>2, <2>1 DEF GoesOn, Enters, Leaves, Filtering, LockMoves, Locking
  <2>4. /\ "entering" \notin Making /\ "unlock" \notin Making
        /\ ~WillLeave("entering", thread[t].then)
    BY DEF Making, WillLeave, Leaves
  <2>5. menuShouldExit' \in BOOLEAN /\ rosalinaOpen' \in BOOLEAN
    BY <1>2, <2>1 DEF DialogTypes, Menu!flags
  <2> QED
    BY <1>1, <2>1, <2>2, <2>3, <2>4, <2>5, QuietDialogs
<1> QED
  BY <1>3, <1>4

\* The cache is made, or everything is resumed.
LEMMA AllocateDialogs ==
  ASSUME DialogInv, NEW t \in Menu!Threads, Menu!Allocate(t)
  PROVE  DialogInv'
<1>1. /\ "allocate" \in ScreenPlaces /\ Menu!At(t, "allocate")
      /\ "unlock" \in ScreenPlaces \ Menu!Idle
  BY DEF Menu!Allocate, ScreenPlaces, Menu!Idle, Locking, Filtering
<1>2. /\ ~crashed /\ DialogTypes /\ GoesOn(t, "allocate", thread[t].then)
      /\ outOfTurn \in BOOLEAN
      /\ LockInv /\ CacheInv /\ (~outOfTurn => TurnInv) /\ drawLock.owner = t
      /\ Menu!Place(t) = "allocate"
  BY <1>1, Here DEF Locking
<1>3. ~framebufferCache /\ Shown
  BY <1>2 DEF CacheInv, Making
<1>4. /\ GoesOn(t, "unlock", thread[t].then)
      /\ UNCHANGED drawLock => LockMoves(t, "allocate", "unlock")
      /\ WillLeave("unlock", thread[t].then)
  BY <1>1, <1>2 DEF GoesOn, Enters, Leaves, Filtering, LockMoves, Locking, WillLeave
<1>5. CASE /\ framebufferCache' = TRUE /\ Menu!Goto(t, "unlock")
           /\ UNCHANGED <<menuRefCount, Menu!ghosts>>
  <2>1. UNCHANGED <<drawLock, Menu!flags, Menu!kernel>> /\ Shown'
    BY <1>3, <1>5 DEF Menu!Allocate, Shown
  <2>2. Moves(t, "unlock", thread[t].then)
    BY <1>1, <1>2, <1>5, GotoMoves
  <2>3. /\ PlaceMoves(t, "allocate", "unlock", thread[t].then)
        /\ DialogTypes' /\ PlacesInv' /\ LockInv' /\ KernelInv' /\ BitsInv'
    BY <1>1, <1>2, <1>3, <1>4, <1>5, <2>1, <2>2, MoveParts DEF DialogTypes
  <2>4. CacheInv'
    BY <1>2, <1>4, <1>5, <2>1, <2>3, CacheMoved DEF Making
  <2>5. ~outOfTurn' => TurnInv'
    BY <1>2, <1>3, <1>4, <1>5, <2>3, TurnMoved DEF Menu!Idle, Leaves, Shown, Menu!ghosts
  <2> QED
    BY <1>2, <1>5, <2>3, <2>4, <2>5 DEF DialogInv, Menu!ghosts
<1>6. CASE /\ menuRefCount' = 0 /\ Menu!Toggle(t, {"app", "gsp"}, "unlock") /\ outOfTurn' = TRUE
           /\ UNCHANGED <<framebufferCache, crashed>>
  <2>1. UNCHANGED <<drawLock, Menu!flags, Menu!kernel>> /\ ~Shown' /\ ~framebufferCache'
    BY <1>3, <1>6 DEF Menu!Allocate, Shown
  <2>2. /\ PlaceMoves(t, "allocate", "unlock", thread[t].then)
        /\ DialogTypes' /\ PlacesInv' /\ LockInv' /\ KernelInv' /\ BitsInv'
    BY <1>1, <1>2, <1>3, <1>4, <1>6, <2>1, ToggleParts DEF DialogTypes
  <2>3. CacheInv'
    BY <1>2, <2>1, <2>2, CacheMoved DEF Making
  <2> QED
    BY <1>2, <1>6, <2>2, <2>3 DEF DialogInv
<1> QED
  BY <1>3, <1>5, <1>6 DEF Menu!Allocate

\* The last one drops the cache; without one it is not the last.
LEMMA menuLeaveDialogs ==
  ASSUME DialogInv, NEW t \in Menu!Threads, Menu!menuLeave(t)
  PROVE  DialogInv'
<1>1. /\ "leaving" \in ScreenPlaces /\ Menu!At(t, "leaving")
      /\ "unlock" \in ScreenPlaces \ Menu!Idle
  BY DEF Menu!menuLeave, ScreenPlaces, Menu!Idle, Locking, Filtering
<1>2. /\ ~crashed /\ DialogTypes /\ GoesOn(t, "leaving", thread[t].then)
      /\ outOfTurn \in BOOLEAN
      /\ LockInv /\ CacheInv /\ (~outOfTurn => TurnInv) /\ drawLock.owner = t
      /\ Menu!Place(t) = "leaving"
  BY <1>1, Here DEF Locking
<1>3. /\ GoesOn(t, "unlock", thread[t].then)
      /\ UNCHANGED drawLock => LockMoves(t, "leaving", "unlock")
      /\ WillLeave("unlock", thread[t].then) => thread[t].then = "show"
      /\ WillLeave("leaving", thread[t].then)
  BY <1>1, <1>2 DEF GoesOn, Enters, Leaves, Filtering, LockMoves, Locking, WillLeave, Making
<1>4. ~outOfTurn => menuRefCount = 1 /\ thread[t].then # "show"
  BY <1>2, <1>3 DEF TurnInv, Menu!Drawing, Menu!Idle, Leaves
<1>5. \A s \in Menu!Threads : Menu!Place(s) \notin Making
  BY <1>2 DEF LockInv, Making, Locking
<1>6. /\ UNCHANGED <<drawLock, Menu!flags, Menu!kernel, outOfTurn>>
      /\ menuRefCount' = menuRefCount - 1
  BY DEF Menu!menuLeave
<1>7. CASE Menu!LastLeaves
  <2>1. /\ framebufferCache /\ Shown /\ menuRefCount' = 0 /\ ~Shown'
        /\ Menu!Toggle(t, {"app", "gsp"}, "unlock")
        /\ framebufferCache' = FALSE /\ crashed' = FALSE
    <3>1. Shown /\ framebufferCache = TRUE
      BY <1>2, <1>5, <1>7 DEF Menu!LastLeaves, Shown, CacheInv, DialogTypes
    <3>2. menuRefCount' = 0
      BY <1>6, <1>7 DEF Menu!LastLeaves
    <3>3. /\ Menu!Toggle(t, {"app", "gsp"}, "unlock") /\ framebufferCache' = FALSE
          /\ crashed' = ~framebufferCache
      BY <1>7 DEF Menu!menuLeave
    <3>4. crashed' = FALSE
      BY <3>1, <3>3
    <3>5. ~Shown'
      BY <3>2 DEF Shown
    <3> QED
      BY <3>1, <3>2, <3>3, <3>4, <3>5
  <2>2. /\ PlaceMoves(t, "leaving", "unlock", thread[t].then)
        /\ DialogTypes' /\ PlacesInv' /\ LockInv' /\ KernelInv' /\ BitsInv'
    <3>1. menuRefCount' \in Int /\ menuRefCount' <= 1 /\ framebufferCache' \in BOOLEAN
      <4>1. menuRefCount' = 0
        BY <2>1
      <4>2. framebufferCache' \in BOOLEAN
        BY <2>1
      <4> QED
        BY <4>1, <4>2
    <3>2. UNCHANGED <<Menu!kernel, Menu!flags>> /\ LockMoves(t, "leaving", "unlock")
      BY <1>3, <1>6
    <3> QED
      BY <1>1, <1>3, <2>1, <3>1, <3>2, ToggleParts
  <2>3. CacheInv'
    BY <1>2, <2>1, <2>2, CacheMoved DEF Making
  <2>4. ~outOfTurn' => TurnInv'
    BY <1>2, <1>3, <1>4, <1>6, <2>1, <2>2, TurnMoved DEF Menu!Idle, Leaves
  <2> QED
    BY <1>2, <1>6, <2>1, <2>2, <2>3, <2>4 DEF DialogInv
<1>8. CASE ~Menu!LastLeaves
  <2>1. /\ Menu!Goto(t, "unlock") /\ framebufferCache' = framebufferCache /\ crashed' = crashed
        /\ ~Shown /\ ~framebufferCache /\ menuRefCount \in Int /\ menuRefCount <= 0
    BY <1>2, <1>8 DEF Menu!menuLeave, Menu!LastLeaves, Shown, CacheInv, DialogTypes
  <2>2. ~Shown' /\ menuRefCount' \in Int /\ menuRefCount' <= 1
    BY <1>6, <2>1 DEF Shown
  <2>3. Moves(t, "unlock", thread[t].then)
    BY <1>1, <1>2, <2>1, GotoMoves
  <2>4. /\ PlaceMoves(t, "leaving", "unlock", thread[t].then)
        /\ DialogTypes' /\ PlacesInv' /\ LockInv' /\ KernelInv' /\ BitsInv'
    BY <1>1, <1>2, <1>3, <1>6, <2>1, <2>2, <2>3, MoveParts DEF DialogTypes
  <2>5. CacheInv'
    BY <1>2, <2>1, <2>2, <2>4, CacheMoved DEF Making
  <2>6. outOfTurn
    BY <1>2, <1>4, <2>1
  <2> QED
    BY <1>2, <1>6, <2>1, <2>4, <2>5, <2>6 DEF DialogInv
<1> QED
  BY <1>7, <1>8

\* The brightness is changed without a cache, and gsp runs.
LEMMA ChangeBrightnessDialogs ==
  ASSUME DialogInv, NEW t \in Menu!Threads, Menu!ChangeBrightness(t)
  PROVE  DialogInv'
<1>1. "show" \in ScreenPlaces /\ Menu!At(t, "show") /\ "brightness" \in ScreenPlaces \ Menu!Idle
  BY DEF Menu!ChangeBrightness, ScreenPlaces, Menu!Idle, Locking, Filtering
<1>2. /\ ~crashed /\ DialogTypes /\ GoesOn(t, "show", thread[t].then) /\ outOfTurn \in BOOLEAN
      /\ LockInv /\ CacheInv /\ (~outOfTurn => TurnInv)
      /\ Menu!Place(t) = "show" /\ drawLock.owner # t
  BY <1>1, Here DEF Locking
<1>3. /\ GoesOn(t, "brightness", thread[t].then) /\ LockMoves(t, "show", "brightness")
      /\ WillLeave("show", thread[t].then) /\ WillLeave("brightness", thread[t].then)
  BY <1>1, <1>2
  DEF Menu!ChangeBrightness, GoesOn, Enters, Leaves, Filtering, LockMoves, Locking,
     WillLeave, Making
<1>4. /\ framebufferCache' = FALSE /\ crashed' = ~framebufferCache
      /\ Menu!Toggle(t, {"gsp"}, "brightness")
      /\ UNCHANGED <<menuRefCount, Menu!flags, Menu!kernel, outOfTurn>>
      /\ drawLock.owner = Menu!Nobody
  BY <1>2 DEF Menu!ChangeBrightness, Menu!Draw_Lock
<1>5. \A s \in Menu!Threads : Menu!Place(s) \notin Making
  BY <1>2, <1>4 DEF LockInv, Making, Locking, Menu!Threads, Menu!Nobody
<1>6. ~outOfTurn => menuRefCount = 1
  BY <1>2, <1>3 DEF TurnInv, Menu!Drawing, Menu!Idle
<1>7. CASE ~framebufferCache
  <2>1. outOfTurn
    BY <1>2, <1>5, <1>6, <1>7 DEF CacheInv, Shown
  <2> QED
    BY <1>4, <1>7, <2>1 DEF DialogInv
<1>8. CASE framebufferCache
  <2>1. Shown /\ Shown' /\ crashed' = FALSE
    BY <1>2, <1>4, <1>8 DEF CacheInv, Shown
  <2>2. /\ PlaceMoves(t, "show", "brightness", thread[t].then)
        /\ DialogTypes' /\ PlacesInv' /\ LockInv' /\ KernelInv' /\ BitsInv'
    BY <1>1, <1>2, <1>3, <1>4, <2>1, ToggleParts DEF DialogTypes
  <2>3. CacheInv'
    BY <1>2, <1>3, <1>4, <2>1, <2>2, CacheMoved DEF Making
  <2>4. ~outOfTurn' => TurnInv'
    BY <1>2, <1>3, <1>4, <1>6, <2>2, TurnMoved DEF Menu!Idle, Leaves
  <2> QED
    BY <1>2, <1>4, <2>1, <2>2, <2>3, <2>4 DEF DialogInv
<1> QED
  BY <1>7, <1>8

LEMMA BrightnessChangedDialogs ==
  ASSUME DialogInv, NEW t \in Menu!Threads, Menu!BrightnessChanged(t)
  PROVE  DialogInv'
<1>1. /\ "brightness" \in ScreenPlaces /\ Menu!At(t, "brightness")
      /\ "reallocate" \in ScreenPlaces \ Menu!Idle
  BY DEF Menu!BrightnessChanged, ScreenPlaces, Menu!Idle, Locking, Filtering
<1>2. /\ ~crashed /\ DialogTypes /\ GoesOn(t, "brightness", thread[t].then)
      /\ outOfTurn \in BOOLEAN
      /\ LockInv /\ CacheInv /\ (~outOfTurn => TurnInv)
      /\ Menu!Place(t) = "brightness" /\ drawLock.owner = t
  BY <1>1, Here DEF Locking
<1>3. /\ Menu!Toggle(t, {"gsp"}, "reallocate")
      /\ UNCHANGED <<menuRefCount, framebufferCache, drawLock>>
      /\ UNCHANGED <<Menu!flags, Menu!kernel, Menu!ghosts>>
  BY DEF Menu!BrightnessChanged, Menu!screen
<1>4. /\ GoesOn(t, "reallocate", thread[t].then) /\ LockMoves(t, "brightness", "reallocate")
      /\ WillLeave("brightness", thread[t].then) /\ WillLeave("reallocate", thread[t].then)
  BY <1>1, <1>2, <1>3
  DEF GoesOn, Enters, Leaves, Filtering, LockMoves, Locking, WillLeave, Making
<1>5. Shown /\ Shown' /\ ~framebufferCache
  BY <1>2, <1>3 DEF CacheInv, Making, Shown
<1>6. /\ PlaceMoves(t, "brightness", "reallocate", thread[t].then)
      /\ DialogTypes' /\ PlacesInv' /\ LockInv' /\ KernelInv' /\ BitsInv'
  BY <1>1, <1>2, <1>3, <1>4, <1>5, ToggleParts DEF DialogTypes
<1>7. CacheInv'
  BY <1>2, <1>3, <1>4, <1>5, <1>6, CacheMoved DEF Making
<1>8. ~outOfTurn' => TurnInv'
  BY <1>2, <1>3, <1>4, <1>5, <1>6, TurnMoved DEF Menu!Idle, Leaves, Shown, Menu!ghosts
<1> QED
  BY <1>2, <1>3, <1>6, <1>7, <1>8 DEF DialogInv, Menu!ghosts

LEMMA ReallocateDialogs ==
  ASSUME DialogInv, NEW t \in Menu!Threads, Menu!Reallocate(t)
  PROVE  DialogInv'
<1>1. /\ "reallocate" \in ScreenPlaces /\ Menu!At(t, "reallocate") /\ "unlock" \in ScreenPlaces
      /\ "show" \in ScreenPlaces
  BY DEF Menu!Reallocate, ScreenPlaces, Menu!Idle, Locking, Filtering
<1>2. /\ ~crashed /\ DialogTypes /\ GoesOn(t, "reallocate", thread[t].then)
      /\ outOfTurn \in BOOLEAN
      /\ LockInv /\ CacheInv /\ (~outOfTurn => TurnInv)
      /\ Menu!Place(t) = "reallocate" /\ drawLock.owner = t
  BY <1>1, Here DEF Locking
<1>3. /\ Menu!Call(t, "unlock", "show") /\ framebufferCache' = TRUE
      /\ crashed' = framebufferCache
      /\ UNCHANGED <<menuRefCount, drawLock, Menu!flags, Menu!kernel, outOfTurn>>
  BY DEF Menu!Reallocate
<1>4. Shown /\ Shown' /\ crashed' = FALSE
  BY <1>2, <1>3 DEF CacheInv, Making, Shown, DialogTypes
<1>5. /\ GoesOn(t, "unlock", "show") /\ LockMoves(t, "reallocate", "unlock")
      /\ WillLeave("unlock", "show")
  BY <1>1, <1>2, <1>3 DEF GoesOn, Enters, Leaves, Filtering, LockMoves, Locking, WillLeave
<1>6. Moves(t, "unlock", "show")
  BY <1>1, <1>2, <1>3, CallMoves
<1>7. /\ PlaceMoves(t, "reallocate", "unlock", "show")
      /\ DialogTypes' /\ PlacesInv' /\ LockInv' /\ KernelInv' /\ BitsInv'
  BY <1>1, <1>2, <1>3, <1>4, <1>5, <1>6, MoveParts DEF DialogTypes
<1>8. CacheInv'
  BY <1>2, <1>3, <1>4, <1>5, <1>7, CacheMoved DEF Making
<1>9. ~outOfTurn' => TurnInv'
  BY <1>2, <1>3, <1>4, <1>5, <1>7, TurnMoved DEF Menu!Idle, Leaves, Shown
<1> QED
  BY <1>2, <1>3, <1>4, <1>7, <1>8, <1>9 DEF DialogInv

\* A filter takes one step on, by a call of KernelSetState.
LEMMA FilterDialogs ==
  ASSUME DialogInv, NEW t \in Menu!Threads, NEW p \in Filtering, NEW q \in Filtering,
         Menu!At(t, p), Menu!Toggle(t, {"gsp"}, q), p = "apply" <=> q # "apply",
         UNCHANGED <<Menu!screen, drawLock, Menu!flags, Menu!kernel, Menu!ghosts>>
  PROVE  DialogInv'
<1>1. p \in ScreenPlaces /\ q \in ScreenPlaces \ Menu!Idle /\ p \notin Menu!Idle
  BY DEF ScreenPlaces, Menu!Idle, Filtering
<1>2. /\ ~crashed /\ DialogTypes /\ GoesOn(t, p, thread[t].then) /\ outOfTurn \in BOOLEAN
      /\ CacheInv /\ (~outOfTurn => TurnInv)
  BY <1>1, Here
<1>3. /\ GoesOn(t, q, thread[t].then) /\ LockMoves(t, p, q)
      /\ p \notin Making /\ q \notin Making /\ q \notin Leaves
      /\ ~WillLeave(p, thread[t].then) /\ ~WillLeave(q, thread[t].then)
      /\ p \in {"apply", "brightness"} <=> p = "apply"
      /\ q \in {"apply", "brightness"} <=> q = "apply"
  BY <1>1, <1>2 DEF GoesOn, Enters, Leaves, Filtering, LockMoves, Locking, WillLeave, Making
<1>4. (Shown' <=> Shown) /\ menuRefCount' = menuRefCount /\ framebufferCache' = framebufferCache
  BY DEF Shown, Menu!screen
<1>5. /\ PlaceMoves(t, p, q, thread[t].then)
      /\ DialogTypes' /\ PlacesInv' /\ LockInv' /\ KernelInv' /\ BitsInv'
  BY <1>1, <1>2, <1>3, <1>4, ToggleParts DEF DialogTypes
<1>6. CacheInv'
  BY <1>2, <1>3, <1>5, CacheKept
<1>7. ~outOfTurn' => TurnInv'
  BY <1>1, <1>2, <1>3, <1>4, <1>5, TurnKept DEF Menu!ghosts
<1> QED
  BY <1>2, <1>5, <1>6, <1>7 DEF DialogInv, Menu!ghosts

LEMMA FiltersDialogs ==
  ASSUME DialogInv, NEW t \in Menu!Threads, Menu!PauseGsp(t) \/ Menu!ApplyColorSettings(t)
  PROVE  DialogInv'
<1>1. "filter" \in Filtering /\ "apply" \in Filtering /\ "filtered" \in Filtering
  BY DEF Filtering
<1>2. CASE Menu!PauseGsp(t)
  BY <1>1, <1>2, FilterDialogs DEF Menu!PauseGsp
<1>3. CASE Menu!ApplyColorSettings(t)
  BY <1>1, <1>3, FilterDialogs DEF Menu!ApplyColorSettings
<1> QED
  BY <1>2, <1>3

LEMMA NotificationDialogs ==
  ASSUME DialogInv, Menu!ShellClosed \/ Menu!FullyAwake
  PROVE  DialogInv'
<1>1. ~crashed /\ DialogTypes
  BY DEF Menu!ShellClosed, Menu!FullyAwake, Menu!At, Menu!Runs, DialogInv
<1> QED
  BY <1>1, StillDialogs DEF Menu!ShellClosed, Menu!FullyAwake, DialogTypes

\* Every step, and the invariant.
LEMMA NextDialogs ==
  ASSUME DialogInv, Menu!Next
  PROVE  DialogInv'
<1>1. ASSUME NEW t \in Menu!Threads, Menu!Xor(t) \/ Menu!Decide(t) \/ Menu!LockOrUnlock(t)
      PROVE  DialogInv'
  BY <1>1, XorDialogs, DecideDialogs, LockOrUnlockDialogs
<1>2. ASSUME NEW t \in Menu!Threads,
             \/ Menu!LockToEnter(t) \/ Menu!menuEnter(t) \/ Menu!Allocate(t)
             \/ Menu!Unlock(t) \/ Menu!LockToLeave(t) \/ Menu!menuLeave(t)
      PROVE  DialogInv'
  BY <1>2, LockToEnterDialogs, menuEnterDialogs, AllocateDialogs, UnlockDialogs,
     LockToLeaveDialogs, menuLeaveDialogs
<1>3. ASSUME NEW t \in Menu!Threads,
             \/ Menu!ExitMenu(t) \/ Menu!PressB(t) \/ Menu!MenuClosed(t)
             \/ Menu!ChangeBrightness(t) \/ Menu!BrightnessChanged(t)
             \/ Menu!Reallocate(t) \/ Menu!PowerOff(t)
      PROVE  DialogInv'
  BY <1>3, CloseMenuDialogs, MenuClosedDialogs, ChangeBrightnessDialogs,
     BrightnessChangedDialogs, ReallocateDialogs, PowerOffDialogs DEF Menu!ExitMenu, Menu!PressB
<1>4. ASSUME NEW t \in Menu!Threads,
             \/ Menu!ShowDialog(t) \/ Menu!PressKey(t) \/ Menu!PauseGsp(t)
             \/ Menu!ApplyColorSettings(t) \/ Menu!Filtered(t)
      PROVE  DialogInv'
  BY <1>4, ShowDialogDialogs, EndDialogDialogs, FiltersDialogs, FilteredDialogs
  DEF Menu!PressKey
<1>5. ASSUME \/ Menu!PostprocessSvc \/ Menu!PauseItself \/ Menu!MenuCombo
             \/ Menu!MenuThreadStarts \/ Menu!MenuThreadEnds
             \/ Menu!Throw \/ Menu!ErrDispEnds \/ Menu!PluginMessage
      PROVE  DialogInv'
  BY <1>5, PostprocessSvcDialogs, PauseItselfDialogs, MenuComboDialogs, MenuThreadStartsDialogs,
     MenuThreadEndsDialogs, ThrowDialogs, ErrDispEndsDialogs, PluginMessageDialogs
<1>6. ASSUME Menu!ExitDialog
      PROVE  DialogInv'
  BY <1>6, EndDialogDialogs DEF Menu!ExitDialog, Menu!Threads
<1>7. ASSUME \/ Menu!ShellClosed \/ Menu!ShellOpened \/ Menu!FullyAwake
             \/ Menu!HomeButton \/ Menu!PreTermination
             \/ Menu!RequestTermination \/ Menu!Termination \/ Menu!Join
      PROVE  DialogInv'
  BY <1>7, NotificationDialogs, ShellOpenedDialogs, HomeButtonDialogs, PreTerminationDialogs,
     RequestTerminationDialogs, TerminationDialogs, JoinDialogs
<1> QED
  BY <1>1, <1>2, <1>3, <1>4, <1>5, <1>6, <1>7 DEF Menu!Next

LEMMA InitDialogs ==
  ASSUME Menu!Init
  PROVE  DialogInv
<1>1. /\ \A t \in Menu!Threads :
           /\ thread[t].at \in {"start", "receive", "run"} /\ thread[t].then = Menu!Nowhere
           /\ thread[t].bits = {} /\ thread[t].after = Menu!Nowhere
      /\ thread \in [Menu!Threads -> ThreadTypes]
  BY DEF Menu!Init, Menu!Thread, Menu!Threads, ThreadTypes, ScreenPlaces, Menu!Idle,
         Menu!Nowhere
<1>2. Menu!InKernel = {} /\ \A t \in Menu!Threads : Menu!Place(t) = thread[t].at
  BY <1>1 DEF Menu!InKernel, Menu!Place
<1>3. DialogTypes
  <2>1. menuRefCount \in Int /\ menuRefCount <= 1
    BY DEF Menu!Init
  <2>2. drawLock \in [owner : Menu!Threads \cup {Menu!Nobody}, count : 0..1]
    BY DEF Menu!Init
  <2> QED
    BY <1>1, <2>1, <2>2 DEF Menu!Init, DialogTypes
<1>4. PlacesInv
  BY <1>1, <1>2
  DEF PlacesInv, GoesOn, ScreenPlaces, Menu!Idle, Locking, Filtering, Enters, Leaves
<1>5. LockInv
  BY <1>1, <1>2 DEF Menu!Init, LockInv, Locking, Menu!Threads, Menu!Nobody
<1>6. KernelInv
  BY <1>2 DEF Menu!Init, KernelInv
<1>7. BitsInv
  BY <1>1, <1>2 DEF Menu!Init, BitsInv, Shown, Pending, Before, Inverted, Menu!Threads
<1>8. CacheInv
  <2>1. ~Shown /\ framebufferCache = FALSE
    BY DEF Menu!Init, Shown
  <2> QED
    BY <1>1, <1>2, <2>1 DEF CacheInv, Making
<1>9. TurnInv
  <2>1. Menu!Drawing = {} /\ menuRefCount = 0
    <3>1. \A t \in Menu!Threads : Menu!Place(t) \in Menu!Idle
      BY <1>1, <1>2 DEF Menu!Idle
    <3> QED
      BY <3>1 DEF Menu!Init, Menu!Drawing
  <2> QED
    BY <1>1, <1>2, <2>1 DEF TurnInv, Leaves
<1> QED
  BY <1>3, <1>4, <1>5, <1>6, <1>7, <1>8, <1>9 DEF Menu!Init, DialogInv

LEMMA DialogInvHolds == Menu!Spec => []DialogInv
<1>1. Menu!Init => DialogInv
  BY InitDialogs
<1>2. DialogInv /\ [Menu!Next]_(Menu!vars) => DialogInv'
  <2>1. CASE Menu!Next
    BY <2>1, NextDialogs
  <2>2. ASSUME DialogInv, UNCHANGED Menu!vars
        PROVE  DialogInv'
    <3>1. /\ UNCHANGED <<Menu!screen, drawLock, Menu!kernel, thread, Menu!ghosts>>
          /\ UNCHANGED <<menuShouldExit, rosalinaOpen>>
      BY <2>2 DEF Menu!vars, Menu!screen, Menu!kernel, Menu!ghosts
    <3>2. CASE crashed
      BY <2>2, <3>1, <3>2 DEF DialogInv, Menu!ghosts
    <3>3. CASE ~crashed
      BY <2>2, <3>1, <3>3, StillDialogs DEF DialogInv, DialogTypes
    <3> QED
      BY <3>2, <3>3
  <2> QED
    BY <2>1, <2>2
<1> QED
  BY <1>1, <1>2, PTL DEF Menu!Spec

\* When nobody draws nobody is in the kernel, and nothing inverts a bit.
LEMMA NothingPaused ==
  ASSUME DialogInv
  PROVE  Menu!NothingStaysPaused
<1> SUFFICES ASSUME ~crashed, Menu!Drawing = {}
             PROVE  rosalinaState = {} /\ paused = {} /\ ~framebufferCache
  BY DEF Menu!NothingStaysPaused
<1>1. DialogTypes /\ KernelInv /\ BitsInv /\ CacheInv
  BY DEF DialogInv
<1>2. \A t \in Menu!Threads : Menu!Place(t) \in Menu!Idle
  BY DEF Menu!Drawing
<1>3. Menu!InKernel = {}
  <2>1. \A t \in Menu!InKernel : t \in Menu!Threads /\ Menu!Place(t) \notin Menu!Idle
    BY <1>1 DEF Menu!InKernel, KernelInv, Menu!Place
  <2> QED
    BY <1>2, <2>1
<1>4. \A v : ~Pending(v)
  BY <1>3 DEF Pending, Before, Menu!InKernel
<1>5. ~Shown
  <2>1. \A t \in Menu!Threads : ~WillLeave(Menu!Place(t), thread[t].then)
    BY <1>2 DEF WillLeave, Making, Leaves, Menu!Idle
  <2> QED
    BY <1>1, <2>1 DEF CacheInv
<1>6. ~Inverted("menu") /\ ~Inverted("main")
  BY <1>2 DEF Inverted, Menu!Threads, Menu!Idle
<1>7. "app" \notin rosalinaState /\ "gsp" \notin rosalinaState
  BY <1>1, <1>4, <1>5, <1>6 DEF BitsInv
<1>8. rosalinaState = {} /\ paused = {}
  BY <1>1, <1>3, <1>7 DEF DialogTypes, KernelInv
<1> QED
  BY <1>1, <1>5, <1>8 DEF CacheInv

\* A thread that shows a dialog is alone, so nobody is in the kernel: nobody
\* else draws, and who shows is not in a call.
LEMMA DialogIsPaused ==
  ASSUME DialogInv
  PROVE  Menu!ShownIsPaused
<1> SUFFICES ASSUME ~outOfTurn
             PROVE  /\ ~crashed
                    /\ \A t \in Menu!Threads : thread[t].at \in {"show", "dialog", "wait"} =>
                         framebufferCache /\ paused = {"app", "gsp"} /\ menuRefCount = 1
                    /\ Menu!Drawing = {} => menuRefCount = 0
  BY DEF Menu!ShownIsPaused
<1>1. ~crashed /\ DialogTypes /\ KernelInv /\ BitsInv /\ CacheInv /\ TurnInv
  BY DEF DialogInv
<1>2. ASSUME NEW t \in Menu!Threads, thread[t].at \in {"show", "dialog", "wait"}
      PROVE  framebufferCache /\ paused = {"app", "gsp"} /\ menuRefCount = 1
  <2>1. Menu!Place(t) = thread[t].at /\ t \notin Menu!InKernel
    BY <1>2 DEF Menu!Place, Menu!InKernel
  <2>2. t \in Menu!Drawing /\ WillLeave(Menu!Place(t), thread[t].then)
    BY <1>2, <2>1 DEF Menu!Drawing, WillLeave, Menu!Idle
  <2>3. menuRefCount = 1 /\ \A s \in Menu!Threads \ {t} : Menu!Place(s) \in Menu!Idle
    BY <1>1, <2>2 DEF TurnInv, Menu!Drawing
  <2>4. Menu!InKernel = {}
    <3>1. \A s \in Menu!InKernel : s \in Menu!Threads /\ Menu!Place(s) \notin Menu!Idle
      BY <1>1 DEF Menu!InKernel, KernelInv, Menu!Place
    <3> QED
      BY <2>1, <2>3, <3>1
  <2>5. \A v : ~Pending(v)
    BY <2>4 DEF Pending, Before, Menu!InKernel
  <2>6. \A s \in Menu!Threads :
          Menu!Place(s) \notin Making /\ Menu!Place(s) \notin {"apply", "brightness"}
    BY <1>2, <2>1, <2>3 DEF Making, Menu!Idle
  <2>7. Shown /\ ~Inverted("menu") /\ ~Inverted("main")
    BY <2>3, <2>6 DEF Shown, Inverted, Menu!Threads
  <2>8. "app" \in rosalinaState /\ "gsp" \in rosalinaState
    BY <1>1, <2>5, <2>7 DEF BitsInv
  <2>9. paused = {"app", "gsp"}
    BY <1>1, <2>4, <2>8 DEF DialogTypes, KernelInv
  <2> QED
    BY <1>1, <2>3, <2>6, <2>7, <2>9 DEF CacheInv
<1> QED
  BY <1>1, <1>2 DEF TurnInv

\* Where rosalina's core does not leave the kernel inside a call of
\* KernelSetState, for any entries of the menu and any bound of its count: the
\* dialogs, filters and notifications of three threads leave nothing paused
\* once they have ended, and a dialog that had its turn is shown on a paused
\* system with its framebuffer cached.
THEOREM DialogsStayConsistent ==
  ASSUME Menu!MenuAssumption
  PROVE  Menu!Spec => []Menu!DialogsConsistent
<1>1. DialogInv => Menu!DialogsConsistent
  BY NothingPaused, DialogIsPaused DEF Menu!DialogsConsistent
<1>2. Menu!Spec => []DialogInv
  BY DialogInvHolds
<1> QED
  BY <1>1, <1>2, PTL
=============================================================================
