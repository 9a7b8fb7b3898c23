----------------------------- MODULE TaskRunner -----------------------------
(***************************************************************************)
(* The task runner of pm (sysmodules/pm/source/task_runner.c), of which    *)
(* rosalina has a copy: a worker thread that executes one deferred call at *)
(* a time.  Two one-shot events hand a task over: the worker says it is    *)
(* ready, and a client that its function and its arguments are stored.     *)
(* One step is one access to an event or to g_taskRunner.                  *)
(***************************************************************************)
CONSTANTS
  Clients,  \* the threads that call RunTask
  Tasks,    \* functions; the arguments of a call are named like its function
  NoOp,     \* taskRunnerNoOpFunction, which takes none
  None

ASSUME TasksAssumption == NoOp \notin Tasks /\ None \notin Tasks \cup {NoOp}

VARIABLES
  readyEvent,          \* g_taskRunner: whether the events are signalled
  parametersSetEvent,
  task,
  argStorage,
  shouldTerminate,
  client,              \* where each client is in RunTask, and what it submits
  worker               \* where the worker is in HandleTasks

vars == <<readyEvent, parametersSetEvent, task, argStorage, shouldTerminate,
          client, worker>>

Idle == [at |-> "idle", task |-> None]
Callable == Tasks \cup {NoOp}

Init ==
  /\ readyEvent = FALSE
  /\ parametersSetEvent = FALSE
  /\ task = None
  /\ argStorage = None
  /\ shouldTerminate = FALSE
  /\ client = [c \in Clients |-> Idle]
  /\ worker = "test"

Goto(c, at) == client' = [client EXCEPT ![c].at = at]

-----------------------------------------------------------------------------
(* TaskRunner_RunTask and TaskRunner_Terminate *)

Call(c, x) ==
  /\ client[c] = Idle
  /\ client' = [client EXCEPT ![c] = [at |-> "waitReady", task |-> x]]
  /\ UNCHANGED <<readyEvent, parametersSetEvent, task, argStorage, worker>>

\* main calls Terminate once, and nobody calls RunTask after that.
RunTask(c) ==
  /\ ~shouldTerminate
  /\ \E x \in Tasks : Call(c, x)
  /\ UNCHANGED shouldTerminate

Terminate(c) ==
  /\ ~shouldTerminate
  /\ shouldTerminate' = TRUE
  /\ Call(c, NoOp)

WaitReady(c) ==
  /\ client[c].at = "waitReady"
  /\ readyEvent
  /\ readyEvent' = FALSE
  /\ Goto(c, "storeTask")
  /\ UNCHANGED <<parametersSetEvent, task, argStorage, shouldTerminate, worker>>

StoreTask(c) ==
  /\ client[c].at = "storeTask"
  /\ task' = client[c].task
  /\ Goto(c, "storeArgs")
  /\ UNCHANGED <<readyEvent, parametersSetEvent, argStorage, shouldTerminate, worker>>

\* Mutant: the size of no arguments is not looked at.
StoreNoArgs(c) ==
  /\ client[c].at = "storeArgs"
  /\ argStorage' = client[c].task
  /\ Goto(c, "signal")
  /\ UNCHANGED <<readyEvent, parametersSetEvent, task, shouldTerminate, worker>>

\* memcpy of the arguments, of none for the function that takes none.
StoreArgs(c) ==
  /\ client[c].at = "storeArgs"
  /\ argStorage' = IF client[c].task = NoOp THEN argStorage ELSE client[c].task
  /\ Goto(c, "signal")
  /\ UNCHANGED <<readyEvent, parametersSetEvent, task, shouldTerminate, worker>>

SignalParametersSet(c) ==
  /\ client[c].at = "signal"
  /\ parametersSetEvent' = TRUE
  /\ client' = [client EXCEPT ![c] = Idle]
  /\ UNCHANGED <<readyEvent, task, argStorage, shouldTerminate, worker>>

-----------------------------------------------------------------------------
(* TaskRunner_HandleTasks *)

TestTerminate ==
  /\ worker = "test"
  /\ worker' = IF shouldTerminate THEN "stopped" ELSE "signal"
  /\ UNCHANGED <<readyEvent, parametersSetEvent, task, argStorage,
                 shouldTerminate, client>>

SignalReady ==
  /\ worker = "signal"
  /\ readyEvent' = TRUE
  /\ worker' = "wait"
  /\ UNCHANGED <<parametersSetEvent, task, argStorage, shouldTerminate, client>>

\* Mutant: the event stays signalled, as one that is not one-shot.
WaitParametersSetSticky ==
  /\ worker = "wait"
  /\ parametersSetEvent
  /\ worker' = "run"
  /\ UNCHANGED <<readyEvent, parametersSetEvent, task, argStorage,
                 shouldTerminate, client>>

\* Mutant: the worker looks at shouldTerminate when it wakes up.
WaitParametersSetUnlessTerminated ==
  /\ worker = "wait"
  /\ parametersSetEvent /\ ~shouldTerminate
  /\ parametersSetEvent' = FALSE
  /\ worker' = "run"
  /\ UNCHANGED <<readyEvent, task, argStorage, shouldTerminate, client>>

WaitParametersSet ==
  /\ worker = "wait"
  /\ parametersSetEvent
  /\ parametersSetEvent' = FALSE
  /\ worker' = "run"
  /\ UNCHANGED <<readyEvent, task, argStorage, shouldTerminate, client>>

\* The function returns.
TaskReturns ==
  /\ worker = "run"
  /\ worker' = "test"
  /\ UNCHANGED <<readyEvent, parametersSetEvent, task, argStorage,
                 shouldTerminate, client>>

HandleTasks == TestTerminate \/ SignalReady \/ WaitParametersSet \/ TaskReturns

Client(c) == WaitReady(c) \/ StoreTask(c) \/ StoreArgs(c) \/ SignalParametersSet(c)

Next ==
  \/ TestTerminate
  \/ SignalReady
  \/ WaitParametersSet
  \/ TaskReturns
  \/ \E c \in Clients :
       \/ RunTask(c) \/ Terminate(c)
       \/ WaitReady(c) \/ StoreTask(c) \/ StoreArgs(c) \/ SignalParametersSet(c)

Spec == Init /\ [][Next]_vars

\* The threads are scheduled, a task returns, and one of several waiting
\* clients may be passed over.
Fairness ==
  /\ WF_vars(HandleTasks)
  /\ \A c \in Clients : WF_vars(Client(c))

FairSpec == Spec /\ Fairness

-----------------------------------------------------------------------------
(* Properties *)

\* Type invariant of the runner and of its users.
TypeOK ==
  /\ readyEvent \in BOOLEAN
  /\ parametersSetEvent \in BOOLEAN
  /\ task \in Callable \cup {None}
  /\ argStorage \in Tasks \cup {None}
  /\ shouldTerminate \in BOOLEAN
  /\ client \in [Clients -> [at : {"idle", "waitReady", "storeTask", "storeArgs", "signal"},
                             task : Callable \cup {None}]]
  /\ worker \in {"test", "signal", "wait", "run", "stopped"}

\* A function runs with the arguments of its own call, for as long as it
\* runs: no client stores anything between the moment another one begins to
\* store and the return of its function (RunTask, lines 22-25).
TaskHasItsArguments ==
  worker = "run" \/ parametersSetEvent =>
    /\ task # None
    /\ task \in Tasks => argStorage = task

Queue == INSTANCE TaskQueue WITH
  Tasks <- Callable,
  submitted <- IF parametersSetEvent THEN task ELSE None,
  executing <- IF worker = "run" THEN task ELSE None

\* The two events make a queue of one place: a call that was handed over is
\* executed once, before the next one is.
ImplementsQueue == Queue!Spec

\* A call that was handed over begins.
SubmittedBegins == parametersSetEvent ~> worker = "run"

\* TaskRunner_Terminate returns, so that main can wait for the end of the
\* thread (rosalina/source/main.c:369-373).  The worker that is executing a
\* task when shouldTerminate is set leaves its loop without saying that it is
\* ready.
TerminateReturns ==
  \A c \in Clients : client[c].task = NoOp ~> client[c] = Idle
=============================================================================
