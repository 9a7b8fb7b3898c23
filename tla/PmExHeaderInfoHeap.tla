------------------------ MODULE PmExHeaderInfoHeap ------------------------
(***************************************************************************)
(* The pool of ExHeader_Info buffers of the process manager                *)
(* (sysmodules/pm/source/exheader_info_heap.c): a stack without a lock,    *)
(* linked through the first word of its free buffers, that the service     *)
(* thread, the task runner and the process monitor pop and push with a     *)
(* compare-and-swap.  Each access to the shared memory is one step.        *)
(*                                                                         *)
(* A thread holds at most Depth buffers and gives back the last one first: *)
(* launchTitleImplWrapper holds one, and loadWithDependencies a second one *)
(* inside it (launch.c:303-315, 133-187); the monitor and the termination  *)
(* functions hold one (process_monitor.c:14-22, termination.c:155-179).    *)
(***************************************************************************)
EXTENDS Naturals, Sequences

CONSTANTS
  Size,     \* the number of buffers (6, main.c:20)
  Threads,  \* the threads of pm that use the pool
  Depth,    \* how many buffers each of them holds at most
  Null

Nodes == 1 .. Size
Data == Size + 2   \* a first word that is not a link: the buffer is in use

VARIABLES
  headNode,   \* g_headNode
  next,       \* the first word of every buffer
  pc, oldHead, newHead,  \* of the New or Delete call of each thread
  held        \* the buffers each thread was given, the last one last

vars == <<headNode, next, pc, oldHead, newHead, held>>

Last(t) == held[t][Len(held[t])]

Init ==
  /\ headNode = 1
  /\ next = [node \in Nodes |-> node + 1]   \* the last one too: past the pool
  /\ pc = [t \in Threads |-> "user"]
  /\ oldHead = [t \in Threads |-> Null]
  /\ newHead = [t \in Threads |-> Null]
  /\ held = [t \in Threads |-> <<>>]

---------------------------------------------------------------------------
(* ExHeaderInfoHeap_New *)

\* atomic_load of the head; a pool found empty returns NULL.
BeginNew(t) ==
  /\ pc[t] = "user" /\ Len(held[t]) < Depth[t]
  /\ oldHead' = [oldHead EXCEPT ![t] = headNode]
  /\ pc' = [pc EXCEPT ![t] = IF headNode = Null THEN "noBuffer" ELSE "readNext"]
  /\ UNCHANGED <<headNode, next, newHead, held>>

\* oldHead->next.  What lies past the pool, or behind a word that is not a
\* link, is unknown memory.
NextOf(node) ==
  IF node = Null THEN Null ELSE IF node \in Nodes THEN next[node] ELSE Data

ReadNext(t) ==
  /\ pc[t] = "readNext"
  /\ newHead' = [newHead EXCEPT ![t] = NextOf(oldHead[t])]
  /\ pc' = [pc EXCEPT ![t] = "popCas"]
  /\ UNCHANGED <<headNode, next, oldHead, held>>

PopCas(t) ==
  /\ pc[t] = "popCas"
  /\ headNode = oldHead[t]
  /\ headNode' = newHead[t]
  /\ IF oldHead[t] = Null
     THEN pc' = [pc EXCEPT ![t] = "noBuffer"] /\ UNCHANGED held
     ELSE /\ pc' = [pc EXCEPT ![t] = "clear"]
          /\ held' = [held EXCEPT ![t] = Append(@, oldHead[t])]
  /\ UNCHANGED <<next, oldHead, newHead>>

\* The value changed, or the store-exclusive failed for no reason: another
\* turn, with the value just read.
PopRetry(t) ==
  /\ pc[t] = "popCas"
  /\ oldHead' = [oldHead EXCEPT ![t] = headNode]
  /\ pc' = [pc EXCEPT ![t] = "readNext"]
  /\ UNCHANGED <<headNode, next, newHead, held>>

\* memset of the buffer, which is returned.
Clear(t) ==
  /\ pc[t] = "clear"
  /\ next' = IF Last(t) \in Nodes THEN [next EXCEPT ![Last(t)] = Null] ELSE next
  /\ pc' = [pc EXCEPT ![t] = "user"]
  /\ UNCHANGED <<headNode, oldHead, newHead, held>>

---------------------------------------------------------------------------
(* The caller: LOADER_GetProgramInfo writes the whole buffer. *)

Fill(t) ==
  /\ pc[t] = "user" /\ held[t] # <<>>
  /\ Last(t) \in Nodes
  /\ next' = [next EXCEPT ![Last(t)] = Data]
  /\ UNCHANGED <<headNode, pc, oldHead, newHead, held>>

---------------------------------------------------------------------------
(* ExHeaderInfoHeap_Delete *)

BeginDelete(t) ==
  /\ pc[t] = "user" /\ held[t] # <<>>
  /\ oldHead' = [oldHead EXCEPT ![t] = headNode]
  /\ pc' = [pc EXCEPT ![t] = "link"]
  /\ UNCHANGED <<headNode, next, newHead, held>>

Link(t) ==
  /\ pc[t] = "link"
  /\ next' = IF Last(t) \in Nodes THEN [next EXCEPT ![Last(t)] = oldHead[t]] ELSE next
  /\ pc' = [pc EXCEPT ![t] = "pushCas"]
  /\ UNCHANGED <<headNode, oldHead, newHead, held>>

PushCas(t) ==
  /\ pc[t] = "pushCas"
  /\ headNode = oldHead[t]
  /\ headNode' = Last(t)
  /\ held' = [held EXCEPT ![t] = SubSeq(@, 1, Len(@) - 1)]
  /\ pc' = [pc EXCEPT ![t] = "user"]
  /\ UNCHANGED <<next, oldHead, newHead>>

PushRetry(t) ==
  /\ pc[t] = "pushCas"
  /\ oldHead' = [oldHead EXCEPT ![t] = headNode]
  /\ pc' = [pc EXCEPT ![t] = "link"]
  /\ UNCHANGED <<headNode, next, newHead, held>>

New(t) == BeginNew(t) \/ ReadNext(t) \/ PopCas(t) \/ PopRetry(t) \/ Clear(t)
Delete(t) == BeginDelete(t) \/ Link(t) \/ PushCas(t) \/ PushRetry(t)

Next == \E t \in Threads : New(t) \/ Fill(t) \/ Delete(t)

Spec == Init /\ [][Next]_vars

---------------------------------------------------------------------------
(* Properties *)

\* What every caller asserts (launch.c:304-306, process_monitor.c:16-18 and
\* the others): the pool, which is larger than what the threads can hold at
\* once, never runs out.  A thread that read g_headNode, and then the link of
\* that buffer after another thread had taken and cleared it, succeeds in its
\* compare-and-swap once the buffer is back, and installs the cleared link:
\* the buffers behind it are lost.
NewAlwaysFindsABuffer == \A t \in Threads : pc[t] # "noBuffer"
===========================================================================
