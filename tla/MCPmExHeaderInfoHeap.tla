----------------------- MODULE MCPmExHeaderInfoHeap -----------------------
(* The pool of ExHeader_Info buffers with the two threads that launch      *)
(* titles, each of which holds at most two buffers.                        *)
EXTENDS PmExHeaderInfoHeap

CONSTANTS srv, task  \* the service thread and the task runner

MCDepth == [t \in {srv, task} |-> 2]
===========================================================================
