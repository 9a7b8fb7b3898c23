----------------------------- MODULE TaskQueue -----------------------------
(***************************************************************************)
(* What a task runner promises (task_runner.h): a task that was handed     *)
(* over is executed once, and the next one is not taken before.            *)
(***************************************************************************)
CONSTANTS
  Tasks,   \* what the clients may hand over, with its arguments
  None

VARIABLES
  submitted,  \* handed over and not yet begun, or None
  executing   \* what runs, or None

vars == <<submitted, executing>>

Init ==
  /\ submitted = None
  /\ executing = None

Submit(x) ==
  /\ submitted = None /\ executing = None
  /\ submitted' = x
  /\ UNCHANGED executing

Begin ==
  /\ submitted # None
  /\ executing' = submitted
  /\ submitted' = None

Finish ==
  /\ executing # None
  /\ executing' = None
  /\ UNCHANGED submitted

Next == (\E x \in Tasks : Submit(x)) \/ Begin \/ Finish

Spec == Init /\ [][Next]_vars
=============================================================================
