------------------------------ MODULE PxiCalls ------------------------------
(***************************************************************************)
(* What pxi promises to the clients of its services: a remote procedure    *)
(* call.  A call is forwarded to the ARM9 once and returns once, with the  *)
(* answer to it, and a session is not given to the next client before the  *)
(* call of the last one is over.                                           *)
(***************************************************************************)
CONSTANT Services

VARIABLES
  call,  \* per service: how far the call is, and whether the client is there
  down   \* pxi shuts down or has panicked: nothing is promised any more

Phases == {"closed", "idle", "called", "forwarded", "answered"}
Calls == [phase : Phases, alive : BOOLEAN]
Closed == [phase |-> "closed", alive |-> FALSE]

Init ==
  /\ call = [s \in Services |-> Closed]
  /\ down = FALSE

Become(s, from, phase, alive) ==
  /\ call[s].phase = from
  /\ call' = [call EXCEPT ![s] = [phase |-> phase, alive |-> alive]]
  /\ UNCHANGED down

Open(s) == Become(s, "closed", "idle", TRUE)
Call(s) == call[s].alive /\ Become(s, "idle", "called", TRUE)
Forward(s) == Become(s, "called", "forwarded", call[s].alive)
Answer(s) == Become(s, "forwarded", "answered", call[s].alive)
Return(s) == call[s].alive /\ Become(s, "answered", "idle", TRUE)

\* A client that is gone: what it asked is not asked, or is carried out and
\* its answer dropped.
Leave(s) ==
  /\ call[s].alive
  /\ \/ \E phase \in Phases \ {"closed"} : Become(s, phase, phase, FALSE)
     \/ Become(s, "called", "idle", FALSE)
HangUp(s) == ~call[s].alive /\ \E phase \in {"idle", "answered"} :
               Become(s, phase, "closed", FALSE)

ShutDown ==
  /\ down'
  /\ call' \in [Services -> Calls]

Next ==
  \/ \E s \in Services :
       \/ Open(s) \/ Call(s) \/ Forward(s) \/ Answer(s) \/ Return(s)
       \/ Leave(s) \/ HangUp(s)
  \/ ShutDown

Spec == Init /\ [][Next]_<<call, down>>
=============================================================================
