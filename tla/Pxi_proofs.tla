----------------------------- MODULE Pxi_proofs -----------------------------
(***************************************************************************)
(* Proofs about Pxi, for any services, buffers and commands: the sessions  *)
(* are remote procedure calls, PxiCalls, until pxi is told to terminate.   *)
(***************************************************************************)
EXTENDS Pxi, FiniteSetTheorems, TLAPS

-----------------------------------------------------------------------------
(* The inductive invariant: types                                          *)

Senders == [pc : {"top", "acquire", "transmit", "reply", "wait", "terminate", "ended"},
            at : Services \cup {None}, replyTarget : Services \cup {None},
            watched : SUBSET Services]
Mains == [pc : {"accept", "enter", "overwrite", "acquire", "transmit", "join", "ended"},
          at : Services \cup {None}]
Receivers == [pc : {"start", "wait", "drain", "tell", "waitSent", "ended"},
              at : All \cup {None}]
Handlers == {"start", "wait", "acquire", "transmit", "ended"}
Commands == {"cmd", "disable", "enable"}
Clients == [at : {"none", "idle", "waiting", "gone"}, kind : Messages \cup {None}]

\* One conjunct for each of the tuples of variables that steps leave alone.
SessionsOK ==
  /\ state \in [All -> States] /\ buffer \in [All -> Messages \cup {None}]
  /\ handle \in [Services -> BOOLEAN]
BuffersOK ==
  /\ usedStaticBuffers \in [Services -> SUBSET AllBuffers]
  /\ freeStaticBuffers \subseteq AllBuffers /\ currentlyProvidedStaticBuffers \subseteq AllBuffers
Mc5OK ==
  latest_PXI_MC5_val \in 0..2 /\ pendingArm9Commands \in 0 .. Word - 1 /\ sendingDisabled \in BOOLEAN
SignalsOK == sendAllBuffersToArm9Event \in BOOLEAN /\ replySemaphore \in 0..9
EventsOK == PXISRV11CommandReceivedEvent \in BOOLEAN /\ PXISRV11ReplySentEvent \in BOOLEAN
LinkOK ==
  /\ toArm9 \in [All -> Seq(Messages)] /\ fromArm9 \in Seq([to : All, message : Messages])
  /\ PXISyncInterrupt \in BOOLEAN
PortsOK ==
  /\ client \in [Services -> Clients] /\ connecting \in [Services -> BOOLEAN]
  /\ \A s \in Services :
       client[s].at = "waiting" => client[s].kind \in Commands
EndingOK == shouldTerminate \in BOOLEAN /\ terminationRequestedEvent \in BOOLEAN
MutexOK == PXITransferMutex \in {None, "main", "sender", "handler"}
SenderOK ==
  /\ sender \in Senders
  /\ sender.pc \in {"acquire", "transmit"} => sender.at \in Services /\ sender.replyTarget = None
  /\ sender.pc = "reply" => sender.replyTarget \in Services
MainOK == main \in Mains /\ (main.pc = "enter" => main.at \in Services)
ReceiverOK == receiver \in Receivers /\ (receiver.pc = "tell" => receiver.at \in All)
HandlerOK == handler \in Handlers

\* What is to be sent has been stored.
CommandsStored ==
  /\ \A s \in Services : state[s] = "fromArm11" => buffer[s] \in Commands
  /\ sender.pc \in {"acquire", "transmit"} => buffer[sender.at] \in Commands

TypeInv ==
  /\ SessionsOK /\ BuffersOK /\ Mc5OK /\ SignalsOK /\ EventsOK /\ LinkOK /\ PortsOK
  /\ EndingOK /\ MutexOK /\ SenderOK /\ MainOK /\ ReceiverOK /\ HandlerOK
  /\ CommandsStored

-----------------------------------------------------------------------------
(* The inductive invariant: the sessions, until pxi is told to terminate   *)

Entering(s) == main.pc = "enter" /\ main.at = s
Sending(s) == sender.pc \in {"acquire", "transmit"} /\ sender.at = s
Returning(s) == sender.pc \in {"top", "reply"} /\ sender.replyTarget = s

\* Nobody has been told.
NotEnding ==
  /\ ~terminationRequestedEvent
  /\ main.pc \in {"accept", "enter"} /\ sender.pc \notin {"terminate", "ended"}
  /\ \A s \in All : \A i \in DOMAIN toArm9[s] : toArm9[s][i] # "terminate"

\* A session that main has not entered has a client and no handle.
Visiting(s) ==
  /\ connecting[s] \/ Entering(s) \/ handle[s] => client[s].at # "none"
  /\ connecting[s] \/ Entering(s) => ~handle[s]
  /\ ~(connecting[s] /\ Entering(s))

\* Where the sender is with the command of a session, and its client.
Serving(s) ==
  /\ state[s] # "idle" \/ Returning(s) => handle[s] /\ client[s].at \in {"waiting", "gone"}
  /\ Returning(s) => state[s] = "idle"
  /\ Sending(s) => state[s] = "sent"
  /\ sender.pc \in {"reply", "wait"} /\ s \in sender.watched => handle[s] /\ state[s] = "idle"

\* What was sent is at one place, and is one message.
Travelling(s) ==
  /\ toArm9[s] # <<>> => Len(toArm9[s]) = 1 /\ state[s] = "sent" /\ ~Sending(s)
  /\ \A i \in DOMAIN fromArm9 : fromArm9[i].to = s =>
       /\ toArm9[s] = <<>> /\ state[s] = "sent" /\ ~Sending(s)
       /\ \A j \in DOMAIN fromArm9 : fromArm9[j].to = s => j = i

CallInv == NotEnding /\ \A s \in Services : Visiting(s) /\ Serving(s) /\ Travelling(s)

Inv == TypeInv /\ (~shouldTerminate => CallInv)

-----------------------------------------------------------------------------
(* Types                                                                   *)

(* The services of ARM11 are not the one of the ARM9.                      *)
LEMMA ServicesTyped ==
  /\ Services \subseteq All /\ Srv11 \in All /\ Srv11 \notin Services
  /\ None \notin Services /\ Services \subseteq Nat
  BY ServicesAssumption DEF All, Srv11

(* The first element of a sequence and the others.                         *)
LEMMA HeadTail ==
  ASSUME NEW S, NEW q \in Seq(S), q # <<>>
  PROVE  /\ Head(q) \in S /\ Tail(q) \in Seq(S) /\ Len(Tail(q)) = Len(q) - 1
         /\ Len(q) = 1 => Tail(q) = <<>>
         /\ 1 \in DOMAIN q /\ Head(q) = q[1]
         /\ \A i \in DOMAIN Tail(q) : i + 1 \in DOMAIN q /\ Tail(q)[i] = q[i + 1]
<1>1. /\ Head(q) \in S /\ Tail(q) \in Seq(S) /\ Len(Tail(q)) = Len(q) - 1
      /\ 1 \in DOMAIN q /\ Head(q) = q[1]
      /\ \A i \in DOMAIN Tail(q) : i + 1 \in DOMAIN q /\ Tail(q)[i] = q[i + 1]
  OBVIOUS
<1>2. \A t \in Seq(S) : Len(t) = 0 => t = <<>>
  OBVIOUS
<1> QED
  BY <1>1, <1>2

(* The lowest of some services is one of them.                             *)
LEMMA LeastService ==
  ASSUME NEW S \in SUBSET Services, S # {}
  PROVE  Least(S) \in S
<1>1. S \subseteq 0..8
  BY ServicesAssumption
<1>2. \E s \in S : \A t \in S : s <= t
  <2>1. CASE 0 \in S
    BY <1>1, <2>1
  <2>2. CASE 0 \notin S /\ 1 \in S
    BY <1>1, <2>2
  <2>3. CASE 0 \notin S /\ 1 \notin S /\ 2 \in S
    BY <1>1, <2>3
  <2>4. CASE 0 \notin S /\ 1 \notin S /\ 2 \notin S /\ 3 \in S
    BY <1>1, <2>4
  <2>5. CASE 0 \notin S /\ 1 \notin S /\ 2 \notin S /\ 3 \notin S /\ 4 \in S
    BY <1>1, <2>5
  <2>6. CASE 0 \notin S /\ 1 \notin S /\ 2 \notin S /\ 3 \notin S /\ 4 \notin S /\ 5 \in S
    BY <1>1, <2>6
  <2>7. CASE {0, 1, 2, 3, 4, 5} \cap S = {} /\ 6 \in S
    BY <1>1, <2>7
  <2>8. CASE {0, 1, 2, 3, 4, 5, 6} \cap S = {} /\ 7 \in S
    BY <1>1, <2>8
  <2>9. CASE {0, 1, 2, 3, 4, 5, 6, 7} \cap S = {} /\ 8 \in S
    BY <1>1, <2>9
  <2>10. PICK s \in S : s \in 0..8
    BY <1>1
  <2> QED
    BY <2>1, <2>2, <2>3, <2>4, <2>5, <2>6, <2>7, <2>8, <2>9, <2>10
<1> QED
  BY <1>2 DEF Least

(* The static buffers that a step moves are some of them.                  *)
LEMMA BuffersTyped ==
  /\ \A S \in SUBSET AllBuffers, nb \in Int : ClearMSBs(S, nb) \subseteq S
  BY DEF ClearMSBs

(* At first every variable has its type.                                   *)
LEMMA InitTyped == Init => TypeInv
<1> SUFFICES ASSUME Init PROVE TypeInv
  OBVIOUS
<1> USE ServicesAssumption, ServicesTyped
<1>1. SessionsOK /\ Mc5OK /\ SignalsOK /\ EventsOK /\ PortsOK /\ EndingOK /\ MutexOK
  <2>1. SessionsOK /\ SignalsOK /\ EventsOK /\ EndingOK /\ MutexOK
    <3>1. SessionsOK
      BY DEF Init, SessionsOK, States
    <3>2. SignalsOK
      <4>1. sendAllBuffersToArm9Event \in BOOLEAN
        BY DEF Init
      <4>2. replySemaphore \in 0..9
        BY DEF Init
      <4> QED
        BY <4>1, <4>2 DEF SignalsOK
    <3>3. EventsOK /\ EndingOK
      BY DEF Init, EventsOK, EndingOK
    <3> QED
      BY <3>1, <3>2, <3>3 DEF Init, MutexOK
  <2>2. PortsOK
    BY DEF Init, PortsOK, Clients, NoClient
  <2>3. Mc5OK
    <3>1. 0 \in 0 .. Word - 1
      BY ServicesAssumption
    <3> QED
      <4>1. sendingDisabled \in BOOLEAN
        BY DEF Init
      <4>2. latest_PXI_MC5_val \in 0..2 /\ pendingArm9Commands \in 0 .. Word - 1
        BY <3>1 DEF Init
      <4> QED
        BY <4>1, <4>2 DEF Mc5OK
  <2> QED
    BY <2>1, <2>2, <2>3
<1>2. BuffersOK
  BY BuffersTyped DEF Init, BuffersOK
<1>3. LinkOK
  <2>1. <<>> \in Seq(Messages) /\ <<"ready">> \in Seq(Messages)
    BY DEF Messages
  <2>2. <<>> \in Seq([to : All, message : Messages])
    OBVIOUS
  <2> QED
    BY <2>1, <2>2 DEF Init, LinkOK
<1>4. SenderOK /\ MainOK /\ ReceiverOK /\ HandlerOK
  BY DEF Init, SenderOK, MainOK, ReceiverOK, HandlerOK, Senders, Mains, Receivers, Handlers
<1>5. CommandsStored
  BY DEF Init, CommandsStored
<1> QED
  BY <1>1, <1>2, <1>3, <1>4, <1>5 DEF TypeInv

(* What a step leaves alone keeps its type.                                *)
LEMMA UnchangedTyped ==
  ASSUME TypeInv
  PROVE  /\ UNCHANGED sessions => SessionsOK' /\ UNCHANGED <<state, buffer, handle>>
         /\ UNCHANGED buffers => BuffersOK'
         /\ UNCHANGED mc5 => Mc5OK'
         /\ UNCHANGED signals => SignalsOK'
         /\ UNCHANGED srv11Events => EventsOK'
         /\ UNCHANGED link => LinkOK'
         /\ UNCHANGED ports => PortsOK'
         /\ UNCHANGED <<shouldTerminate, terminationRequestedEvent>> => EndingOK'
         /\ UNCHANGED PXITransferMutex => MutexOK'
         /\ UNCHANGED sender => SenderOK'
         /\ UNCHANGED main => MainOK'
         /\ UNCHANGED receiver => ReceiverOK'
         /\ UNCHANGED handler => HandlerOK'
         /\ UNCHANGED <<state, buffer, sender>> => CommandsStored'
<1>1. /\ UNCHANGED sessions => SessionsOK' /\ UNCHANGED <<state, buffer, handle>>
      /\ UNCHANGED buffers => BuffersOK'
      /\ UNCHANGED mc5 => Mc5OK'
  BY DEF TypeInv, SessionsOK, BuffersOK, Mc5OK, sessions, buffers, mc5
<1>2. /\ UNCHANGED signals => SignalsOK'
      /\ UNCHANGED srv11Events => EventsOK'
      /\ UNCHANGED link => LinkOK'
  BY DEF TypeInv, SignalsOK, EventsOK, LinkOK, signals, srv11Events, link
<1>3. /\ UNCHANGED ports => PortsOK'
      /\ UNCHANGED <<shouldTerminate, terminationRequestedEvent>> => EndingOK'
      /\ UNCHANGED PXITransferMutex => MutexOK'
  BY DEF TypeInv, PortsOK, EndingOK, MutexOK, ports
<1>4. /\ UNCHANGED sender => SenderOK'
      /\ UNCHANGED main => MainOK'
  BY DEF TypeInv, SenderOK, MainOK
<1>5. /\ UNCHANGED receiver => ReceiverOK'
      /\ UNCHANGED handler => HandlerOK'
  BY DEF TypeInv, ReceiverOK, HandlerOK
<1>6. UNCHANGED <<state, buffer, sender>> => CommandsStored'
  BY DEF TypeInv, CommandsStored
<1> QED
  BY <1>1, <1>2, <1>3, <1>4, <1>5, <1>6

(* The sender keeps to itself.                                             *)
LEMMA SenderOnlyTyped ==
  ASSUME TypeInv, SenderOnly
  PROVE  EventsOK' /\ EndingOK' /\ MainOK' /\ ReceiverOK' /\ HandlerOK'
  BY UnchangedTyped DEF SenderOnly, srv11Events

(* Transmitting a message.                                                 *)
LEMMA TransmitTyped ==
  ASSUME TypeInv, NEW s, NEW m \in Messages, Transmit(s, m)
  PROVE  LinkOK' /\ MutexOK'
<1>1. Append(toArm9[s], m) \in Seq(Messages) \/ s \notin All
  BY DEF TypeInv, LinkOK
<1>2. toArm9' \in [All -> Seq(Messages)]
  BY <1>1 DEF Transmit, TypeInv, LinkOK
<1> QED
  BY <1>2 DEF Transmit, TypeInv, LinkOK, MutexOK

(* Adding and subtracting one in the width of a word.                      *)
LEMMA WordTyped ==
  \A a \in Int : a % Word \in 0 .. Word - 1
  BY ServicesAssumption

(* The static buffers that a command keeps, and those that are released.   *)
LEMMA KeepTyped ==
  ASSUME TypeInv, NEW s \in Services, KeepStaticBuffers(s)
  PROVE  BuffersOK'
<1>1. StaticBuffersOf[s] \in Int /\ Provided \in Int
  BY ServicesAssumption
<1> DEFINE kept == ClearMSBs(currentlyProvidedStaticBuffers, Provided - StaticBuffersOf[s])
           rest == freeStaticBuffers \cup (currentlyProvidedStaticBuffers \ kept)
<1>2. kept \subseteq currentlyProvidedStaticBuffers
  BY <1>1, BuffersTyped DEF TypeInv, BuffersOK
<1>3. rest \subseteq AllBuffers
  BY DEF TypeInv, BuffersOK
<1>4. ClearMSBs(rest, Provided) \subseteq rest
  BY <1>1, <1>3, BuffersTyped
<1> HIDE DEF kept, rest
<1>5. /\ usedStaticBuffers' = [usedStaticBuffers EXCEPT ![s] = kept]
      /\ freeStaticBuffers' = ClearMSBs(rest, Provided)
      /\ currentlyProvidedStaticBuffers' = rest \ ClearMSBs(rest, Provided)
  BY DEF KeepStaticBuffers, AcquireStaticBuffers, kept, rest
<1> QED
  BY <1>2, <1>3, <1>4, <1>5 DEF TypeInv, BuffersOK

(* The static buffers of an answered command are released.                 *)
LEMMA ReleaseTyped ==
  ASSUME TypeInv, NEW s \in Services, ReleaseStaticBuffers(s)
  PROVE  BuffersOK'
<1>1. ClearMSBs(usedStaticBuffers[s], Provided) \subseteq usedStaticBuffers[s]
  BY ServicesAssumption, BuffersTyped DEF TypeInv, BuffersOK
<1> QED
  BY <1>1 DEF ReleaseStaticBuffers, TypeInv, BuffersOK

(* The sender keeps the types.                                             *)
LEMMA SenderTyped ==
  ASSUME TypeInv, SenderStep
  PROVE  TypeInv'
<1> USE ServicesAssumption, ServicesTyped
<1>0. SenderOnly
  BY DEF SenderStep, SendToArm9, AcquireTransfer, TransmitCommand, Listen, Reply, ReplyFailed,
         SessionClosed, CommandReceived, TerminationRequested, SendAllBuffers, Arm9Reply,
         CloseSession
<1>a. EventsOK' /\ EndingOK' /\ MainOK' /\ ReceiverOK' /\ HandlerOK'
  BY <1>0, SenderOnlyTyped
<1>1. CASE SendToArm9
  <2> DEFINE s == Least(Sendable)
  <2>1. s \in Services /\ state[s] = "fromArm11"
    <3>1. Sendable \in SUBSET Services /\ Sendable # {}
      BY <1>1 DEF SendToArm9, Sendable
    <3>2. s \in Sendable
      BY <3>1, LeastService
    <3> QED
      BY <3>2 DEF Sendable
  <2>2. /\ state' = [state EXCEPT ![s] = "sent"]
        /\ sender' = [sender EXCEPT !.pc = "acquire", !.at = s]
        /\ sender.replyTarget = None /\ UNCHANGED <<buffer, handle>>
    BY <1>1 DEF SendToArm9
  <2> HIDE DEF s
  <2>3. SessionsOK'
    BY <2>1, <2>2 DEF TypeInv, SessionsOK, States
  <2>4. SenderOK'
    BY <2>1, <2>2 DEF TypeInv, SenderOK, Senders
  <2>5. CommandsStored'
    BY <2>1, <2>2 DEF TypeInv, SenderOK, Senders, SessionsOK, CommandsStored
  <2>6. Mc5OK'
    BY <1>1, WordTyped DEF SendToArm9, TypeInv, Mc5OK
  <2>7. BuffersOK' /\ SignalsOK' /\ LinkOK' /\ PortsOK' /\ MutexOK'
    BY <1>1, UnchangedTyped DEF SendToArm9
  <2> QED
    BY <1>a, <2>3, <2>4, <2>5, <2>6, <2>7 DEF TypeInv
<1>2. CASE AcquireTransfer
  <2>1. SenderOK' /\ MutexOK'
    BY <1>2 DEF AcquireTransfer, TakeTransferMutex, Sender, TypeInv, SenderOK, Senders, MutexOK
  <2>2. CommandsStored'
    BY <1>2 DEF AcquireTransfer, Sender, TypeInv, SenderOK, Senders, CommandsStored, sessions
  <2>3. SessionsOK' /\ BuffersOK' /\ Mc5OK' /\ SignalsOK' /\ LinkOK' /\ PortsOK'
    BY <1>2, UnchangedTyped DEF AcquireTransfer
  <2> QED
    BY <1>a, <2>1, <2>2, <2>3 DEF TypeInv
<1>3. CASE TransmitCommand
  <2>1. buffer[sender.at] \in Messages
    BY <1>3 DEF TransmitCommand, Sender, TypeInv, CommandsStored, Commands, Messages
  <2>2. LinkOK' /\ MutexOK'
    BY <1>3, <2>1, TransmitTyped DEF TransmitCommand
  <2>3. SenderOK' /\ CommandsStored'
    BY <1>3 DEF TransmitCommand, Sender, TypeInv, SenderOK, Senders, CommandsStored, sessions
  <2>4. SessionsOK' /\ BuffersOK' /\ Mc5OK' /\ SignalsOK' /\ PortsOK'
    BY <1>3, UnchangedTyped DEF TransmitCommand
  <2> QED
    BY <1>a, <2>2, <2>3, <2>4 DEF TypeInv
<1>4. CASE Listen
  <2>1. SenderOK' /\ CommandsStored'
    BY <1>4 DEF Listen, Sender, TypeInv, SenderOK, Senders, CommandsStored, sessions
  <2>2. SessionsOK' /\ BuffersOK' /\ Mc5OK' /\ SignalsOK' /\ LinkOK' /\ PortsOK' /\ MutexOK'
    BY <1>4, UnchangedTyped DEF Listen
  <2> QED
    BY <1>a, <2>1, <2>2 DEF TypeInv
<1>5. CASE Reply
  <2>1. SenderOK' /\ CommandsStored'
    BY <1>5 DEF Reply, Sender, TypeInv, SenderOK, Senders, CommandsStored, sessions
  <2>2. PortsOK'
    BY <1>5 DEF Reply, Sender, TypeInv, PortsOK, Clients
  <2>3. SessionsOK' /\ BuffersOK' /\ Mc5OK' /\ SignalsOK' /\ LinkOK' /\ MutexOK'
    BY <1>5, UnchangedTyped DEF Reply
  <2> QED
    BY <1>a, <2>1, <2>2, <2>3 DEF TypeInv
<1>6. ASSUME NEW s, CloseSession(s), sender.pc \in {"reply", "wait"}
      PROVE  TypeInv'
  <2>1. SenderOK' /\ CommandsStored'
    BY <1>6 DEF CloseSession, TypeInv, SenderOK, Senders, CommandsStored
  <2>2. PortsOK'
    BY <1>6 DEF CloseSession, TypeInv, PortsOK, Clients, NoClient
  <2>3. SessionsOK'
    BY <1>6 DEF CloseSession, TypeInv, SessionsOK
  <2>4. BuffersOK' /\ Mc5OK' /\ SignalsOK' /\ LinkOK' /\ MutexOK'
    BY <1>6, UnchangedTyped DEF CloseSession
  <2> QED
    BY <1>a, <2>1, <2>2, <2>3, <2>4 DEF TypeInv
<1>7. CASE ReplyFailed
  BY <1>6, <1>7 DEF ReplyFailed, Sender
<1>8. CASE TerminationRequested
  <2>1. SenderOK' /\ CommandsStored'
    BY <1>8 DEF TerminationRequested, TypeInv, SenderOK, Senders, CommandsStored, sessions
  <2>2. PortsOK'
    BY <1>8 DEF TerminationRequested, TypeInv, PortsOK, Clients, NoClient
  <2>3. SessionsOK' /\ BuffersOK' /\ Mc5OK' /\ SignalsOK' /\ LinkOK' /\ MutexOK'
    BY <1>8, UnchangedTyped DEF TerminationRequested
  <2> QED
    BY <1>a, <2>1, <2>2, <2>3 DEF TypeInv
<1>9. CASE SendAllBuffers
  <2>1. SenderOK' /\ CommandsStored' /\ SignalsOK'
    BY <1>9 DEF SendAllBuffers, Sender, TypeInv, SenderOK, Senders, CommandsStored, sessions,
                SignalsOK
  <2>2. SessionsOK' /\ BuffersOK' /\ Mc5OK' /\ LinkOK' /\ PortsOK' /\ MutexOK'
    BY <1>9, UnchangedTyped DEF SendAllBuffers
  <2> QED
    BY <1>a, <2>1, <2>2 DEF TypeInv
<1>10. CASE Arm9Reply
  <2> DEFINE s == Least(Answered)
  <2>1. SignalsOK' /\ LinkOK' /\ PortsOK' /\ MutexOK'
    BY <1>10, UnchangedTyped DEF Arm9Reply, TypeInv, SignalsOK
  <2>2. CASE UNCHANGED <<state, buffers, mc5, sender>>
    <3>1. SessionsOK' /\ CommandsStored'
      BY <1>10, <2>2 DEF Arm9Reply, TypeInv, SessionsOK, CommandsStored
    <3> QED
      BY <1>a, <2>1, <2>2, <3>1, UnchangedTyped DEF TypeInv
  <2>3. CASE /\ Answered # {} /\ CountAnswer /\ ReleaseStaticBuffers(s)
             /\ state' = [state EXCEPT ![s] = "idle"]
             /\ sender' = [sender EXCEPT !.pc = "top",
                             !.replyTarget = IF handle[s] THEN s ELSE None]
    <3>1. Answered \in SUBSET Services
      BY DEF Answered
    <3>2. s \in Services
      BY <2>3, <3>1, LeastService
    <3> HIDE DEF s
    <3>3. BuffersOK'
      BY <2>3, <3>2, ReleaseTyped
    <3>4. Mc5OK'
      <4>1. (pendingArm9Commands - 1) % Word \in 0 .. Word - 1
        BY WordTyped DEF TypeInv, Mc5OK
      <4> QED
        BY <2>3, <4>1 DEF CountAnswer, mc5, TypeInv, Mc5OK
    <3>5. SessionsOK' /\ SenderOK' /\ CommandsStored'
      BY <1>10, <2>3, <3>2 DEF Arm9Reply, TypeInv, SessionsOK, States, SenderOK, Senders,
                               CommandsStored
    <3> QED
      BY <1>a, <2>1, <3>3, <3>4, <3>5 DEF TypeInv
  <2> QED
    BY <1>10, <2>2, <2>3 DEF Arm9Reply
<1>11. ASSUME NEW s \in Services, SessionClosed(s)
       PROVE  TypeInv'
  BY <1>6, <1>11 DEF SessionClosed, Sender
<1>12. ASSUME NEW s \in Services, CommandReceived(s)
       PROVE  TypeInv'
  <2> DEFINE kind == client[s].kind
  <2>1. SignalsOK' /\ LinkOK' /\ PortsOK' /\ MutexOK' /\ UNCHANGED handle
    BY <1>12, UnchangedTyped DEF CommandReceived
  <2>2. CASE UNCHANGED <<state, buffer, buffers, mc5, sender>>
    <3>1. SessionsOK'
      BY <2>1, <2>2 DEF TypeInv, SessionsOK
    <3> QED
      BY <1>a, <2>1, <2>2, <3>1, UnchangedTyped DEF TypeInv
  <2>3. CASE /\ NoteCommand(kind) /\ UNCHANGED pendingArm9Commands
             /\ buffer' = [buffer EXCEPT ![s] = kind]
             /\ state' = [state EXCEPT ![s] = "fromArm11"]
             /\ KeepStaticBuffers(s)
             /\ sender' = [sender EXCEPT !.pc = "top", !.replyTarget = None]
    <3>1. kind \in Messages /\ kind \in Commands
      BY <1>12 DEF CommandReceived, TypeInv, PortsOK, Messages, Commands
    <3>2. SessionsOK' /\ CommandsStored' /\ SenderOK'
      BY <2>1, <2>3, <3>1 DEF TypeInv, SessionsOK, States, SenderOK, Senders, CommandsStored
    <3>3. BuffersOK'
      BY <2>3, KeepTyped
    <3>4. Mc5OK'
      <4>1. pendingArm9Commands' \in 0 .. Word - 1
        BY <2>3 DEF TypeInv, Mc5OK
      <4>2. sendingDisabled' \in BOOLEAN
        BY <2>3 DEF NoteCommand, TypeInv, Mc5OK
      <4>3. latest_PXI_MC5_val' \in {0, 1, 2}
        BY <2>3 DEF NoteCommand
      <4> QED
        BY <4>1, <4>2, <4>3 DEF Mc5OK
    <3> QED
      BY <1>a, <2>1, <3>2, <3>3, <3>4 DEF TypeInv
  <2> QED
    BY <1>12, <2>2, <2>3 DEF CommandReceived
<1> QED
  BY <1>1, <1>2, <1>3, <1>4, <1>5, <1>7, <1>8, <1>9, <1>10, <1>11, <1>12 DEF SenderStep

(* main keeps the types.                                                   *)
LEMMA MainTyped ==
  ASSUME TypeInv, MainStep
  PROVE  TypeInv'
<1> USE ServicesAssumption, ServicesTyped
<1>0. MainOnly /\ UNCHANGED sender
  BY DEF MainStep, Terminate, AcceptSession, EnterSession, OverwriteState, AcquireLast,
         TransmitLast, JoinThreads
<1>a. BuffersOK' /\ Mc5OK' /\ EventsOK' /\ SenderOK' /\ ReceiverOK' /\ HandlerOK'
  BY <1>0, UnchangedTyped DEF MainOnly, srv11Events
<1>b. UNCHANGED <<buffer, replySemaphore, terminationRequestedEvent>>
  BY <1>0 DEF MainOnly
<1>1. CASE Terminate
  <2>1. MainOK' /\ EndingOK' /\ SignalsOK'
    BY <1>1, <1>b DEF Terminate, TypeInv, MainOK, Mains, EndingOK, SignalsOK
  <2>2. SessionsOK' /\ LinkOK' /\ PortsOK' /\ MutexOK' /\ CommandsStored'
    BY <1>0, <1>1, UnchangedTyped DEF Terminate
  <2> QED
    BY <1>a, <2>1, <2>2 DEF TypeInv
<1>2. ASSUME NEW s \in Services, AcceptSession(s)
      PROVE  TypeInv'
  <2>1. MainOK' /\ EndingOK' /\ SignalsOK' /\ PortsOK'
    BY <1>2, <1>b DEF AcceptSession, TypeInv, MainOK, Mains, EndingOK, SignalsOK, PortsOK
  <2>2. SessionsOK' /\ LinkOK' /\ MutexOK' /\ CommandsStored'
    BY <1>0, <1>2, UnchangedTyped DEF AcceptSession
  <2> QED
    BY <1>a, <2>1, <2>2 DEF TypeInv
<1>3. CASE EnterSession
  <2>1. MainOK' /\ EndingOK' /\ SignalsOK' /\ SessionsOK'
    <3>1. MainOK' /\ EndingOK'
      BY <1>3, <1>b DEF EnterSession, TypeInv, MainOK, Mains, EndingOK
    <3>2. SessionsOK'
      BY <1>3, <1>b DEF EnterSession, TypeInv, SessionsOK
    <3>3. SignalsOK'
      BY <1>3, <1>b DEF EnterSession, TypeInv, SignalsOK
    <3> QED
      BY <3>1, <3>2, <3>3
  <2>2. LinkOK' /\ MutexOK' /\ PortsOK' /\ CommandsStored'
    BY <1>0, <1>3, <1>b, UnchangedTyped DEF EnterSession
  <2> QED
    BY <1>a, <2>1, <2>2 DEF TypeInv
<1>4. CASE OverwriteState
  <2>1. MainOK' /\ EndingOK' /\ SignalsOK' /\ SessionsOK'
    BY <1>4, <1>b DEF OverwriteState, TypeInv, MainOK, Mains, EndingOK, SignalsOK, SessionsOK,
                      States
  <2>2. CommandsStored'
    BY <1>0, <1>4, <1>b DEF OverwriteState, TypeInv, SessionsOK, CommandsStored
  <2>3. LinkOK' /\ MutexOK' /\ PortsOK'
    BY <1>4, UnchangedTyped DEF OverwriteState
  <2> QED
    BY <1>a, <2>1, <2>2, <2>3 DEF TypeInv
<1>5. CASE AcquireLast
  <2>1. MainOK' /\ EndingOK' /\ SignalsOK' /\ MutexOK'
    BY <1>5, <1>b DEF AcquireLast, TakeTransferMutex, TypeInv, MainOK, Mains, EndingOK,
       SignalsOK,
                      MutexOK
  <2>2. SessionsOK' /\ LinkOK' /\ PortsOK' /\ CommandsStored'
    BY <1>0, <1>5, UnchangedTyped DEF AcquireLast
  <2> QED
    BY <1>a, <2>1, <2>2 DEF TypeInv
<1>6. CASE TransmitLast
  <2>1. MainOK' /\ EndingOK' /\ SignalsOK'
    BY <1>6, <1>b DEF TransmitLast, TypeInv, MainOK, Mains, EndingOK, SignalsOK
  <2>2. LinkOK' /\ MutexOK'
    BY <1>6, TransmitTyped DEF TransmitLast, Messages
  <2>3. SessionsOK' /\ PortsOK' /\ CommandsStored'
    BY <1>0, <1>6, UnchangedTyped DEF TransmitLast
  <2> QED
    BY <1>a, <2>1, <2>2, <2>3 DEF TypeInv
<1>7. CASE JoinThreads
  <2>1. MainOK' /\ EndingOK' /\ SignalsOK'
    BY <1>7, <1>b DEF JoinThreads, TypeInv, MainOK, Mains, EndingOK, SignalsOK
  <2>2. SessionsOK' /\ LinkOK' /\ MutexOK' /\ PortsOK' /\ CommandsStored'
    BY <1>0, <1>7, UnchangedTyped DEF JoinThreads
  <2> QED
    BY <1>a, <2>1, <2>2 DEF TypeInv
<1> QED
  BY <1>1, <1>2, <1>3, <1>4, <1>5, <1>6, <1>7 DEF MainStep

(* So does the receiver.                                                   *)
LEMMA ReceiverTyped ==
  ASSUME TypeInv, ReceiverStep
  PROVE  TypeInv'
<1> USE ServicesAssumption, ServicesTyped
<1>0. ReceiverOnly
  BY DEF ReceiverStep, ReceiverStarts, WaitForArm9, FIFOEmpty, ReceiveFromArm9, TellThreads,
         TellSender, TellHandler, WaitReplySent
<1>a. BuffersOK' /\ Mc5OK' /\ PortsOK' /\ SenderOK' /\ MainOK' /\ HandlerOK' /\ MutexOK'
  BY <1>0, UnchangedTyped DEF ReceiverOnly
<1>b. UNCHANGED <<handle, sendAllBuffersToArm9Event, toArm9, shouldTerminate, sender>>
  BY <1>0 DEF ReceiverOnly
<1>1. CASE ReceiveFromArm9
  <2>1. PICK m \in [to : All, message : Messages] :
          \/ /\ state' = state /\ buffer' = buffer /\ fromArm9' = fromArm9
             /\ receiver' = receiver
          \/ /\ state[m.to] = "sent"
             /\ ~(sender.pc \in {"acquire", "transmit"} /\ sender.at = m.to)
             /\ state' = [state EXCEPT ![m.to] = "fromArm9"]
             /\ buffer' = [buffer EXCEPT ![m.to] = m.message]
             /\ fromArm9' = Tail(fromArm9)
             /\ receiver' = [pc |-> "tell", at |-> m.to]
    <3>1. Head(fromArm9) \in [to : All, message : Messages]
      <4>1. fromArm9 \in Seq([to : All, message : Messages]) /\ fromArm9 # <<>>
        BY <1>1 DEF ReceiveFromArm9, TypeInv, LinkOK
      <4> QED
        BY <4>1, HeadTail
    <3> QED
      BY <1>1, <3>1 DEF ReceiveFromArm9, Locked
  <2>2. SessionsOK' /\ CommandsStored'
    <3>1. SessionsOK'
      BY <1>b, <2>1 DEF TypeInv, SessionsOK, States
    <3>2. \A s \in Services : state'[s] = "fromArm11" =>
            state[s] = "fromArm11" /\ buffer'[s] = buffer[s]
      BY <2>1 DEF TypeInv, SessionsOK
    <3>3. sender.pc \in {"acquire", "transmit"} =>
            sender.at \in Services /\ buffer'[sender.at] = buffer[sender.at]
      BY <2>1 DEF TypeInv, SessionsOK, SenderOK
    <3>4. CommandsStored
      BY DEF TypeInv
    <3>5. CommandsStored'
      BY <1>b, <3>2, <3>3, <3>4 DEF CommandsStored
    <3> QED
      BY <3>1, <3>5
  <2>3. LinkOK' /\ ReceiverOK'
    <3>1. Tail(fromArm9) \in Seq([to : All, message : Messages])
      BY <1>1 DEF ReceiveFromArm9, TypeInv, LinkOK
    <3> QED
      <4>1. LinkOK'
        BY <1>1, <1>b, <2>1, <3>1 DEF ReceiveFromArm9, TypeInv, LinkOK
      <4>2. ReceiverOK'
        BY <2>1 DEF TypeInv, ReceiverOK, Receivers
      <4> QED
        BY <4>1, <4>2
  <2>4. SignalsOK' /\ EventsOK' /\ EndingOK'
    BY <1>1, <1>b DEF ReceiveFromArm9, TypeInv, SignalsOK, EventsOK, EndingOK, srv11Events
  <2> QED
    BY <1>a, <2>2, <2>3, <2>4 DEF TypeInv
<1>2. CASE ~ReceiveFromArm9
  <2>1. UNCHANGED <<state, buffer, fromArm9>>
    BY <1>2 DEF ReceiverStep, ReceiverStarts, WaitForArm9, FIFOEmpty, TellThreads,
                TellSender, TellHandler, WaitReplySent
  <2>2. SessionsOK' /\ CommandsStored'
    BY <1>b, <2>1, UnchangedTyped DEF sessions
  <2>3. ReceiverOK'
    BY <1>2 DEF ReceiverStep, ReceiverStarts, WaitForArm9, FIFOEmpty, TellThreads, Receiver,
                TellSender, TellHandler, WaitReplySent, TypeInv, ReceiverOK, Receivers
  <2>4. LinkOK'
    BY <1>2, <1>b, <2>1 DEF ReceiverStep, ReceiverStarts, WaitForArm9, FIFOEmpty, TellThreads,
                TellSender, TellHandler, WaitReplySent, TypeInv, LinkOK
  <2>5. SignalsOK'
    <3>1. \/ replySemaphore' = replySemaphore
          \/ replySemaphore # 9 /\ replySemaphore' = replySemaphore + 1
      BY <1>2 DEF ReceiverStep, ReceiverStarts, WaitForArm9, FIFOEmpty, TellThreads,
                  TellSender, TellHandler, WaitReplySent
    <3> QED
      BY <1>b, <3>1 DEF TypeInv, SignalsOK
  <2>6. EventsOK' /\ EndingOK'
    BY <1>2, <1>b DEF ReceiverStep, ReceiverStarts, WaitForArm9, FIFOEmpty, TellThreads,
                TellSender, TellHandler, WaitReplySent, TypeInv, EventsOK, EndingOK, srv11Events
  <2> QED
    BY <1>a, <2>2, <2>3, <2>4, <2>5, <2>6 DEF TypeInv
<1> QED
  BY <1>1, <1>2

(* So does the handler of PXISRV11.                                        *)
LEMMA HandlerTyped ==
  ASSUME TypeInv, HandlerStep
  PROVE  TypeInv'
<1> USE ServicesAssumption, ServicesTyped
<1>0. HandlerOnly
  BY DEF HandlerStep, HandlerStarts, HandleSrv11Command, HandlerAcquire, HandlerTransmit,
         HandlerEnds
<1>1. /\ BuffersOK' /\ Mc5OK' /\ SignalsOK' /\ PortsOK' /\ EndingOK'
      /\ SenderOK' /\ MainOK' /\ ReceiverOK'
  BY <1>0, UnchangedTyped DEF HandlerOnly
<1>2. SessionsOK' /\ CommandsStored'
  <2>1. /\ buffer' = buffer /\ handle' = handle /\ sender' = sender
        /\ state' = state \/ \E v \in States : state' = [state EXCEPT ![Srv11] = v]
    BY <1>0 DEF HandlerOnly, HandlerStep, HandlerStarts, HandleSrv11Command, HandlerAcquire,
                HandlerTransmit, HandlerEnds, States
  <2> QED
    BY <2>1 DEF TypeInv, SessionsOK, CommandsStored
<1>3. LinkOK' /\ MutexOK'
  <2>1. CASE HandlerTransmit
    BY <2>1, TransmitTyped DEF HandlerTransmit, Messages
  <2>2. CASE ~HandlerTransmit
    BY <1>0, <2>2 DEF HandlerOnly, HandlerStep, HandlerStarts, HandleSrv11Command,
       HandlerAcquire,
                HandlerEnds, TypeInv, LinkOK, MutexOK, TakeTransferMutex
  <2> QED
    BY <2>1, <2>2
<1>4. HandlerOK' /\ EventsOK'
  BY DEF HandlerStep, HandlerStarts, HandleSrv11Command, HandlerAcquire, HandlerTransmit,
         HandlerEnds, TypeInv, HandlerOK, Handlers, EventsOK, srv11Events
<1> QED
  BY <1>1, <1>2, <1>3, <1>4 DEF TypeInv

(* So do the ARM9 and the clients.                                         *)
LEMMA EnvironmentTyped ==
  ASSUME TypeInv,
         \/ \E s \in All : Arm9Sends(s)
         \/ \E s \in Services : Connect(s) \/ SendCommand(s) \/ Leave(s)
  PROVE  TypeInv'
<1> USE ServicesAssumption, ServicesTyped
<1>0. Environment
  BY DEF Arm9Sends, Connect, SendCommand, Leave
<1>1. /\ SessionsOK' /\ BuffersOK' /\ Mc5OK' /\ SignalsOK' /\ EventsOK' /\ EndingOK' /\ MutexOK'
      /\ SenderOK' /\ MainOK' /\ ReceiverOK' /\ HandlerOK' /\ CommandsStored'
  BY <1>0, UnchangedTyped DEF Environment, ending, sessions
<1>2. ASSUME NEW s \in All, Arm9Sends(s)
      PROVE  LinkOK' /\ PortsOK'
  <2>1. \A t \in All : toArm9[t] # <<>> => Tail(toArm9[t]) \in Seq(Messages)
    BY DEF TypeInv, LinkOK
  <2>2. <<>> \in Seq(Messages) /\ toArm9[s] # <<>> /\ Head(toArm9[s]) \in Messages
    BY <1>2 DEF Arm9Sends, TypeInv, LinkOK
  <2>3. toArm9' \in [All -> Seq(Messages)]
    BY <1>2, <2>1, <2>2 DEF Arm9Sends, TypeInv, LinkOK
  <2>4. fromArm9' \in Seq([to : All, message : Messages])
    BY <1>2, <2>2 DEF Arm9Sends, TypeInv, LinkOK
  <2> QED
    BY <1>2, <2>3, <2>4, UnchangedTyped DEF Arm9Sends, LinkOK
<1>3. ASSUME NEW s \in Services, Connect(s) \/ SendCommand(s) \/ Leave(s)
      PROVE  LinkOK' /\ PortsOK'
  <2>1. LinkOK'
    BY <1>3, UnchangedTyped DEF Connect, SendCommand, Leave
  <2>2. \A kind \in Kinds(s) : kind \in Commands /\ kind \in Messages
    BY DEF Kinds, Messages, Commands
  <2> QED
    <3>1. CASE Connect(s)
      BY <2>1, <3>1 DEF Connect, TypeInv, PortsOK, Clients
    <3>2. CASE SendCommand(s)
      <4>1. PICK kind \in Kinds(s) : client' = [client EXCEPT ![s].at = "waiting", ![s].kind = kind]
        BY <3>2 DEF SendCommand
      <4> QED
        BY <2>1, <2>2, <3>2, <4>1 DEF SendCommand, TypeInv, PortsOK, Clients
    <3>3. CASE Leave(s)
      BY <2>1, <3>3 DEF Leave, TypeInv, PortsOK, Clients
    <3> QED
      BY <1>3, <3>1, <3>2, <3>3
<1> QED
  BY <1>1, <1>2, <1>3 DEF TypeInv

(* So does every step.                                                     *)
LEMMA TypeNext ==
  ASSUME TypeInv, [Next]_vars
  PROVE  TypeInv'
<1>1. CASE UNCHANGED vars
  BY <1>1, UnchangedTyped DEF vars, TypeInv, sessions, ending
<1> QED
  BY <1>1, SenderTyped, MainTyped, ReceiverTyped, HandlerTyped, EnvironmentTyped DEF Next

(* Types hold always.                                                      *)
LEMMA TypeInvariance == Spec => []TypeInv
<1>1. TypeInv /\ [Next]_vars => TypeInv'
  BY TypeNext
<1> QED
  BY <1>1, InitTyped, PTL DEF Spec

-----------------------------------------------------------------------------
(* The sessions                                                            *)

(* The invariant holds at first.                                           *)
LEMMA InitCalls == Init => CallInv
<1> USE ServicesTyped
<1> SUFFICES ASSUME Init PROVE CallInv
  OBVIOUS
<1>1. NotEnding
  <2>1. \A s \in All : \A i \in DOMAIN toArm9[s] : toArm9[s][i] # "terminate"
    <3>1. \A s \in All : toArm9[s] = <<"ready">> \/ toArm9[s] = <<>>
      BY DEF Init
    <3> QED
      BY <3>1
  <2> QED
    BY <2>1 DEF Init, NotEnding
<1>2. ASSUME NEW s \in Services
      PROVE  Visiting(s) /\ Serving(s) /\ Travelling(s)
  BY DEF Init, Visiting, Serving, Travelling, Entering, Sending, Returning, NoClient
<1> QED
  BY <1>1, <1>2 DEF CallInv

(* The facts of a state that the proofs below start from.                  *)
LEMMA InvTyped ==
  ASSUME Inv
  PROVE  /\ state \in [All -> States] /\ buffer \in [All -> Messages \cup {None}]
         /\ handle \in [Services -> BOOLEAN]
         /\ client \in [Services -> Clients] /\ connecting \in [Services -> BOOLEAN]
         /\ toArm9 \in [All -> Seq(Messages)]
         /\ fromArm9 \in Seq([to : All, message : Messages])
         /\ sender \in Senders /\ main \in Mains /\ SenderOK
  BY DEF Inv, TypeInv, SessionsOK, PortsOK, LinkOK, SenderOK, MainOK

\* What a step does to the call of PxiCalls, session by session.
Alive(s) == client[s].at \in {"idle", "waiting"}
Same(s) == Phase(s)' = Phase(s) /\ Alive(s)' = Alive(s)
Moves(s, from, phase, alive) ==
  /\ Phase(s) = from /\ Phase(s)' = phase /\ Alive(s)' = alive
  /\ \A t \in Services \ {s} : Same(t)
CallMoves(s) ==
  \/ Moves(s, "closed", "idle", TRUE)
  \/ Alive(s) /\ Moves(s, "idle", "called", TRUE)
  \/ Moves(s, "called", "forwarded", Alive(s))
  \/ Moves(s, "forwarded", "answered", Alive(s))
  \/ Alive(s) /\ Moves(s, "answered", "idle", TRUE)
  \/ Alive(s) /\ \E phase \in {"idle", "called", "forwarded", "answered"} :
                   Moves(s, phase, phase, FALSE)
  \/ Alive(s) /\ Moves(s, "called", "idle", FALSE)
  \/ ~Alive(s) /\ \E phase \in {"idle", "answered"} : Moves(s, phase, "closed", FALSE)

CallStep == (\A s \in Services : Same(s)) \/ \E s \in Services : CallMoves(s)

(* Every phase is one of those of PxiCalls.                                *)
LEMMA PhaseTyped ==
  ASSUME NEW s
  PROVE  Phase(s) \in {"closed", "idle", "called", "forwarded", "answered"}
  BY DEF Phase

(* A step of the sessions is a step of PxiCalls, or none.                  *)
LEMMA StepOfCalls ==
  ASSUME CallStep, UNCHANGED shouldTerminate
  PROVE  AsCalls!Next \/ UNCHANGED <<[s \in Services |-> [phase |-> Phase(s),
                                       alive |-> client[s].at \in {"idle", "waiting"}]],
                                     shouldTerminate>>
<1> DEFINE call == [s \in Services |-> [phase |-> Phase(s), alive |-> client[s].at \in {"idle", "waiting"}]]
<1>1. CASE \A s \in Services : Same(s)
  BY <1>1 DEF Same, Alive
<1>2. ASSUME NEW s \in Services, CallMoves(s)
      PROVE  AsCalls!Next
  <2>1. ASSUME NEW from, NEW phase, NEW alive, Moves(s, from, phase, alive)
        PROVE  AsCalls!Become(s, from, phase, alive)
    BY <2>1 DEF Moves, Same, Alive, AsCalls!Become
  <2>2. CASE Moves(s, "closed", "idle", TRUE)
    BY <2>1, <2>2 DEF AsCalls!Next, AsCalls!Open
  <2>3. CASE Alive(s) /\ Moves(s, "idle", "called", TRUE)
    BY <2>1, <2>3 DEF AsCalls!Next, AsCalls!Call, Alive
  <2>a. call[s].alive = Alive(s)
    BY DEF Alive
  <2>4. CASE Moves(s, "called", "forwarded", Alive(s))
    <3>1. PICK alive : alive = call[s].alive
      OBVIOUS
    <3>2. AsCalls!Become(s, "called", "forwarded", alive)
      BY <2>1, <2>4, <2>a, <3>1 DEF Moves
    <3>3. AsCalls!Become(s, "called", "forwarded", call[s].alive)
      BY <3>1, <3>2 DEF AsCalls!Become
    <3> QED
      BY <3>3 DEF AsCalls!Next, AsCalls!Forward
  <2>5. CASE Moves(s, "forwarded", "answered", Alive(s))
    <3>1. PICK alive : alive = call[s].alive
      OBVIOUS
    <3>2. AsCalls!Become(s, "forwarded", "answered", alive)
      BY <2>1, <2>5, <2>a, <3>1 DEF Moves
    <3>3. AsCalls!Become(s, "forwarded", "answered", call[s].alive)
      BY <3>1, <3>2 DEF AsCalls!Become
    <3> QED
      BY <3>3 DEF AsCalls!Next, AsCalls!Answer
  <2>6. CASE Alive(s) /\ Moves(s, "answered", "idle", TRUE)
    BY <2>1, <2>6 DEF AsCalls!Next, AsCalls!Return, Alive
  <2>7. ASSUME NEW phase \in {"idle", "called", "forwarded", "answered"}, Alive(s),
               Moves(s, phase, phase, FALSE)
        PROVE  AsCalls!Next
    BY <2>1, <2>7 DEF AsCalls!Next, AsCalls!Leave, AsCalls!Phases, Alive
  <2>8. CASE Alive(s) /\ Moves(s, "called", "idle", FALSE)
    BY <2>1, <2>8 DEF AsCalls!Next, AsCalls!Leave, Alive
  <2>9. ASSUME NEW phase \in {"idle", "answered"}, ~Alive(s), Moves(s, phase, "closed", FALSE)
        PROVE  AsCalls!Next
    BY <2>1, <2>9 DEF AsCalls!Next, AsCalls!HangUp, Alive
  <2> QED
    BY <1>2, <2>2, <2>3, <2>4, <2>5, <2>6, <2>7, <2>8, <2>9 DEF CallMoves
<1> QED
  BY <1>1, <1>2 DEF CallStep

(* Told to terminate, pxi promises nothing any more.                       *)
LEMMA EndOfCalls ==
  ASSUME shouldTerminate'
  PROVE  AsCalls!ShutDown
<1>1. \A s \in Services : Phase(s)' \in {"closed", "idle", "called", "forwarded", "answered"}
  BY DEF Phase
<1> QED
  BY <1>1 DEF AsCalls!ShutDown, AsCalls!Calls, AsCalls!Phases

(* At first every session is closed.                                       *)
LEMMA InitOfCalls == Init => AsCalls!Init
<1> SUFFICES ASSUME Init PROVE AsCalls!Init
  OBVIOUS
<1>1. \A s \in Services : client[s].at = "none"
  BY DEF Init, NoClient
<1>2. ASSUME NEW s \in Services
      PROVE  Phase(s) = "closed" /\ (client[s].at \in {"idle", "waiting"}) = FALSE
  <2>1. Phase(s) = "closed"
    BY <1>1 DEF Phase
  <2>2. client[s].at \notin {"idle", "waiting"}
    BY <1>1
  <2> QED
    BY <2>1, <2>2
<1>3. shouldTerminate = FALSE
  BY DEF Init
<1> QED
  BY <1>2, <1>3 DEF AsCalls!Init, AsCalls!Closed

(* The sender goes to listen.                                              *)
LEMMA ListenCalls ==
  ASSUME Inv, ~shouldTerminate, Listen
  PROVE  CallInv' /\ CallStep
<1> USE ServicesTyped, InvTyped DEF Listen, SenderOnly, Sender, sessions, signals, link,
ports, Senders, SenderOK, Cancelled
<1>0. NotEnding /\ \A t \in Services : Visiting(t) /\ Serving(t) /\ Travelling(t)
  BY DEF Inv, CallInv
<1>1. NotEnding'
  BY <1>0 DEF NotEnding
<1>2. ASSUME NEW t \in Services
      PROVE  Visiting(t)' /\ Serving(t)' /\ Travelling(t)'
  <2>1. Visiting(t)'
    BY <1>0 DEF Visiting, Entering
  <2>2. Serving(t)'
    BY <1>0 DEF Serving, Sending, Returning, NotEnding
  <2>3. Travelling(t)'
    BY <1>0 DEF Travelling, Sending, Serving
  <2> QED
    BY <2>1, <2>2, <2>3
<1>3. ASSUME NEW t \in Services
      PROVE  Same(t)
  BY <1>0 DEF Same, Phase, Alive, Visiting, Serving, Travelling, Sending, Returning, NotEnding
<1> QED
  BY <1>1, <1>2, <1>3 DEF CallInv, CallStep

(* It takes the mutex: before the end nobody gives up.                     *)
LEMMA AcquireCalls ==
  ASSUME Inv, ~shouldTerminate, AcquireTransfer
  PROVE  CallInv' /\ CallStep
<1> USE ServicesTyped, InvTyped DEF AcquireTransfer, SenderOnly, Sender, sessions, signals,
link, ports, Senders, SenderOK, Cancelled
<1>0. NotEnding /\ \A t \in Services : Visiting(t) /\ Serving(t) /\ Travelling(t)
  BY DEF Inv, CallInv
<1>1. NotEnding'
  BY <1>0 DEF NotEnding
<1>2. ASSUME NEW t \in Services
      PROVE  Visiting(t)' /\ Serving(t)' /\ Travelling(t)'
  <2>1. Visiting(t)'
    BY <1>0 DEF Visiting, Entering
  <2>2. Serving(t)'
    BY <1>0 DEF Serving, Sending, Returning, NotEnding
  <2>3. Travelling(t)'
    BY <1>0 DEF Travelling, Sending, Serving
  <2> QED
    BY <2>1, <2>2, <2>3
<1>3. ASSUME NEW t \in Services
      PROVE  Same(t)
  BY <1>0 DEF Same, Phase, Alive, Visiting, Serving, Travelling, Sending, Returning, NotEnding
<1> QED
  BY <1>1, <1>2, <1>3 DEF CallInv, CallStep

(* It looks for what it can send.                                          *)
LEMMA SendAllCalls ==
  ASSUME Inv, ~shouldTerminate, SendAllBuffers
  PROVE  CallInv' /\ CallStep
<1> USE ServicesTyped, InvTyped DEF SendAllBuffers, SenderOnly, Sender, sessions, signals,
link, ports, Senders, SenderOK, Cancelled
<1>0. NotEnding /\ \A t \in Services : Visiting(t) /\ Serving(t) /\ Travelling(t)
  BY DEF Inv, CallInv
<1>1. NotEnding'
  BY <1>0 DEF NotEnding
<1>2. ASSUME NEW t \in Services
      PROVE  Visiting(t)' /\ Serving(t)' /\ Travelling(t)'
  <2>1. Visiting(t)'
    BY <1>0 DEF Visiting, Entering
  <2>2. Serving(t)'
    BY <1>0 DEF Serving, Sending, Returning, NotEnding
  <2>3. Travelling(t)'
    BY <1>0 DEF Travelling, Sending, Serving
  <2> QED
    BY <2>1, <2>2, <2>3
<1>3. ASSUME NEW t \in Services
      PROVE  Same(t)
  BY <1>0 DEF Same, Phase, Alive, Visiting, Serving, Travelling, Sending, Returning, NotEnding
<1> QED
  BY <1>1, <1>2, <1>3 DEF CallInv, CallStep

(* It starts to send the command of a session.                             *)
LEMMA SendCalls ==
  ASSUME Inv, ~shouldTerminate, SendToArm9
  PROVE  CallInv' /\ CallStep
<1> USE ServicesTyped, InvTyped DEF SenderOnly, Sender, sessions, signals, link, ports,
       Senders, SenderOK, Cancelled, States
<1>0. NotEnding /\ \A t \in Services : Visiting(t) /\ Serving(t) /\ Travelling(t)
  BY DEF Inv, CallInv
<1>s. PICK s : s = Least(Sendable)
  OBVIOUS
<1>a. s \in Services /\ state[s] = "fromArm11"
  <2>1. Sendable \in SUBSET Services /\ Sendable # {}
    BY DEF SendToArm9, Sendable
  <2>2. s \in Sendable
    BY <1>s, <2>1, LeastService
  <2> QED
    BY <2>2 DEF Sendable
<1>b. /\ state' = [state EXCEPT ![s] = "sent"]
      /\ sender' = [sender EXCEPT !.pc = "acquire", !.at = s]
      /\ sender.pc = "top" /\ sender.replyTarget = None
      /\ UNCHANGED <<buffer, handle, link, ports, signals>> /\ SenderOnly
  BY <1>s DEF SendToArm9, Sender
<1>1. NotEnding'
  BY <1>0, <1>a, <1>b DEF NotEnding
<1>2. ASSUME NEW t \in Services
      PROVE  Visiting(t)' /\ Serving(t)' /\ Travelling(t)'
  <2>1. Visiting(t)'
    BY <1>0, <1>a, <1>b DEF Visiting, Entering
  <2>2. Serving(t)'
    BY <1>0, <1>a, <1>b DEF Serving, Sending, Returning, NotEnding
  <2>3. Travelling(t)'
    BY <1>0, <1>a, <1>b DEF Travelling, Sending, Serving
  <2> QED
    BY <2>1, <2>2, <2>3
<1>3. ASSUME NEW t \in Services
      PROVE  Same(t)
  BY <1>0, <1>a, <1>b DEF Same, Phase, Alive, Visiting, Serving, Travelling, Sending,
     Returning, NotEnding
<1> QED
  BY <1>1, <1>2, <1>3 DEF CallInv, CallStep

(* The words go to the ARM9.                                               *)
LEMMA TransmitCalls ==
  ASSUME Inv, ~shouldTerminate, TransmitCommand
  PROVE  CallInv' /\ CallStep
<1> USE ServicesTyped, InvTyped DEF Cancelled, Sender, SenderOK, SenderOnly, Senders,
       Transmit, link, ports, sessions, signals
<1>0. NotEnding /\ \A t \in Services : Visiting(t) /\ Serving(t) /\ Travelling(t)
  BY DEF Inv, CallInv
<1>s. PICK s : s = sender.at
  OBVIOUS
<1>a. /\ s \in Services /\ s \in All /\ Sending(s) /\ sender.pc = "transmit"
      /\ sender.replyTarget = None
  BY <1>s DEF TransmitCommand, Sender, SenderOK, Sending
<1>b. PICK m \in Commands : m = buffer[s]
  BY <1>s DEF TransmitCommand, Sender, Inv, TypeInv, CommandsStored
<1>c. toArm9[s] = <<>> /\ state[s] = "sent" /\ client[s].at # "none"
  BY <1>0, <1>a DEF Travelling, Serving, Visiting, Sending
<1>d. /\ toArm9' = [toArm9 EXCEPT ![s] = <<m>>]
      /\ sender' = [sender EXCEPT !.pc = "top"]
      /\ UNCHANGED <<state, buffer, handle, ports, fromArm9, signals>> /\ SenderOnly
  BY <1>s, <1>a, <1>b, <1>c DEF TransmitCommand, Transmit, sessions
<1>e. m # "terminate" /\ Len(<<m>>) = 1 /\ <<m>> # <<>> /\ \A i \in DOMAIN <<m>> : <<m>>[i] = m
  BY DEF Commands
<1>1. NotEnding'
  BY <1>0, <1>a, <1>c, <1>d, <1>e DEF NotEnding
<1>2. ASSUME NEW t \in Services
      PROVE  Visiting(t)' /\ Serving(t)' /\ Travelling(t)'
  <2>1. Visiting(t)'
    BY <1>0, <1>a, <1>c, <1>d, <1>e DEF Visiting, Entering
  <2>2. Serving(t)'
    BY <1>0, <1>a, <1>c, <1>d, <1>e DEF Serving, Sending, Returning, NotEnding
  <2>3. Travelling(t)'
    BY <1>0, <1>a, <1>c, <1>d, <1>e DEF Travelling, Sending, Serving
  <2> QED
    BY <2>1, <2>2, <2>3
<1>3. ASSUME NEW t \in Services \ {s}
      PROVE  Same(t)
  BY <1>0, <1>a, <1>c, <1>d, <1>e DEF Same, Phase, Alive, Visiting, Serving, Travelling,
     Sending, Returning, NotEnding
<1>4. CallMoves(s)
  <2>1. Phase(s) = "called"
    BY <1>0, <1>a, <1>c, <1>d, <1>e DEF Phase, Serving, Travelling,
       Sending, Returning
  <2>2. Phase(s)' = "forwarded"
    BY <1>0, <1>a, <1>c, <1>d, <1>e DEF Phase, Serving, Travelling,
       Sending, Returning
  <2>3. Alive(s)' = Alive(s)
    BY <1>0, <1>a, <1>c, <1>d, <1>e DEF Alive
  <2> QED
    BY <1>3, <2>1, <2>2, <2>3 DEF Moves, CallMoves, Alive
<1> QED
  BY <1>1, <1>2, <1>3, <1>4 DEF CallInv, CallStep

(* The answer goes to the client.                                          *)
LEMMA ReplyCalls ==
  ASSUME Inv, ~shouldTerminate, Reply
  PROVE  CallInv' /\ CallStep
<1> USE ServicesTyped, InvTyped DEF SenderOnly, Sender, sessions, signals, link, ports,
       Senders, SenderOK, Cancelled, Reply, Clients
<1>0. NotEnding /\ \A t \in Services : Visiting(t) /\ Serving(t) /\ Travelling(t)
  BY DEF Inv, CallInv
<1>s. PICK s : s = sender.replyTarget
  OBVIOUS
<1>a. s \in Services /\ Returning(s) /\ sender.pc = "reply"
  BY <1>s DEF Reply, Sender, SenderOK, Returning
<1>b. /\ state[s] = "idle" /\ client[s].at = "waiting" /\ toArm9[s] = <<>>
  BY <1>s, <1>0, <1>a DEF Reply, Serving, Travelling, Clients
<1>c. /\ client' = [client EXCEPT ![s] = [at |-> "idle", kind |-> None]]
      /\ sender' = [sender EXCEPT !.pc = "wait"]
      /\ UNCHANGED <<state, buffer, handle, link, connecting, signals>> /\ SenderOnly
  BY <1>s, <1>b DEF Reply, sessions
<1>1. NotEnding'
  BY <1>0, <1>a, <1>b, <1>c DEF NotEnding
<1>2. ASSUME NEW t \in Services
      PROVE  Visiting(t)' /\ Serving(t)' /\ Travelling(t)'
  <2>1. Visiting(t)'
    BY <1>0, <1>a, <1>b, <1>c DEF Visiting, Entering
  <2>2. Serving(t)'
    BY <1>0, <1>a, <1>b, <1>c DEF Serving, Sending, Returning, NotEnding
  <2>3. Travelling(t)'
    BY <1>0, <1>a, <1>b, <1>c DEF Travelling, Sending, Serving
  <2> QED
    BY <2>1, <2>2, <2>3
<1>3. ASSUME NEW t \in Services \ {s}
      PROVE  Same(t)
  BY <1>0, <1>a, <1>b, <1>c DEF Same, Phase, Alive, Visiting, Serving, Travelling, Sending,
     Returning, NotEnding
<1>4. CallMoves(s)
  <2>1. Alive(s)
    BY <1>0, <1>a, <1>b, <1>c DEF Alive
  <2>2. Phase(s) = "answered"
    BY <1>0, <1>a, <1>b, <1>c DEF Phase, Serving, Travelling,
       Sending, Returning
  <2>3. Phase(s)' = "idle"
    BY <1>0, <1>a, <1>b, <1>c DEF Phase, Serving, Travelling,
       Sending, Returning
  <2>4. Alive(s)'
    BY <1>0, <1>a, <1>b, <1>c DEF Alive
  <2> QED
    BY <1>3, <2>1, <2>2, <2>3, <2>4 DEF Moves, CallMoves, Alive
<1> QED
  BY <1>1, <1>2, <1>3, <1>4 DEF CallInv, CallStep

(* The client left before the answer came: its session is closed.          *)
LEMMA ReplyFailedCalls ==
  ASSUME Inv, ~shouldTerminate, ReplyFailed
  PROVE  CallInv' /\ CallStep
<1> USE ServicesTyped, InvTyped DEF Cancelled, NoClient, Sender, SenderOK, SenderOnly,
       Senders, link, ports, sessions, signals
<1>0. NotEnding /\ \A t \in Services : Visiting(t) /\ Serving(t) /\ Travelling(t)
  BY DEF Inv, CallInv
<1>s. PICK s : s = sender.replyTarget
  OBVIOUS
<1>a. s \in Services /\ Returning(s) /\ sender.pc = "reply" /\ client[s].at = "gone"
  BY <1>s DEF ReplyFailed, Sender, SenderOK, Returning
<1>b. /\ state[s] = "idle" /\ toArm9[s] = <<>> /\ handle[s] /\ ~Sending(s)
  BY <1>0, <1>a DEF Serving, Travelling, Sending
<1>c. /\ handle' = [handle EXCEPT ![s] = FALSE]
      /\ client' = [client EXCEPT ![s] = NoClient]
      /\ sender' = [sender EXCEPT !.pc = "top", !.replyTarget = None]
      /\ UNCHANGED <<state, buffer, link, connecting, signals>> /\ SenderOnly
  BY <1>s DEF ReplyFailed, CloseSession
<1>1. NotEnding'
  BY <1>0, <1>a, <1>b, <1>c DEF NotEnding
<1>2. ASSUME NEW t \in Services
      PROVE  Visiting(t)' /\ Serving(t)' /\ Travelling(t)'
  <2>1. Visiting(t)'
    BY <1>0, <1>a, <1>b, <1>c DEF Visiting, Entering
  <2>2. Serving(t)'
    BY <1>0, <1>a, <1>b, <1>c DEF Serving, Sending, Returning, NotEnding
  <2>3. Travelling(t)'
    BY <1>0, <1>a, <1>b, <1>c DEF Travelling, Sending, Serving
  <2> QED
    BY <2>1, <2>2, <2>3
<1>3. ASSUME NEW t \in Services \ {s}
      PROVE  Same(t)
  BY <1>0, <1>a, <1>b, <1>c DEF Same, Phase, Alive, Visiting, Serving, Travelling, Sending,
     Returning, NotEnding
<1>4. CallMoves(s)
  <2>1. ~Alive(s)
    BY <1>0, <1>a, <1>b, <1>c DEF Alive
  <2>2. Phase(s) = "answered"
    BY <1>0, <1>a, <1>b, <1>c DEF Phase, Serving, Travelling,
       Sending, Returning
  <2>3. Phase(s)' = "closed"
    BY <1>0, <1>a, <1>b, <1>c DEF Phase, Serving, Travelling,
       Sending, Returning
  <2>4. ~Alive(s)'
    BY <1>0, <1>a, <1>b, <1>c DEF Alive
  <2> QED
    BY <1>3, <2>1, <2>2, <2>3, <2>4 DEF Moves, CallMoves, Alive
<1> QED
  BY <1>1, <1>2, <1>3, <1>4 DEF CallInv, CallStep

(* The client of an idle session left: it is closed.                       *)
LEMMA SessionClosedCalls ==
  ASSUME Inv, ~shouldTerminate, NEW s \in Services, SessionClosed(s)
  PROVE  CallInv' /\ CallStep
<1> USE ServicesTyped, InvTyped DEF Cancelled, NoClient, Sender, SenderOK, SenderOnly,
       Senders, link, ports, sessions, signals
<1>0. NotEnding /\ \A t \in Services : Visiting(t) /\ Serving(t) /\ Travelling(t)
  BY DEF Inv, CallInv
<1>a. sender.pc = "wait" /\ client[s].at = "gone" /\ s \in sender.watched
  BY DEF SessionClosed, Sender
<1>b. /\ state[s] = "idle" /\ toArm9[s] = <<>> /\ handle[s] /\ ~Sending(s)
  BY <1>0, <1>a DEF Serving, Travelling, Sending
<1>c. /\ handle' = [handle EXCEPT ![s] = FALSE]
      /\ client' = [client EXCEPT ![s] = NoClient]
      /\ sender' = [sender EXCEPT !.pc = "top", !.replyTarget = None]
      /\ UNCHANGED <<state, buffer, link, connecting, signals>> /\ SenderOnly
  BY DEF SessionClosed, CloseSession
<1>1. NotEnding'
  BY <1>0, <1>a, <1>b, <1>c DEF NotEnding
<1>2. ASSUME NEW t \in Services
      PROVE  Visiting(t)' /\ Serving(t)' /\ Travelling(t)'
  <2>1. Visiting(t)'
    BY <1>0, <1>a, <1>b, <1>c DEF Visiting, Entering
  <2>2. Serving(t)'
    BY <1>0, <1>a, <1>b, <1>c DEF Serving, Sending, Returning, NotEnding
  <2>3. Travelling(t)'
    BY <1>0, <1>a, <1>b, <1>c DEF Travelling, Sending, Serving
  <2> QED
    BY <2>1, <2>2, <2>3
<1>3. ASSUME NEW t \in Services \ {s}
      PROVE  Same(t)
  BY <1>0, <1>a, <1>b, <1>c DEF Same, Phase, Alive, Visiting, Serving, Travelling, Sending,
     Returning, NotEnding
<1>4. CallMoves(s)
  <2>1. ~Alive(s)
    BY <1>0, <1>a, <1>b, <1>c DEF Alive
  <2>2. Phase(s) = "idle"
    BY <1>0, <1>a, <1>b, <1>c DEF Phase, Serving, Travelling,
       Sending, Returning
  <2>3. Phase(s)' = "closed"
    BY <1>0, <1>a, <1>b, <1>c DEF Phase, Serving, Travelling,
       Sending, Returning
  <2>4. ~Alive(s)'
    BY <1>0, <1>a, <1>b, <1>c DEF Alive
  <2> QED
    BY <1>3, <2>1, <2>2, <2>3, <2>4 DEF Moves, CallMoves, Alive
<1> QED
  BY <1>1, <1>2, <1>3, <1>4 DEF CallInv, CallStep

(* Nothing happens to a session.                                           *)
LEMMA StutterCalls ==
  ASSUME Inv, ~shouldTerminate, UNCHANGED <<state, handle, link, ports, sender, main, terminationRequestedEvent>>
  PROVE  CallInv' /\ CallStep
<1> USE DEF link, ports
<1>0. NotEnding /\ \A t \in Services : Visiting(t) /\ Serving(t) /\ Travelling(t)
  BY DEF Inv, CallInv
<1>1. NotEnding'
  BY <1>0 DEF NotEnding
<1>2. ASSUME NEW t \in Services
      PROVE  Visiting(t)' /\ Serving(t)' /\ Travelling(t)'
  <2>1. Visiting(t)'
    BY <1>0 DEF Visiting, Entering
  <2>2. Serving(t)'
    BY <1>0 DEF Serving, Sending, Returning
  <2>3. Travelling(t)'
    BY <1>0 DEF Travelling, Sending
  <2> QED
    BY <2>1, <2>2, <2>3
<1>3. ASSUME NEW t \in Services
      PROVE  Same(t)
  BY <1>0 DEF Same, Phase, Alive, Visiting, Serving, Travelling, Sending, Returning, NotEnding
<1> QED
  BY <1>1, <1>2, <1>3 DEF CallInv, CallStep

(* The sender takes an answer.                                             *)
LEMMA AnswerTaken ==
  ASSUME Inv, ~shouldTerminate, NEW s \in Services, state[s] = "fromArm9", sender.pc = "wait",
         state' = [state EXCEPT ![s] = "idle"],
         sender' = [sender EXCEPT !.pc = "top", !.replyTarget = s],
         UNCHANGED <<handle, link, ports, main, terminationRequestedEvent>>
  PROVE  CallInv' /\ CallStep
<1> USE ServicesTyped, InvTyped DEF Senders, States, link, ports
<1>0. NotEnding /\ \A t \in Services : Visiting(t) /\ Serving(t) /\ Travelling(t)
  BY DEF Inv, CallInv
<1>a. handle[s] /\ client[s].at \in {"waiting", "gone"} /\ toArm9[s] = <<>> /\ ~Sending(s)
  BY <1>0 DEF Serving, Travelling, Sending
<1>1. NotEnding'
  BY <1>0, <1>a DEF NotEnding
<1>2. ASSUME NEW t \in Services
      PROVE  Visiting(t)' /\ Serving(t)' /\ Travelling(t)'
  <2>1. Visiting(t)'
    BY <1>0, <1>a DEF Visiting, Entering
  <2>2. Serving(t)'
    BY <1>0, <1>a DEF Serving, Sending, Returning, NotEnding
  <2>3. Travelling(t)'
    BY <1>0, <1>a DEF Travelling, Sending, Serving
  <2> QED
    BY <2>1, <2>2, <2>3
<1>3. ASSUME NEW t \in Services
      PROVE  Same(t)
  BY <1>0, <1>a DEF Same, Phase, Alive, Visiting, Serving, Travelling, Sending, Returning,
     NotEnding
<1> QED
  BY <1>1, <1>2, <1>3 DEF CallInv, CallStep

(* An answer is taken, or none is there.                                   *)
LEMMA AnswerCalls ==
  ASSUME Inv, ~shouldTerminate, Arm9Reply
  PROVE  CallInv' /\ CallStep
<1>1. /\ UNCHANGED <<handle, link, ports, main, terminationRequestedEvent>>
      /\ sender.pc = "wait"
  BY DEF Arm9Reply, Sender, SenderOnly
<1>2. CASE UNCHANGED <<state, sender>>
  BY <1>1, <1>2, StutterCalls
<1>3. CASE ~UNCHANGED <<state, sender>>
  <2>s. PICK s : s = Least(Answered)
    OBVIOUS
  <2>1. /\ Answered # {} /\ state' = [state EXCEPT ![s] = "idle"]
        /\ sender' = [sender EXCEPT !.pc = "top",
                        !.replyTarget = IF handle[s] THEN s ELSE None]
    BY <1>3, <2>s DEF Arm9Reply
  <2>2. s \in Answered
    <3>1. Answered \in SUBSET Services
      BY DEF Answered
    <3> QED
      BY <2>s, <2>1, <3>1, LeastService
  <2>3. s \in Services /\ state[s] = "fromArm9"
    BY <2>2 DEF Answered
  <2>4. handle[s]
    BY <2>3 DEF Inv, CallInv, Serving
  <2> QED
    BY <1>1, <2>1, <2>3, <2>4, AnswerTaken
<1> QED
  BY <1>2, <1>3

(* The command of a client is taken.                                       *)
LEMMA CommandTaken ==
  ASSUME Inv, ~shouldTerminate, NEW s \in Services, sender.pc = "wait", s \in sender.watched,
         client[s].at = "waiting",
         state' = [state EXCEPT ![s] = "fromArm11"],
         sender' = [sender EXCEPT !.pc = "top", !.replyTarget = None],
         UNCHANGED <<handle, link, ports, main, terminationRequestedEvent>>
  PROVE  CallInv' /\ CallStep
<1> USE ServicesTyped, InvTyped DEF Senders, States, link, ports
<1>0. NotEnding /\ \A t \in Services : Visiting(t) /\ Serving(t) /\ Travelling(t)
  BY DEF Inv, CallInv
<1>a. state[s] = "idle" /\ handle[s] /\ toArm9[s] = <<>> /\ ~Sending(s)
  BY <1>0 DEF Serving, Travelling, Sending
<1>1. NotEnding'
  BY <1>0, <1>a DEF NotEnding
<1>2. ASSUME NEW t \in Services
      PROVE  Visiting(t)' /\ Serving(t)' /\ Travelling(t)'
  <2>1. Visiting(t)'
    BY <1>0, <1>a DEF Visiting, Entering
  <2>2. Serving(t)'
    BY <1>0, <1>a DEF Serving, Sending, Returning, NotEnding
  <2>3. Travelling(t)'
    BY <1>0, <1>a DEF Travelling, Sending, Serving
  <2> QED
    BY <2>1, <2>2, <2>3
<1>3. ASSUME NEW t \in Services
      PROVE  Same(t)
  BY <1>0, <1>a DEF Same, Phase, Alive, Visiting, Serving, Travelling, Sending, Returning,
     NotEnding
<1> QED
  BY <1>1, <1>2, <1>3 DEF CallInv, CallStep

(* A command is taken, or the assertion on it fails.                       *)
LEMMA CommandCalls ==
  ASSUME Inv, ~shouldTerminate, NEW s \in Services, CommandReceived(s)
  PROVE  CallInv' /\ CallStep
<1>1. /\ UNCHANGED <<handle, link, ports, main, terminationRequestedEvent>>
      /\ sender.pc = "wait" /\ client[s].at = "waiting" /\ s \in sender.watched
  BY DEF CommandReceived, Sender, SenderOnly
<1>2. CASE UNCHANGED <<state, sender>>
  BY <1>1, <1>2, StutterCalls
<1>3. CASE ~UNCHANGED <<state, sender>>
  BY <1>1, <1>3, CommandTaken DEF CommandReceived
<1> QED
  BY <1>2, <1>3

(* main accepts a session.                                                 *)
LEMMA AcceptCalls ==
  ASSUME Inv, ~shouldTerminate, NEW s \in Services, AcceptSession(s)
  PROVE  CallInv' /\ CallStep
<1> USE ServicesTyped, InvTyped DEF AcceptSession, MainOnly, Main, sessions, signals, link,
ports, Mains
<1>0. NotEnding /\ \A t \in Services : Visiting(t) /\ Serving(t) /\ Travelling(t)
  BY DEF Inv, CallInv
<1>1. NotEnding'
  BY <1>0 DEF NotEnding
<1>2. ASSUME NEW t \in Services
      PROVE  Visiting(t)' /\ Serving(t)' /\ Travelling(t)'
  <2>1. Visiting(t)'
    BY <1>0 DEF Visiting, Entering
  <2>2. Serving(t)'
    BY <1>0 DEF Serving, Sending, Returning, NotEnding
  <2>3. Travelling(t)'
    BY <1>0 DEF Travelling, Sending, Serving
  <2> QED
    BY <2>1, <2>2, <2>3
<1>3. ASSUME NEW t \in Services
      PROVE  Same(t)
  BY <1>0 DEF Same, Phase, Alive, Visiting, Serving, Travelling, Sending, Returning, NotEnding
<1> QED
  BY <1>1, <1>2, <1>3 DEF CallInv, CallStep

(* main enters it.                                                         *)
LEMMA EnterCalls ==
  ASSUME Inv, ~shouldTerminate, EnterSession
  PROVE  CallInv' /\ CallStep
<1> USE ServicesTyped, InvTyped DEF EnterSession, MainOnly, Main, sessions, signals, link,
ports, Mains
<1>0. NotEnding /\ \A t \in Services : Visiting(t) /\ Serving(t) /\ Travelling(t)
  BY DEF Inv, CallInv
<1>a. main.at \in Services
  BY DEF EnterSession, Main, Inv, TypeInv, MainOK
<1>1. NotEnding'
  BY <1>0, <1>a DEF NotEnding
<1>2. ASSUME NEW t \in Services
      PROVE  Visiting(t)' /\ Serving(t)' /\ Travelling(t)'
  <2>1. Visiting(t)'
    BY <1>0, <1>a DEF Visiting, Entering
  <2>2. Serving(t)'
    BY <1>0, <1>a DEF Serving, Sending, Returning, NotEnding
  <2>3. Travelling(t)'
    BY <1>0, <1>a DEF Travelling, Sending, Serving
  <2> QED
    BY <2>1, <2>2, <2>3
<1>3. ASSUME NEW t \in Services
      PROVE  Same(t)
  BY <1>0, <1>a DEF Same, Phase, Alive, Visiting, Serving, Travelling, Sending, Returning,
     NotEnding
<1> QED
  BY <1>1, <1>2, <1>3 DEF CallInv, CallStep

(* Nothing else is done by the sender or by main before the end.           *)
LEMMA NoEndYet ==
  ASSUME Inv, ~shouldTerminate,
         \/ TerminationRequested \/ OverwriteState \/ AcquireLast \/ TransmitLast \/ JoinThreads
  PROVE  FALSE
  BY DEF Inv, CallInv, NotEnding, TerminationRequested, OverwriteState, AcquireLast,
     TransmitLast,
         JoinThreads, Main

(* The receiver takes an answer from the FIFO.                             *)
LEMMA AnswerReceived ==
  ASSUME Inv, ~shouldTerminate, NEW m \in [to : All, message : Messages], fromArm9 # <<>>, m = Head(fromArm9),
         state[m.to] = "sent", ~Sending(m.to),
         state' = [state EXCEPT ![m.to] = "fromArm9"],
         fromArm9' = Tail(fromArm9),
         UNCHANGED <<handle, toArm9, ports, main, sender, terminationRequestedEvent>>
  PROVE  CallInv' /\ CallStep
<1> USE ServicesTyped, InvTyped DEF Senders, States, ports
<1>0. NotEnding /\ \A t \in Services : Visiting(t) /\ Serving(t) /\ Travelling(t)
  BY DEF Inv, CallInv
<1>b. 1 \in DOMAIN fromArm9 /\ fromArm9[1].to = m.to
  BY HeadTail
<1>c. \A i \in DOMAIN Tail(fromArm9) :
        i \in Nat /\ i + 1 # 1 /\ i + 1 \in DOMAIN fromArm9 /\ Tail(fromArm9)[i] = fromArm9[i + 1]
  BY HeadTail
<1>d. m.to \in Services => toArm9[m.to] = <<>>
  BY <1>0, <1>b DEF Travelling
<1>1. NotEnding'
  BY <1>0, <1>b, <1>c, <1>d DEF NotEnding
<1>2. ASSUME NEW t \in Services
      PROVE  Visiting(t)' /\ Serving(t)' /\ Travelling(t)'
  <2>1. Visiting(t)'
    BY <1>0, <1>b, <1>c, <1>d DEF Visiting, Entering
  <2>2. Serving(t)'
    BY <1>0, <1>b, <1>c, <1>d DEF Serving, Sending, Returning, NotEnding
  <2>3. Travelling(t)'
    BY <1>0, <1>b, <1>c, <1>d DEF Travelling, Sending, Serving
  <2> QED
    BY <2>1, <2>2, <2>3
<1>3. ASSUME NEW t \in Services
      PROVE  Same(t)
  BY <1>0, <1>b, <1>c, <1>d DEF Same, Phase, Alive, Visiting, Serving, Travelling, Sending,
     Returning, NotEnding
<1> QED
  BY <1>1, <1>2, <1>3 DEF CallInv, CallStep

(* An answer is received, or the assertion on its session fails.           *)
LEMMA ReceiveCalls ==
  ASSUME Inv, ~shouldTerminate, ReceiveFromArm9
  PROVE  CallInv' /\ CallStep
<1>1. UNCHANGED <<handle, toArm9, ports, main, sender, terminationRequestedEvent>>
  BY DEF ReceiveFromArm9, ReceiverOnly
<1>2. CASE UNCHANGED <<state, fromArm9>>
  <2>1. PXISyncInterrupt' = PXISyncInterrupt
    BY DEF ReceiveFromArm9
  <2> QED
    BY <1>1, <1>2, <2>1, StutterCalls DEF link
<1>3. CASE ~UNCHANGED <<state, fromArm9>>
  <2>1. fromArm9 # <<>>
    BY DEF ReceiveFromArm9
  <2>2. PICK m \in [to : All, message : Messages] : m = Head(fromArm9)
    BY <2>1, InvTyped, HeadTail
  <2>3. /\ state[m.to] = "sent" /\ ~Sending(m.to)
        /\ state' = [state EXCEPT ![m.to] = "fromArm9"] /\ fromArm9' = Tail(fromArm9)
    BY <1>3, <2>2 DEF ReceiveFromArm9, Locked, Sending
  <2> QED
    BY <1>1, <2>1, <2>2, <2>3, AnswerReceived
<1> QED
  BY <1>2, <1>3

(* The receiver tells the others, or waits.                                *)
LEMMA TellCalls ==
  ASSUME Inv, ~shouldTerminate, ReceiverStep, ~ReceiveFromArm9
  PROVE  CallInv' /\ CallStep
<1> USE ServicesTyped, InvTyped DEF ReceiverOnly, Receiver, sessions, signals, link, ports,
srv11Events
<1>0. NotEnding /\ \A t \in Services : Visiting(t) /\ Serving(t) /\ Travelling(t)
  BY DEF Inv, CallInv
<1>a. UNCHANGED <<terminationRequestedEvent, main, sender, toArm9, fromArm9, state, handle, ports>>
  BY DEF ReceiverStep, ReceiverStarts, WaitForArm9, FIFOEmpty, TellThreads, TellSender,
     TellHandler, WaitReplySent, ReceiverOnly
<1>1. NotEnding'
  BY <1>0, <1>a DEF NotEnding
<1>2. ASSUME NEW t \in Services
      PROVE  Visiting(t)' /\ Serving(t)' /\ Travelling(t)'
  <2>1. Visiting(t)'
    BY <1>0, <1>a DEF Visiting, Entering
  <2>2. Serving(t)'
    BY <1>0, <1>a DEF Serving, Sending, Returning, NotEnding
  <2>3. Travelling(t)'
    BY <1>0, <1>a DEF Travelling, Sending, Serving
  <2> QED
    BY <2>1, <2>2, <2>3
<1>3. ASSUME NEW t \in Services
      PROVE  Same(t)
  BY <1>0, <1>a DEF Same, Phase, Alive, Visiting, Serving, Travelling, Sending, Returning,
     NotEnding
<1> QED
  BY <1>1, <1>2, <1>3 DEF CallInv, CallStep

(* The handler of PXISRV11 has its own session.                            *)
LEMMA HandlerCalls ==
  ASSUME Inv, ~shouldTerminate, HandlerStep
  PROVE  CallInv' /\ CallStep
<1> USE ServicesTyped, InvTyped DEF ports
<1>0. NotEnding /\ \A t \in Services : Visiting(t) /\ Serving(t) /\ Travelling(t)
  BY DEF Inv, CallInv
<1>a. UNCHANGED <<terminationRequestedEvent, main, sender, fromArm9, handle, ports>>
  BY DEF HandlerStep, HandlerStarts, HandleSrv11Command, HandlerAcquire, HandlerTransmit,
     HandlerEnds, HandlerOnly, Transmit
<1>b. \A s \in Services : state'[s] = state[s] /\ toArm9'[s] = toArm9[s]
  BY DEF HandlerStep, HandlerStarts, HandleSrv11Command, HandlerAcquire, HandlerTransmit,
     HandlerEnds, HandlerOnly, Transmit
<1>c. toArm9' = toArm9 \/ toArm9' = [toArm9 EXCEPT ![Srv11] = Append(@, "ready")]
  BY DEF HandlerStep, HandlerStarts, HandleSrv11Command, HandlerAcquire, HandlerTransmit,
     HandlerEnds, HandlerOnly, Transmit
<1>d. \A i \in DOMAIN Append(toArm9[Srv11], "ready") :
        \/ i \in DOMAIN toArm9[Srv11] /\ Append(toArm9[Srv11], "ready")[i] = toArm9[Srv11][i]
        \/ Append(toArm9[Srv11], "ready")[i] = "ready"
  <2>1. toArm9[Srv11] \in Seq(Messages)
    OBVIOUS
  <2> QED
    BY <2>1
<1>e. \A s \in All : \A i \in DOMAIN toArm9'[s] : toArm9'[s][i] # "terminate"
  BY <1>0, <1>c, <1>d DEF NotEnding
<1>1. NotEnding'
  BY <1>0, <1>a, <1>e DEF NotEnding
<1>2. ASSUME NEW t \in Services
      PROVE  Visiting(t)' /\ Serving(t)' /\ Travelling(t)'
  <2>1. Visiting(t)'
    BY <1>0, <1>a, <1>b DEF Visiting, Entering
  <2>2. Serving(t)'
    BY <1>0, <1>a, <1>b DEF Serving, Sending, Returning, NotEnding
  <2>3. Travelling(t)'
    BY <1>0, <1>a, <1>b DEF Travelling, Sending, Serving
  <2> QED
    BY <2>1, <2>2, <2>3
<1>3. ASSUME NEW t \in Services
      PROVE  Same(t)
  BY <1>0, <1>a, <1>b DEF Same, Phase, Alive, Visiting, Serving, Travelling, Sending,
     Returning, NotEnding
<1> QED
  BY <1>1, <1>2, <1>3 DEF CallInv, CallStep

(* The ARM9 sends something it was sent, whose words are over.             *)
LEMMA SendsOne ==
  ASSUME Inv, ~shouldTerminate, NEW s \in All, Arm9Sends(s)
  PROVE  /\ toArm9[s] # <<>> /\ toArm9' = [toArm9 EXCEPT ![s] = Tail(@)]
         /\ \E m \in Messages : fromArm9' = Append(fromArm9, [to |-> s, message |-> m])
         /\ UNCHANGED <<sessions, ports, sender, main, terminationRequestedEvent>>
<1> USE ServicesTyped, InvTyped
<1>1. toArm9[s] # <<>> /\ toArm9[s] \in Seq(Messages)
  BY DEF Arm9Sends
<1>2. Head(toArm9[s]) \in Messages /\ Head(toArm9[s]) # "terminate"
  BY <1>1, HeadTail DEF Inv, CallInv, NotEnding
<1>3. toArm9' = [t \in All |-> IF t = s THEN Tail(toArm9[t]) ELSE toArm9[t]]
  BY <1>2 DEF Arm9Sends, Last
<1> QED
  BY <1>1, <1>2, <1>3 DEF Arm9Sends, Environment, ending

(* The ARM9 sends a command on PXISRV11.                                   *)
LEMMA Srv11Sends ==
  ASSUME Inv, ~shouldTerminate, NEW s \in All \ Services, Arm9Sends(s)
  PROVE  CallInv' /\ CallStep
<1> USE ServicesTyped, InvTyped DEF ports, sessions
<1>0. NotEnding /\ \A t \in Services : Visiting(t) /\ Serving(t) /\ Travelling(t)
  BY DEF Inv, CallInv
<1>a. /\ toArm9[s] # <<>> /\ toArm9' = [toArm9 EXCEPT ![s] = Tail(@)]
      /\ UNCHANGED <<sessions, ports, sender, main, terminationRequestedEvent>>
  BY SendsOne
<1>b. PICK m \in Messages : fromArm9' = Append(fromArm9, [to |-> s, message |-> m])
  BY SendsOne
<1>c. \A i \in DOMAIN fromArm9' :
        \/ i \in DOMAIN fromArm9 /\ fromArm9'[i] = fromArm9[i]
        \/ i = Len(fromArm9) + 1 /\ fromArm9'[i].to = s
  BY <1>b
<1>d. toArm9[s] \in Seq(Messages) /\ Tail(toArm9[s]) \in Seq(Messages)
  BY <1>a
<1>e. \A t \in All : \A i \in DOMAIN toArm9'[t] : toArm9'[t][i] # "terminate"
  <2>1. \A i \in DOMAIN Tail(toArm9[s]) : i + 1 \in DOMAIN toArm9[s] /\ Tail(toArm9[s])[i] = toArm9[s][i + 1]
    BY <1>a, <1>d, HeadTail
  <2> QED
    BY <1>0, <1>a, <2>1 DEF NotEnding
<1>f. /\ \A t \in Services : toArm9'[t] = toArm9[t]
      /\ \A t \in Services : \A i \in DOMAIN fromArm9' :
           fromArm9'[i].to = t => i \in DOMAIN fromArm9 /\ fromArm9[i].to = t
  BY <1>a, <1>c
<1>1. NotEnding'
  BY <1>0, <1>a, <1>e DEF NotEnding
<1>2. ASSUME NEW t \in Services
      PROVE  Visiting(t)' /\ Serving(t)' /\ Travelling(t)'
  <2>1. Visiting(t)'
    BY <1>0, <1>a, <1>c DEF Visiting, Entering
  <2>2. Serving(t)'
    BY <1>0, <1>a, <1>c DEF Serving, Sending, Returning, NotEnding
  <2>3. Travelling(t)'
    <3>1. UNCHANGED <<state, sender>>
      BY <1>a DEF sessions
    <3> QED
      BY <1>0, <1>f, <3>1 DEF Travelling, Sending
  <2> QED
    BY <2>1, <2>2, <2>3
<1>3. ASSUME NEW t \in Services
      PROVE  Same(t)
  BY <1>0, <1>a, <1>c DEF Same, Phase, Alive, Visiting, Serving, Travelling, Sending,
     Returning, NotEnding
<1> QED
  BY <1>1, <1>2, <1>3 DEF CallInv, CallStep

(* The ARM9 answers.                                                       *)
LEMMA Arm9Answers ==
  ASSUME Inv, ~shouldTerminate, NEW s \in Services, Arm9Sends(s)
  PROVE  CallInv' /\ CallStep
<1> USE ServicesTyped, InvTyped DEF ports, sessions
<1>0. NotEnding /\ \A t \in Services : Visiting(t) /\ Serving(t) /\ Travelling(t)
  BY DEF Inv, CallInv
<1>a. /\ toArm9[s] # <<>> /\ toArm9' = [toArm9 EXCEPT ![s] = Tail(@)]
      /\ UNCHANGED <<sessions, ports, sender, main, terminationRequestedEvent>>
  BY SendsOne
<1>b. PICK m \in Messages : fromArm9' = Append(fromArm9, [to |-> s, message |-> m])
  BY SendsOne
<1>c. \A i \in DOMAIN fromArm9' :
        \/ i \in DOMAIN fromArm9 /\ fromArm9'[i] = fromArm9[i]
        \/ i = Len(fromArm9) + 1 /\ fromArm9'[i].to = s
  BY <1>b
<1>d. toArm9[s] \in Seq(Messages) /\ Tail(toArm9[s]) \in Seq(Messages)
  BY <1>a
<1>e. \A t \in All : \A i \in DOMAIN toArm9'[t] : toArm9'[t][i] # "terminate"
  <2>1. \A i \in DOMAIN Tail(toArm9[s]) : i + 1 \in DOMAIN toArm9[s] /\ Tail(toArm9[s])[i] = toArm9[s][i + 1]
    BY <1>a, <1>d, HeadTail
  <2> QED
    BY <1>0, <1>a, <2>1 DEF NotEnding
<1>f. Tail(toArm9[s]) = <<>> /\ state[s] = "sent" /\ ~Sending(s) /\ client[s].at # "none" /\ s \in All
  <2>1. Len(toArm9[s]) = 1 /\ state[s] = "sent" /\ ~Sending(s)
    BY <1>0, <1>a DEF Travelling
  <2>2. client[s].at # "none"
    BY <1>0, <2>1 DEF Serving
  <2>3. Tail(toArm9[s]) = <<>>
    BY <1>a, <1>d, <2>1, HeadTail
  <2> QED
    BY <2>1, <2>2, <2>3
<1>g. \A i \in DOMAIN fromArm9 : i # Len(fromArm9) + 1 /\ fromArm9[i].to # s
  BY <1>0, <1>a DEF Travelling
<1>1. NotEnding'
  BY <1>0, <1>a, <1>e DEF NotEnding
<1>2. ASSUME NEW t \in Services
      PROVE  Visiting(t)' /\ Serving(t)' /\ Travelling(t)'
  <2>1. Visiting(t)'
    BY <1>0, <1>a, <1>c, <1>f, <1>g DEF Visiting, Entering
  <2>2. Serving(t)'
    BY <1>0, <1>a, <1>c, <1>f, <1>g DEF Serving, Sending, Returning, NotEnding
  <2>3. Travelling(t)'
    BY <1>0, <1>a, <1>c, <1>f, <1>g DEF Travelling, Sending, Serving
  <2> QED
    BY <2>1, <2>2, <2>3
<1>3. ASSUME NEW t \in Services \ {s}
      PROVE  Same(t)
  BY <1>0, <1>a, <1>c, <1>f, <1>g DEF Same, Phase, Alive, Visiting, Serving, Travelling,
     Sending, Returning, NotEnding
<1>4. CallMoves(s)
  <2>1. Phase(s) = "forwarded"
    BY <1>0, <1>a, <1>c, <1>f, <1>g DEF Phase, Serving, Travelling,
       Sending, Returning
  <2>2. Phase(s)' = "answered"
    BY <1>0, <1>a, <1>c, <1>f, <1>g DEF Phase, Serving, Travelling,
       Sending, Returning
  <2>3. Alive(s)' = Alive(s)
    BY <1>0, <1>a, <1>c, <1>f, <1>g DEF Alive
  <2> QED
    BY <1>3, <2>1, <2>2, <2>3 DEF Moves, CallMoves, Alive
<1> QED
  BY <1>1, <1>2, <1>3, <1>4 DEF CallInv, CallStep

(* A client connects.                                                      *)
LEMMA ConnectCalls ==
  ASSUME Inv, ~shouldTerminate, NEW s \in Services, Connect(s)
  PROVE  CallInv' /\ CallStep
<1> USE ServicesTyped, InvTyped DEF link, sessions
<1>0. NotEnding /\ \A t \in Services : Visiting(t) /\ Serving(t) /\ Travelling(t)
  BY DEF Inv, CallInv
<1>a. UNCHANGED <<sessions, link, sender, main, terminationRequestedEvent>>
  BY DEF Environment, ending, Connect, SendCommand, Leave
<1>b. /\ client[s].at = "none" /\ ~connecting[s]
      /\ connecting' = [connecting EXCEPT ![s] = TRUE] /\ client' = [client EXCEPT ![s].at = "idle"]
  BY DEF Connect
<1>c. /\ state[s] = "idle" /\ ~Returning(s) /\ ~handle[s] /\ ~Entering(s)
      /\ toArm9[s] = <<>> /\ ~Sending(s)
  BY <1>0, <1>b DEF Serving, Visiting, Travelling
<1>d. client[s] \in Clients
  OBVIOUS
<1>1. NotEnding'
  BY <1>0, <1>a, <1>b, <1>c DEF NotEnding
<1>2. ASSUME NEW t \in Services
      PROVE  Visiting(t)' /\ Serving(t)' /\ Travelling(t)'
  <2>1. Visiting(t)'
    BY <1>0, <1>a, <1>b, <1>c DEF Visiting, Entering
  <2>2. Serving(t)'
    BY <1>0, <1>a, <1>b, <1>c DEF Serving, Sending, Returning, NotEnding
  <2>3. Travelling(t)'
    BY <1>0, <1>a, <1>b, <1>c DEF Travelling, Sending, Serving
  <2> QED
    BY <2>1, <2>2, <2>3
<1>3. ASSUME NEW t \in Services \ {s}
      PROVE  Same(t)
  BY <1>0, <1>a, <1>b, <1>c DEF Same, Phase, Alive, Visiting, Serving, Travelling, Sending,
     Returning, NotEnding
<1>4. CallMoves(s)
  <2>1. Phase(s) = "closed"
    BY <1>0, <1>a, <1>b, <1>c DEF Phase, Serving, Travelling,
       Sending, Returning
  <2>2. Phase(s)' = "idle"
    BY <1>0, <1>a, <1>b, <1>c DEF Phase, Serving, Travelling,
       Sending, Returning
  <2>3. Alive(s)'
    BY <1>0, <1>a, <1>b, <1>c DEF Alive
  <2> QED
    BY <1>3, <2>1, <2>2, <2>3 DEF Moves, CallMoves, Alive
<1> QED
  BY <1>1, <1>2, <1>3, <1>4 DEF CallInv, CallStep

(* A client sends a command.                                               *)
LEMMA SendCommandCalls ==
  ASSUME Inv, ~shouldTerminate, NEW s \in Services, SendCommand(s)
  PROVE  CallInv' /\ CallStep
<1> USE ServicesTyped, InvTyped DEF Clients, link, sessions
<1>0. NotEnding /\ \A t \in Services : Visiting(t) /\ Serving(t) /\ Travelling(t)
  BY DEF Inv, CallInv
<1>a. UNCHANGED <<sessions, link, sender, main, terminationRequestedEvent>>
  BY DEF Environment, ending, Connect, SendCommand, Leave
<1>b. PICK kind : /\ client[s].at = "idle" /\ UNCHANGED connecting
                  /\ client' = [client EXCEPT ![s].at = "waiting", ![s].kind = kind]
  BY DEF SendCommand
<1>c. state[s] = "idle" /\ ~Returning(s) /\ toArm9[s] = <<>> /\ ~Sending(s)
  BY <1>0, <1>b DEF Serving, Travelling
<1>1. NotEnding'
  BY <1>0, <1>a, <1>b, <1>c DEF NotEnding
<1>2. ASSUME NEW t \in Services
      PROVE  Visiting(t)' /\ Serving(t)' /\ Travelling(t)'
  <2>1. Visiting(t)'
    BY <1>0, <1>a, <1>b, <1>c DEF Visiting, Entering
  <2>2. Serving(t)'
    BY <1>0, <1>a, <1>b, <1>c DEF Serving, Sending, Returning, NotEnding
  <2>3. Travelling(t)'
    BY <1>0, <1>a, <1>b, <1>c DEF Travelling, Sending, Serving
  <2> QED
    BY <2>1, <2>2, <2>3
<1>3. ASSUME NEW t \in Services \ {s}
      PROVE  Same(t)
  BY <1>0, <1>a, <1>b, <1>c DEF Same, Phase, Alive, Visiting, Serving, Travelling, Sending,
     Returning, NotEnding
<1>4. CallMoves(s)
  <2>1. Alive(s)
    BY <1>0, <1>a, <1>b, <1>c DEF Alive
  <2>2. Phase(s) = "idle"
    BY <1>0, <1>a, <1>b, <1>c DEF Phase, Serving, Travelling,
       Sending, Returning
  <2>3. Phase(s)' = "called"
    BY <1>0, <1>a, <1>b, <1>c DEF Phase, Serving, Travelling,
       Sending, Returning
  <2>4. Alive(s)'
    BY <1>0, <1>a, <1>b, <1>c DEF Alive
  <2> QED
    BY <1>3, <2>1, <2>2, <2>3, <2>4 DEF Moves, CallMoves, Alive
<1> QED
  BY <1>1, <1>2, <1>3, <1>4 DEF CallInv, CallStep

(* A client closes its session.                                            *)
LEMMA LeaveCalls ==
  ASSUME Inv, ~shouldTerminate, NEW s \in Services, Leave(s)
  PROVE  CallInv' /\ CallStep
<1> USE ServicesTyped, InvTyped DEF link, sessions, Clients
<1>0. NotEnding /\ \A t \in Services : Visiting(t) /\ Serving(t) /\ Travelling(t)
  BY DEF Inv, CallInv
<1>a. UNCHANGED <<sessions, link, sender, main, terminationRequestedEvent>>
  BY DEF Environment, ending, Connect, SendCommand, Leave
<1>b. /\ client[s].at \in {"idle", "waiting"} /\ UNCHANGED connecting
      /\ client' = [client EXCEPT ![s].at = "gone", ![s].kind = None]
  BY DEF Leave
<1>1. NotEnding'
  BY <1>0, <1>a, <1>b DEF NotEnding
<1>2. ASSUME NEW t \in Services
      PROVE  Visiting(t)' /\ Serving(t)' /\ Travelling(t)'
  <2>1. Visiting(t)'
    BY <1>0, <1>a, <1>b DEF Visiting, Entering
  <2>2. Serving(t)'
    BY <1>0, <1>a, <1>b DEF Serving, Sending, Returning, NotEnding
  <2>3. Travelling(t)'
    BY <1>0, <1>a, <1>b DEF Travelling, Sending, Serving
  <2> QED
    BY <2>1, <2>2, <2>3
<1>3. ASSUME NEW t \in Services \ {s}
      PROVE  Same(t)
  BY <1>0, <1>a, <1>b DEF Same, Phase, Alive, Visiting, Serving, Travelling, Sending,
     Returning, NotEnding
<1>4. CallMoves(s)
  <2>1. Alive(s)
    BY <1>0, <1>a, <1>b DEF Phase, Alive, Visiting, Serving, Travelling, Sending, Returning,
       Entering, NotEnding
  <2>2. ~Alive(s)'
    BY <1>0, <1>a, <1>b DEF Phase, Alive, Visiting, Serving, Travelling, Sending, Returning,
       Entering, NotEnding
  <2>3. \/ Phase(s) = "called" /\ Phase(s)' = "idle"
        \/ Phase(s) = "idle" /\ Phase(s)' = "idle"
        \/ Phase(s) = "called" /\ Phase(s)' = "called"
        \/ Phase(s) = "forwarded" /\ Phase(s)' = "forwarded"
        \/ Phase(s) = "answered" /\ Phase(s)' = "answered"
    BY <1>0, <1>a, <1>b DEF Phase, Alive, Visiting, Serving, Travelling, Sending, Returning,
       Entering, NotEnding
  <2> QED
    BY <1>3, <2>1, <2>2, <2>3 DEF Moves, CallMoves, Alive
<1> QED
  BY <1>1, <1>2, <1>3, <1>4 DEF CallInv, CallStep

(* Every step before the end preserves the invariant and is one of         *)
(* PxiCalls, or none.                                                      *)
LEMMA CallsNext ==
  ASSUME Inv, ~shouldTerminate, ~shouldTerminate', [Next]_vars
  PROVE  CallInv' /\ CallStep
<1>1. CASE UNCHANGED vars
  BY <1>1, StutterCalls DEF vars, sessions, ending
<1>2. CASE SenderStep
  BY <1>2, ListenCalls, AcquireCalls, SendAllCalls, SendCalls, TransmitCalls, ReplyCalls,
     ReplyFailedCalls, SessionClosedCalls, AnswerCalls, CommandCalls, NoEndYet DEF SenderStep
<1>3. CASE MainStep
  BY <1>3, AcceptCalls, EnterCalls, NoEndYet DEF MainStep, Terminate
<1>4. CASE ReceiverStep
  BY <1>4, ReceiveCalls, TellCalls
<1>5. CASE HandlerStep
  BY <1>5, HandlerCalls
<1>6. ASSUME NEW s \in All, Arm9Sends(s)
      PROVE  CallInv' /\ CallStep
  BY <1>6, Srv11Sends, Arm9Answers
<1>7. ASSUME NEW s \in Services, Connect(s) \/ SendCommand(s) \/ Leave(s)
      PROVE  CallInv' /\ CallStep
  BY <1>7, ConnectCalls, SendCommandCalls, LeaveCalls
<1> QED
  BY <1>1, <1>2, <1>3, <1>4, <1>5, <1>6, <1>7 DEF Next

(* Once told to terminate, pxi stays so.                                   *)
LEMMA StaysTold ==
  ASSUME shouldTerminate, [Next]_vars
  PROVE  shouldTerminate'
<1>1. CASE UNCHANGED vars
  BY <1>1 DEF vars, ending
<1>2. CASE SenderStep
  BY <1>2 DEF SenderStep, SendToArm9, AcquireTransfer, TransmitCommand, Listen, Reply,
     ReplyFailed,
         SessionClosed, CommandReceived, TerminationRequested, SendAllBuffers, Arm9Reply,
         CloseSession, SenderOnly
<1>3. CASE MainStep
  BY <1>3 DEF MainStep, Terminate, AcceptSession, EnterSession, OverwriteState, AcquireLast,
         TransmitLast, JoinThreads
<1>4. CASE ReceiverStep
  BY <1>4 DEF ReceiverStep, ReceiverStarts, WaitForArm9, FIFOEmpty, ReceiveFromArm9,
     TellThreads,
         TellSender, TellHandler, WaitReplySent, ReceiverOnly
<1>5. CASE HandlerStep
  BY <1>5 DEF HandlerStep, HandlerStarts, HandleSrv11Command, HandlerAcquire, HandlerTransmit,
         HandlerEnds, HandlerOnly
<1>6. ASSUME NEW s \in All, Arm9Sends(s)
      PROVE  shouldTerminate'
  BY <1>6 DEF Arm9Sends, Environment, ending
<1>7. ASSUME NEW s \in Services, Connect(s) \/ SendCommand(s) \/ Leave(s)
      PROVE  shouldTerminate'
  BY <1>7 DEF Connect, SendCommand, Leave, Environment, ending
<1> QED
  BY <1>1, <1>2, <1>3, <1>4, <1>5, <1>6, <1>7 DEF Next

(* The invariant holds always.                                             *)
LEMMA Invariance == Spec => []Inv
<1>1. Init => Inv
  BY InitTyped, InitCalls DEF Inv
<1>2. Inv /\ [Next]_vars => Inv'
  BY TypeNext, CallsNext, StaysTold DEF Inv
<1> QED
  BY <1>1, <1>2, PTL DEF Spec

-----------------------------------------------------------------------------
(* The static buffers: none is lost or given twice                         *)

Few(S) == ClearMSBs(S, Provided) = {}

\* A session that is idle has none, and what is released is all there is.
BuffersInv ==
  /\ BuffersOwnedOnce
  /\ Few(currentlyProvidedStaticBuffers)
  /\ \A s \in Services : /\ Few(usedStaticBuffers[s])
                         /\ state[s] = "idle" => usedStaticBuffers[s] = {}

(* What is left of a set when its upper ones are counted from is finite.   *)
LEMMA Above ==
  ASSUME NEW S \in SUBSET AllBuffers, NEW T \in SUBSET S, NEW b
  PROVE  /\ Cardinality({c \in S : c > b}) \in Nat
         /\ Cardinality({c \in T : c > b}) \in Nat
         /\ Cardinality({c \in T : c > b}) <= Cardinality({c \in S : c > b})
<1>1. IsFiniteSet(AllBuffers)
  BY ServicesAssumption, FS_Interval DEF AllBuffers
<1>2. IsFiniteSet({c \in S : c > b})
  BY <1>1, FS_Subset
<1>3. {c \in T : c > b} \in SUBSET {c \in S : c > b}
  OBVIOUS
<1>4. IsFiniteSet({c \in T : c > b})
  BY <1>2, <1>3, FS_Subset
<1> QED
  BY <1>2, <1>3, <1>4, FS_Subset, FS_CardinalityType

(* A set that has few above each of its elements is few.                   *)
LEMMA FewAbove ==
  ASSUME NEW S \in SUBSET AllBuffers, NEW T \in SUBSET S,
         \A b \in T : ~(Cardinality({c \in S : c > b}) >= Provided)
  PROVE  Few(T)
<1> SUFFICES ASSUME NEW b \in T, Cardinality({c \in T : c > b}) >= Provided
             PROVE  FALSE
  BY DEF Few, ClearMSBs
<1>1. ~(Cardinality({c \in S : c > b}) >= Provided)
  OBVIOUS
<1>2. PICK m, n : m = Cardinality({c \in S : c > b}) /\ n = Cardinality({c \in T : c > b})
  OBVIOUS
<1>3. m \in Nat /\ n \in Nat /\ n <= m
  BY <1>2, Above
<1> QED
  BY <1>1, <1>2, <1>3, ServicesAssumption

(* Some of few buffers are few.                                            *)
LEMMA FewSubset ==
  ASSUME NEW S \in SUBSET AllBuffers, NEW T \in SUBSET S, Few(S)
  PROVE  Few(T)
<1>1. \A b \in T : ~(Cardinality({c \in S : c > b}) >= Provided)
  BY DEF Few, ClearMSBs
<1> QED
  BY <1>1, FewAbove

(* Those that are taken from the top are few.                              *)
LEMMA FewTaken ==
  ASSUME NEW S \in SUBSET AllBuffers
  PROVE  Few(S \ ClearMSBs(S, Provided))
<1> PICK T \in SUBSET S : T = S \ ClearMSBs(S, Provided)
  OBVIOUS
<1>1. \A b \in T : ~(Cardinality({c \in S : c > b}) >= Provided)
  BY DEF ClearMSBs
<1> QED
  BY <1>1, FewAbove

(* At first all are free or provided.                                      *)
LEMMA BuffersInit == Init => BuffersInv
<1> SUFFICES ASSUME Init PROVE BuffersInv
  OBVIOUS
<1>1. ClearMSBs(AllBuffers, Provided) \subseteq AllBuffers
  BY DEF ClearMSBs
<1>2. freeStaticBuffers \subseteq AllBuffers /\ currentlyProvidedStaticBuffers = AllBuffers \ freeStaticBuffers
  BY <1>1 DEF Init
<1>3. \A s \in Services : usedStaticBuffers[s] = {}
  BY DEF Init
<1>4. BuffersOwnedOnce
  <2>1. UNION {usedStaticBuffers[s] : s \in Services} = {}
    BY <1>3
  <2> QED
    BY <1>2, <1>3, <2>1 DEF BuffersOwnedOnce
<1>5. Few(currentlyProvidedStaticBuffers)
  BY FewTaken DEF Init
<1>6. Few({})
  BY DEF Few, ClearMSBs
<1> QED
  BY <1>3, <1>4, <1>5, <1>6 DEF BuffersInv

(* A step that leaves them alone, and makes no session idle.               *)
LEMMA BuffersStay ==
  ASSUME BuffersInv, UNCHANGED buffers,
         \A s \in Services : state'[s] = "idle" => state[s] = "idle"
  PROVE  BuffersInv'
  BY DEF BuffersInv, buffers, BuffersOwnedOnce

(* A command takes from those provided, and others are provided.           *)
LEMMA BuffersKept ==
  ASSUME TypeInv, BuffersInv, NEW s \in Services, state[s] = "idle",
         state' = [state EXCEPT ![s] = "fromArm11"], KeepStaticBuffers(s)
  PROVE  BuffersInv'
<1> DEFINE kept == ClearMSBs(currentlyProvidedStaticBuffers, Provided - StaticBuffersOf[s])
           rest == freeStaticBuffers \cup (currentlyProvidedStaticBuffers \ kept)
           left == ClearMSBs(rest, Provided)
<1>1. kept \subseteq currentlyProvidedStaticBuffers /\ left \subseteq rest
  BY DEF ClearMSBs
<1>2. /\ currentlyProvidedStaticBuffers \subseteq AllBuffers /\ rest \subseteq AllBuffers
      /\ usedStaticBuffers \in [Services -> SUBSET AllBuffers]
      /\ state \in [All -> States] /\ Services \subseteq All
  BY ServicesTyped DEF TypeInv, BuffersOK, SessionsOK
<1>3. Few(kept) /\ Few(rest \ left)
  BY <1>1, <1>2, FewSubset, FewTaken DEF BuffersInv
<1>4. /\ usedStaticBuffers' = [usedStaticBuffers EXCEPT ![s] = kept]
      /\ freeStaticBuffers' = left
      /\ currentlyProvidedStaticBuffers' = rest \ left
  BY DEF KeepStaticBuffers, AcquireStaticBuffers
<1>5. usedStaticBuffers[s] = {} /\ BuffersOwnedOnce
  BY DEF BuffersInv
<1>6. /\ rest \cap kept = {} /\ rest \cup kept = freeStaticBuffers \cup currentlyProvidedStaticBuffers
  BY <1>1, <1>5 DEF BuffersOwnedOnce
<1> HIDE DEF kept, rest, left
<1>7. \A t \in Services \ {s} :
        usedStaticBuffers'[t] = usedStaticBuffers[t] /\ usedStaticBuffers[t] \cap (rest \cup kept) = {}
  BY <1>2, <1>4, <1>5, <1>6 DEF BuffersOwnedOnce
<1>8. usedStaticBuffers'[s] = kept
  BY <1>2, <1>4
<1>9. BuffersOwnedOnce'
  <2>1. (freeStaticBuffers \cap currentlyProvidedStaticBuffers = {})'
    BY <1>4
  <2>2. ASSUME NEW t \in Services
        PROVE  /\ usedStaticBuffers'[t] \cap (left \cup (rest \ left)) = {}
               /\ \A u \in Services \ {t} : usedStaticBuffers'[t] \cap usedStaticBuffers'[u] = {}
    BY <1>1, <1>5, <1>6, <1>7, <1>8 DEF BuffersOwnedOnce
  <2>3. \A b : b \in AllBuffers <=>
                 \/ b \in rest \cup kept
                 \/ \E t \in Services : b \in usedStaticBuffers[t]
    <3>1. AllBuffers = rest \cup kept \cup UNION {usedStaticBuffers[t] : t \in Services}
      BY <1>5, <1>6 DEF BuffersOwnedOnce
    <3> QED
      BY <3>1
  <2>4. \A b : b \in AllBuffers <=>
                 \/ b \in left \cup (rest \ left)
                 \/ \E t \in Services : b \in usedStaticBuffers'[t]
    BY <1>1, <1>5, <1>7, <1>8, <2>3
  <2>5. AllBuffers = left \cup (rest \ left) \cup UNION {usedStaticBuffers'[t] : t \in Services}
    BY <2>4
  <2> QED
    BY <1>4, <2>1, <2>2, <2>5 DEF BuffersOwnedOnce, AllBuffers
<1> QED
  BY <1>2, <1>3, <1>4, <1>7, <1>8, <1>9 DEF BuffersInv, Few, ClearMSBs

(* All that a command used are free again.                                 *)
LEMMA BuffersReleased ==
  ASSUME TypeInv, BuffersInv, NEW s \in Services, ReleaseStaticBuffers(s),
         state' = [state EXCEPT ![s] = "idle"]
  PROVE  BuffersInv'
<1>1. ClearMSBs(usedStaticBuffers[s], Provided) = {}
  BY DEF BuffersInv, Few
<1>2. /\ freeStaticBuffers' = freeStaticBuffers \cup usedStaticBuffers[s]
      /\ usedStaticBuffers' = [usedStaticBuffers EXCEPT ![s] = {}]
      /\ currentlyProvidedStaticBuffers' = currentlyProvidedStaticBuffers
  BY <1>1 DEF ReleaseStaticBuffers
<1>3. /\ usedStaticBuffers \in [Services -> SUBSET AllBuffers]
      /\ state \in [All -> States] /\ Services \subseteq All
  BY ServicesTyped DEF TypeInv, BuffersOK, SessionsOK
<1>4. /\ usedStaticBuffers'[s] = {}
      /\ \A t \in Services \ {s} : usedStaticBuffers'[t] = usedStaticBuffers[t]
  BY <1>2, <1>3
<1>5. BuffersOwnedOnce'
  <2>1. BuffersOwnedOnce
    BY DEF BuffersInv
  <2>2. (freeStaticBuffers \cap currentlyProvidedStaticBuffers = {})'
    BY <1>2, <2>1 DEF BuffersOwnedOnce
  <2>3. ASSUME NEW t \in Services
        PROVE  /\ usedStaticBuffers'[t] \cap
                    (freeStaticBuffers' \cup currentlyProvidedStaticBuffers') = {}
               /\ \A u \in Services \ {t} : usedStaticBuffers'[t] \cap usedStaticBuffers'[u] = {}
    BY <1>2, <1>4, <2>1 DEF BuffersOwnedOnce
  <2>4. \A b : b \in AllBuffers <=>
                 \/ b \in freeStaticBuffers \cup currentlyProvidedStaticBuffers
                 \/ \E t \in Services : b \in usedStaticBuffers[t]
    <3>1. AllBuffers = freeStaticBuffers \cup currentlyProvidedStaticBuffers
                         \cup UNION {usedStaticBuffers[t] : t \in Services}
      BY <2>1 DEF BuffersOwnedOnce
    <3> QED
      BY <3>1
  <2>5. \A b : b \in AllBuffers <=>
                 \/ b \in freeStaticBuffers' \cup currentlyProvidedStaticBuffers'
                 \/ \E t \in Services : b \in usedStaticBuffers'[t]
    BY <1>2, <1>4, <2>4
  <2>6. AllBuffers = freeStaticBuffers' \cup currentlyProvidedStaticBuffers'
                       \cup UNION {usedStaticBuffers'[t] : t \in Services}
    BY <2>5
  <2> QED
    BY <2>2, <2>3, <2>6 DEF BuffersOwnedOnce, AllBuffers
<1>6. Few({})
  BY DEF Few, ClearMSBs
<1> QED
  BY <1>2, <1>3, <1>4, <1>5, <1>6 DEF BuffersInv, Few, ClearMSBs

(* Every step.                                                             *)
LEMMA BuffersNext ==
  ASSUME TypeInv, BuffersInv, [Next]_vars
  PROVE  BuffersInv'
<1> USE ServicesTyped
<1>a. state \in [All -> States] /\ sender \in Senders
  BY DEF TypeInv, SessionsOK, SenderOK
<1>1. CASE UNCHANGED vars
  BY <1>1, BuffersStay DEF vars, sessions
<1>2. CASE SenderStep
  <2>1. CASE SendToArm9
    <3>1. UNCHANGED buffers /\ \E s : state' = [state EXCEPT ![s] = "sent"]
      BY <2>1 DEF SendToArm9
    <3> QED
      BY <1>a, <3>1, BuffersStay
  <2>2. CASE Arm9Reply
    <3>1. CASE UNCHANGED <<state, buffers>>
      BY <3>1, BuffersStay
    <3>2. CASE ~UNCHANGED <<state, buffers>>
      <4>1. PICK s : s = Least(Answered)
        OBVIOUS
      <4>2. Answered \in SUBSET Services /\ Answered # {}
        BY <2>2, <3>2 DEF Arm9Reply, Answered
      <4>3. s \in Services
        BY <4>1, <4>2, LeastService
      <4>4. ReleaseStaticBuffers(s) /\ state' = [state EXCEPT ![s] = "idle"]
        BY <2>2, <3>2, <4>1 DEF Arm9Reply
      <4> QED
        BY <4>3, <4>4, BuffersReleased
    <3> QED
      BY <3>1, <3>2
  <2>3. ASSUME NEW s \in Services, CommandReceived(s)
        PROVE  BuffersInv'
    <3>1. CASE UNCHANGED <<state, buffers>>
      BY <3>1, BuffersStay
    <3>2. CASE ~UNCHANGED <<state, buffers>>
      BY <2>3, <3>2, BuffersKept DEF CommandReceived
    <3> QED
      BY <3>1, <3>2
  <2>4. CASE UNCHANGED <<state, buffers>>
    BY <2>4, BuffersStay
  <2> QED
    BY <1>2, <2>1, <2>2, <2>3, <2>4 DEF SenderStep, AcquireTransfer, TransmitCommand, Listen,
       Reply,
       ReplyFailed, SessionClosed, TerminationRequested, SendAllBuffers, CloseSession, sessions
<1>3. CASE MainStep
  <2>1. UNCHANGED buffers /\ (state' = state \/ state' = [state EXCEPT ![Mc] = "sent"])
    BY <1>3 DEF MainStep, MainOnly, Terminate, AcceptSession, EnterSession, OverwriteState,
       AcquireLast, TransmitLast, JoinThreads, sessions
  <2> QED
    BY <1>a, <2>1, BuffersStay
<1>4. CASE ReceiverStep
  <2>1. UNCHANGED buffers /\ (state' = state \/ \E s : state' = [state EXCEPT ![s] = "fromArm9"])
    BY <1>4 DEF ReceiverStep, ReceiverOnly, ReceiverStarts, WaitForArm9, FIFOEmpty,
       ReceiveFromArm9,
       TellThreads, TellSender, TellHandler, WaitReplySent
  <2> QED
    BY <1>a, <2>1, BuffersStay
<1>5. CASE HandlerStep
  <2>1. UNCHANGED buffers /\ \A s \in Services : state'[s] = state[s]
    BY <1>5, <1>a DEF HandlerStep, HandlerOnly, HandlerStarts, HandleSrv11Command,
       HandlerAcquire,
       HandlerTransmit, HandlerEnds
  <2> QED
    BY <2>1, BuffersStay
<1>6. CASE \/ \E s \in All : Arm9Sends(s)
           \/ \E s \in Services : Connect(s) \/ SendCommand(s) \/ Leave(s)
  <2>1. UNCHANGED <<buffers, state>>
    BY <1>6 DEF Arm9Sends, Connect, SendCommand, Leave, Environment, sessions
  <2> QED
    BY <2>1, BuffersStay
<1> QED
  BY <1>1, <1>2, <1>3, <1>4, <1>5, <1>6 DEF Next

-----------------------------------------------------------------------------
(* The inductive invariant of ServesSoundly: pxi at work                   *)

\* The session of PXISRV11 goes round: the ARM9, the receiver, the handler.
Srv11Inv ==
  /\ handler \in {"start", "wait", "acquire", "transmit"} /\ receiver.pc # "ended"
  /\ handler = "start" => receiver.pc = "start"
  /\ receiver.pc = "start" =>
       /\ handler \in {"start", "wait"} /\ ~PXISRV11CommandReceivedEvent
       /\ handler = "start" => ~PXISRV11ReplySentEvent
       /\ handler = "wait" => PXISRV11ReplySentEvent /\ state[Srv11] = "sent"
  /\ receiver.pc \in {"wait", "drain", "tell"} =>
       /\ handler = "wait" /\ ~PXISRV11CommandReceivedEvent /\ ~PXISRV11ReplySentEvent
       /\ state[Srv11] = IF receiver.pc = "tell" /\ receiver.at = Srv11 THEN "fromArm9"
                         ELSE "sent"
  /\ receiver.pc = "waitSent" =>
       \/ /\ handler = "wait" /\ state[Srv11] = "fromArm9"
          /\ PXISRV11CommandReceivedEvent /\ ~PXISRV11ReplySentEvent
       \/ /\ handler \in {"acquire", "transmit"} /\ state[Srv11] = "fromArm11"
          /\ ~PXISRV11CommandReceivedEvent /\ ~PXISRV11ReplySentEvent
       \/ /\ handler = "wait" /\ state[Srv11] = "sent"
          /\ ~PXISRV11CommandReceivedEvent /\ PXISRV11ReplySentEvent

\* The semaphore and the receiver count the sessions that have an answer.
Told == IF receiver.pc = "tell" /\ receiver.at \in Services THEN 1 ELSE 0
Counted == replySemaphore + Told = Cardinality(Answered)

Pending == pendingArm9Commands = Cardinality(Outstanding)

\* The ARM9 answers what it was sent.
Carried ==
  \A s \in Services :
    /\ \A i \in DOMAIN toArm9[s] : toArm9[s][i] = buffer[s]
    /\ \A i \in DOMAIN fromArm9 : fromArm9[i].to = s => fromArm9[i].message = buffer[s]

\* Only pxi:mc switches sending, on its own, and the flags say for what.
Switches == {"disable", "enable"}
OnlyMcSwitches ==
  \A s \in Services \ {Mc} :
    /\ client[s].at = "waiting" => client[s].kind = "cmd"
    /\ state[s] # "idle" => buffer[s] = "cmd"
Alone == Switching => \A t \in Services \ {Mc} : ~Busy(t)
Fresh(s) == client[s].at = "waiting" /\ state[s] = "idle" /\ ~Returning(s)
FreshAgrees ==
  \A s \in Services : Fresh(s) => (client[s].kind = "enable" <=> sendingDisabled)
UnderWay ==
  \A s \in Services : state[s] # "idle" =>
    \/ buffer[s] = "cmd" /\ ~sendingDisabled /\ latest_PXI_MC5_val = 0
    \/ buffer[s] = "disable" /\ sendingDisabled /\ latest_PXI_MC5_val = 1
    \/ buffer[s] = "enable" /\ sendingDisabled /\ latest_PXI_MC5_val = 2
SwitchInv == OnlyMcSwitches /\ Alone /\ FreshAgrees /\ UnderWay

WorkInv == NeverPanics /\ Srv11Inv /\ Counted /\ Pending /\ Carried /\ SwitchInv

\* The premisses of the lemmas below: a state before the end.
AtWork == Inv /\ ~shouldTerminate /\ WorkInv

-----------------------------------------------------------------------------
(* Steps at work                                                           *)

(* There are nine services of ARM11 at most.                               *)
LEMMA ServicesFew ==
  ASSUME NEW S \in SUBSET Services
  PROVE  IsFiniteSet(S) /\ Cardinality(S) \in 0..9
<1>1. S \in SUBSET (0..8)
  BY ServicesAssumption
<1>2. IsFiniteSet(0..8) /\ Cardinality(0..8) = 9
  <2>1. PICK a \in Int, b \in Int : a = 0 /\ b = 8
    OBVIOUS
  <2>2. IsFiniteSet(a..b) /\ Cardinality(a..b) = IF a > b THEN 0 ELSE b - a + 1
    BY FS_Interval
  <2> QED
    BY <2>1, <2>2
<1>3. IsFiniteSet(S) /\ Cardinality(S) <= Cardinality(0..8)
  BY <1>1, <1>2, FS_Subset
<1>4. Cardinality(S) \in Nat
  BY <1>3, FS_CardinalityType
<1> QED
  BY <1>2, <1>3, <1>4

(* Adding an element to a set of services, and taking one from it.         *)
LEMMA ServicesCount ==
  ASSUME NEW S \in SUBSET Services, NEW s \in Services
  PROVE  /\ s \notin S => Cardinality(S \cup {s}) = Cardinality(S) + 1
         /\ s \in S => Cardinality(S \ {s}) = Cardinality(S) - 1 /\ Cardinality(S) > 0
<1>1. IsFiniteSet(S) /\ Cardinality(S) \in 0..9
  BY ServicesFew
<1>2. S \ {s} \in SUBSET Services /\ Cardinality(S \ {s}) \in 0..9
  BY ServicesFew
<1>3. s \notin S => Cardinality(S \cup {s}) = Cardinality(S) + 1
  BY <1>1, FS_AddElement
<1>4. s \in S => Cardinality(S \ {s}) = Cardinality(S) - 1
  BY <1>1, FS_RemoveElement
<1> QED
  BY <1>1, <1>2, <1>3, <1>4

(* What the proofs below start from.                                       *)
LEMMA AtWorkTyped ==
  ASSUME AtWork
  PROVE  /\ NotEnding /\ \A t \in Services : Visiting(t) /\ Serving(t) /\ Travelling(t)
         /\ latest_PXI_MC5_val \in 0..2 /\ pendingArm9Commands \in 0 .. Word - 1
         /\ sendingDisabled \in BOOLEAN /\ replySemaphore \in 0..9
         /\ receiver \in Receivers /\ handler \in Handlers
         /\ PXISRV11CommandReceivedEvent \in BOOLEAN /\ PXISRV11ReplySentEvent \in BOOLEAN
         /\ \A s \in Services : client[s].at = "waiting" => client[s].kind \in Commands
  BY DEF AtWork, Inv, CallInv, TypeInv, Mc5OK, SignalsOK, ReceiverOK, HandlerOK, EventsOK,
     PortsOK

(* The sender takes a command to send it.                                  *)
LEMMA SendEffect ==
  ASSUME AtWork, SendToArm9
  PROVE  \E s \in Services :
           /\ state[s] = "fromArm11" /\ state' = [state EXCEPT ![s] = "sent"]
           /\ sender.replyTarget = None /\ sender'.pc = "acquire"
           /\ pendingArm9Commands' = IF sendingDisabled THEN pendingArm9Commands
                                     ELSE (pendingArm9Commands + 1) % Word
           /\ UNCHANGED <<buffer, latest_PXI_MC5_val, sendingDisabled, signals, link, ports,
                          receiver, handler, srv11Events, panicked>>
<1>1. PICK s : s = Least(Sendable)
  OBVIOUS
<1>2. Sendable \in SUBSET Services /\ Sendable # {}
  BY DEF SendToArm9, Sendable
<1>3. s \in Services /\ state[s] = "fromArm11"
  BY <1>1, <1>2, LeastService DEF Sendable
<1>4. sender'.pc = "acquire"
  BY DEF SendToArm9, AtWork, Inv, TypeInv, SenderOK, Senders
<1> QED
  BY <1>1, <1>3, <1>4 DEF SendToArm9, SenderOnly

(* The sender takes an answer, and finds one.                              *)
LEMMA AnswerEffect ==
  ASSUME AtWork, Arm9Reply
  PROVE  \E s \in Services :
           /\ state[s] = "fromArm9" /\ state' = [state EXCEPT ![s] = "idle"]
           /\ sender.pc = "wait" /\ sender'.pc = "top" /\ sender'.replyTarget = s
           /\ replySemaphore' = replySemaphore - 1
           /\ CountAnswer
           /\ latest_PXI_MC5_val = 2 => pendingArm9Commands = 0
           /\ UNCHANGED <<buffer, link, ports, receiver, handler, srv11Events, panicked>>
<1> USE ServicesTyped, AtWorkTyped
<1>1. Answered \in SUBSET Services /\ Answered # {}
  <2>1. Answered \in SUBSET Services
    BY DEF Answered
  <2>2. replySemaphore > 0 /\ Told \in {0, 1}
    BY DEF Arm9Reply, Told
  <2>3. Cardinality(Answered) > 0
    BY <2>2 DEF AtWork, WorkInv, Counted
  <2>4. Cardinality({}) = 0
    BY FS_EmptySet
  <2>5. Cardinality(Answered) # Cardinality({})
    BY <2>1, <2>3, <2>4, ServicesFew
  <2>6. Answered # {}
    BY <2>5
  <2> QED
    BY <2>1, <2>6
<1>2. PICK s : s = Least(Answered)
  OBVIOUS
<1>3. s \in Services /\ state[s] = "fromArm9"
  BY <1>1, <1>2, LeastService DEF Answered
<1>4. handle[s]
  BY <1>3 DEF Serving
<1>5. latest_PXI_MC5_val = 2 => pendingArm9Commands = 0
  <2> SUFFICES ASSUME latest_PXI_MC5_val = 2 PROVE pendingArm9Commands = 0
    OBVIOUS
  <2>1. buffer[s] = "enable" /\ s = Mc
    <3>1. UnderWay
      BY DEF AtWork, WorkInv, SwitchInv
    <3>2. state[s] # "idle" /\ s \in Services
      BY <1>3
    <3>3. latest_PXI_MC5_val # 0 /\ latest_PXI_MC5_val # 1
      OBVIOUS
    <3>4. buffer[s] = "enable"
      BY <3>1, <3>2, <3>3, Zenon DEF UnderWay
    <3> QED
      BY <1>3, <3>4 DEF AtWork, WorkInv, SwitchInv, OnlyMcSwitches
  <2>2. Switching
    BY <1>3, <2>1 DEF Switching
  <2>3. \A t \in Services \ {Mc} : state[t] = "idle"
    BY <2>2 DEF AtWork, WorkInv, SwitchInv, Alone, Busy
  <2>4. Outstanding = {}
    BY <2>1, <2>3 DEF Outstanding
  <2> QED
    BY <2>4, FS_EmptySet DEF AtWork, WorkInv, Pending
<1>6. /\ CountAnswer /\ state' = [state EXCEPT ![s] = "idle"] /\ UNCHANGED panicked
      /\ sender' = [sender EXCEPT !.pc = "top", !.replyTarget = s]
  BY <1>1, <1>2, <1>4, <1>5 DEF Arm9Reply
<1>7. sender'.pc = "top" /\ sender'.replyTarget = s
  BY <1>6 DEF AtWork, Inv, TypeInv, SenderOK, Senders
<1> QED
  BY <1>3, <1>5, <1>6, <1>7 DEF Arm9Reply, Sender, SenderOnly

(* The sender takes a command, which its assertion allows.                 *)
LEMMA CommandEffect ==
  ASSUME AtWork, NEW s \in Services, CommandReceived(s)
  PROVE  /\ Fresh(s) /\ state' = [state EXCEPT ![s] = "fromArm11"]
         /\ buffer' = [buffer EXCEPT ![s] = client[s].kind]
         /\ sender.pc = "wait" /\ sender'.pc = "top" /\ sender'.replyTarget = None
         /\ NoteCommand(client[s].kind) /\ client[s].kind \in Commands
         /\ UNCHANGED <<pendingArm9Commands, signals, link, ports, receiver, handler, srv11Events,
                        panicked>>
<1> USE ServicesTyped, AtWorkTyped
<1>1. /\ sender.pc = "wait" /\ s \in sender.watched /\ client[s].at = "waiting"
  BY DEF CommandReceived, Sender
<1>2. state[s] = "idle" /\ Fresh(s)
  BY <1>1 DEF Serving, Fresh, Returning
<1>3. client[s].kind = "enable" <=> sendingDisabled
  BY <1>2 DEF AtWork, WorkInv, SwitchInv, FreshAgrees
<1>4. /\ NoteCommand(client[s].kind) /\ UNCHANGED <<pendingArm9Commands, panicked>>
      /\ buffer' = [buffer EXCEPT ![s] = client[s].kind]
      /\ state' = [state EXCEPT ![s] = "fromArm11"]
      /\ sender' = [sender EXCEPT !.pc = "top", !.replyTarget = None]
  BY <1>2, <1>3 DEF CommandReceived
<1>5. sender'.pc = "top" /\ sender'.replyTarget = None
  BY <1>4 DEF AtWork, Inv, TypeInv, SenderOK, Senders
<1> QED
  BY <1>1, <1>2, <1>4, <1>5 DEF CommandReceived, SenderOnly

(* The receiver takes an answer, to something that was sent.               *)
LEMMA ReceiveEffect ==
  ASSUME AtWork, ReceiveFromArm9
  PROVE  \E s \in All :
           /\ state[s] = "sent" /\ state' = [state EXCEPT ![s] = "fromArm9"]
           /\ s \in Services => buffer' = buffer
           /\ \A t \in Services : buffer'[t] = buffer[t]
           /\ receiver.pc = "drain" /\ receiver' = [pc |-> "tell", at |-> s]
           /\ fromArm9 # <<>> /\ fromArm9' = Tail(fromArm9)
           /\ UNCHANGED <<mc5, replySemaphore, toArm9, ports, sender, handler, srv11Events,
                          panicked>>
<1> USE ServicesTyped, AtWorkTyped, InvTyped DEF AtWork
<1>1. fromArm9 # <<>> /\ receiver.pc = "drain"
  BY DEF ReceiveFromArm9, Receiver
<1>2. PICK m \in [to : All, message : Messages] : m = Head(fromArm9)
  BY <1>1, HeadTail
<1>3. 1 \in DOMAIN fromArm9 /\ fromArm9[1] = m
  BY <1>1, <1>2, HeadTail
<1>4. state[m.to] = "sent"
  <2>1. CASE m.to \in Services
    BY <1>3, <2>1 DEF Travelling
  <2>2. CASE m.to = Srv11
    BY <1>1, <2>2 DEF WorkInv, Srv11Inv
  <2> QED
    BY <2>1, <2>2 DEF All
<1>5. /\ state' = [state EXCEPT ![m.to] = "fromArm9"]
      /\ buffer' = [buffer EXCEPT ![m.to] = m.message]
      /\ fromArm9' = Tail(fromArm9) /\ receiver' = [pc |-> "tell", at |-> m.to]
      /\ UNCHANGED panicked
  BY <1>2, <1>4 DEF ReceiveFromArm9
<1>6. m.to \in Services => m.message = buffer[m.to]
  BY <1>3 DEF WorkInv, Carried
<1>7. \A t \in Services : buffer'[t] = buffer[t]
  BY <1>5, <1>6
<1>8. m.to \in Services => buffer' = buffer
  BY <1>5, <1>6
<1> QED
  BY <1>1, <1>4, <1>5, <1>7, <1>8 DEF ReceiveFromArm9, ReceiverOnly

(* TellSender counts an answer that is there.                              *)
LEMMA TellEffect ==
  ASSUME AtWork, TellSender
  PROVE  /\ Told = 1 /\ Told' = 0 /\ replySemaphore' = replySemaphore + 1
         /\ UNCHANGED panicked
<1> USE AtWorkTyped
<1>1. Told = 1
  BY DEF TellSender, Receiver, Told, AtWork, Inv, TypeInv, ReceiverOK, All
<1>2. Answered \in SUBSET Services
  BY DEF Answered
<1>3. Cardinality(Answered) \in 0..9
  BY <1>2, ServicesFew
<1>4. replySemaphore # 9
  BY <1>1, <1>3 DEF AtWork, WorkInv, Counted
<1>5. receiver' = [receiver EXCEPT !.pc = "drain"] /\ replySemaphore' = replySemaphore + 1
      /\ UNCHANGED panicked
  BY <1>4 DEF TellSender
<1>6. receiver'.pc = "drain"
  BY <1>5 DEF Receivers
<1> QED
  BY <1>1, <1>5, <1>6 DEF Told

(* No assertion fails.                                                     *)
LEMMA NoPanic ==
  ASSUME AtWork, [Next]_vars
  PROVE  panicked' = None
<1> USE ServicesTyped, AtWorkTyped
<1>0. panicked = None
  BY DEF AtWork, WorkInv, NeverPanics
<1>1. CASE UNCHANGED vars
  BY <1>0, <1>1 DEF vars, ending
<1>2. CASE SenderStep
  <2>1. CASE Reply
    <3>1. sender.replyTarget \in Services /\ Returning(sender.replyTarget)
      BY <2>1 DEF Reply, Sender, Returning, AtWork, Inv, TypeInv, SenderOK
    <3>2. client[sender.replyTarget].at \in {"waiting", "gone"}
      BY <3>1 DEF Serving
    <3> QED
      BY <1>0, <2>1, <3>2 DEF Reply
  <2>2. ASSUME NEW s \in Services, CommandReceived(s)
        PROVE  panicked' = None
    BY <1>0, <2>2, CommandEffect
  <2> QED
    BY <1>0, <1>2, <2>1, <2>2, SendEffect, AnswerEffect DEF SenderStep, AcquireTransfer,
       TransmitCommand, Listen, ReplyFailed, SessionClosed, CloseSession, TerminationRequested,
       SendAllBuffers
<1>3. CASE MainStep
  <2>1. CASE EnterSession
    <3>1. main.at \in Services /\ Entering(main.at)
      BY <2>1 DEF EnterSession, Main, Entering, AtWork, Inv, TypeInv, MainOK
    <3>2. ~handle[main.at]
      BY <3>1 DEF Visiting
    <3> QED
      BY <1>0, <2>1, <3>2 DEF EnterSession
  <2> QED
    BY <1>0, <1>3, <2>1 DEF MainStep, Terminate, AcceptSession, OverwriteState, AcquireLast,
       TransmitLast, JoinThreads
<1>4. CASE ReceiverStep
  <2>1. CASE WaitReplySent
    <3>1. state[Srv11] = "sent"
      BY <2>1 DEF WaitReplySent, Receiver, AtWork, WorkInv, Srv11Inv
    <3> QED
      BY <1>0, <2>1, <3>1 DEF WaitReplySent
  <2> QED
    BY <1>0, <1>4, <2>1, ReceiveEffect, TellEffect DEF ReceiverStep, ReceiverStarts,
       WaitForArm9,
       FIFOEmpty, TellThreads, TellHandler
<1>5. CASE HandlerStep
  <2>1. CASE HandleSrv11Command
    <3>1. state[Srv11] = "fromArm9"
      BY <2>1 DEF HandleSrv11Command, Handler, AtWork, WorkInv, Srv11Inv, Receivers
    <3> QED
      BY <1>0, <2>1, <3>1 DEF HandleSrv11Command
  <2>2. CASE HandlerAcquire
    BY <1>0, <2>2 DEF HandlerAcquire, Cancelled, NotEnding
  <2> QED
    BY <1>0, <1>5, <2>1, <2>2 DEF HandlerStep, HandlerStarts, HandlerTransmit, HandlerEnds
<1>6. CASE \/ \E s \in All : Arm9Sends(s)
           \/ \E s \in Services : Connect(s) \/ SendCommand(s) \/ Leave(s)
  BY <1>0, <1>6 DEF Arm9Sends, Connect, SendCommand, Leave, Environment, ending
<1> QED
  BY <1>1, <1>2, <1>3, <1>4, <1>5, <1>6 DEF Next

(* The session of PXISRV11 goes its round.                                 *)
LEMMA Srv11Next ==
  ASSUME AtWork, ~shouldTerminate', [Next]_vars
  PROVE  Srv11Inv'
<1> USE ServicesTyped, AtWorkTyped, InvTyped DEF AtWork
<1>0. Srv11Inv
  BY DEF WorkInv
<1>a. ASSUME state'[Srv11] = state[Srv11], UNCHANGED <<receiver, handler, srv11Events>>
      PROVE  Srv11Inv'
  BY <1>0, <1>a DEF Srv11Inv, srv11Events
<1>1. CASE UNCHANGED vars
  BY <1>1, <1>a DEF vars, sessions
<1>2. CASE SenderStep
  <2>1. UNCHANGED <<receiver, handler, srv11Events>>
    BY <1>2 DEF SenderStep, SendToArm9, AcquireTransfer, TransmitCommand, Listen, Reply,
       ReplyFailed, SessionClosed, CommandReceived, TerminationRequested, SendAllBuffers,
       Arm9Reply, CloseSession, SenderOnly
  <2>2. state' = state \/ \E s \in Services : \E v : state' = [state EXCEPT ![s] = v]
    <3>1. ASSUME NEW s \in Services, CommandReceived(s)
          PROVE  \E v : state' = [state EXCEPT ![s] = v]
      BY <3>1, CommandEffect
    <3> QED
      BY <1>2, <3>1, SendEffect, AnswerEffect DEF SenderStep, AcquireTransfer, TransmitCommand,
         Listen, Reply, ReplyFailed, SessionClosed, TerminationRequested, SendAllBuffers,
         CloseSession, sessions
  <2> QED
    BY <1>a, <2>1, <2>2
<1>3. CASE MainStep
  <2>1. UNCHANGED <<receiver, handler, srv11Events>>
    BY <1>3 DEF MainStep, MainOnly, Terminate, AcceptSession, EnterSession, OverwriteState,
       AcquireLast, TransmitLast, JoinThreads
  <2>2. UNCHANGED state
    BY <1>3, NoEndYet DEF MainStep, Terminate, AcceptSession, EnterSession, sessions
  <2> QED
    BY <1>a, <2>1, <2>2
<1>4. CASE ReceiverStep
  <2>1. CASE ReceiveFromArm9
    BY <1>0, <2>1, ReceiveEffect DEF Srv11Inv, srv11Events
  <2>2. CASE WaitReplySent
    BY <1>0, <2>2 DEF WaitReplySent, Srv11Inv, Receiver, ReceiverOnly, Receivers, srv11Events
  <2>3. CASE ReceiverStarts \/ WaitForArm9 \/ FIFOEmpty
    BY <1>0, <2>3 DEF ReceiverStarts, WaitForArm9, FIFOEmpty, Srv11Inv, Receiver, ReceiverOnly,
                      Receivers, srv11Events, NotEnding
  <2>4. CASE TellThreads \/ TellSender \/ TellHandler
    BY <1>0, <2>4 DEF TellThreads, TellSender, TellHandler, Srv11Inv, Receiver, ReceiverOnly,
                      Receivers, srv11Events
  <2> QED
    BY <1>4, <2>1, <2>2, <2>3, <2>4 DEF ReceiverStep
<1>5. CASE HandlerStep
  <2>1. UNCHANGED receiver
    BY <1>5 DEF HandlerStep, HandlerOnly, HandlerStarts, HandleSrv11Command, HandlerAcquire,
       HandlerTransmit, HandlerEnds
  <2>2. CASE HandlerStarts
    BY <1>0, <2>1, <2>2 DEF HandlerStarts, Handler, Srv11Inv
  <2>3. CASE HandleSrv11Command
    BY <1>0, <2>1, <2>3 DEF HandleSrv11Command, Handler, Srv11Inv, Receivers
  <2>4. CASE HandlerAcquire
    BY <1>0, <2>1, <2>4 DEF HandlerAcquire, Cancelled, Handler, Srv11Inv, Receivers, NotEnding,
                            srv11Events
  <2>5. CASE HandlerTransmit
    BY <1>0, <2>1, <2>5 DEF HandlerTransmit, Handler, Srv11Inv, Receivers
  <2>6. CASE HandlerEnds
    BY <2>6 DEF HandlerEnds, NotEnding
  <2> QED
    BY <1>5, <2>2, <2>3, <2>4, <2>5, <2>6 DEF HandlerStep
<1>6. CASE \/ \E s \in All : Arm9Sends(s)
           \/ \E s \in Services : Connect(s) \/ SendCommand(s) \/ Leave(s)
  <2>1. UNCHANGED <<state, receiver, handler, srv11Events>>
    BY <1>6 DEF Arm9Sends, Connect, SendCommand, Leave, Environment, sessions
  <2> QED
    BY <1>a, <2>1
<1> QED
  BY <1>1, <1>2, <1>3, <1>4, <1>5, <1>6 DEF Next

(* All the other steps leave the sessions and the counts alone.            *)
LEMMA OtherSteps ==
  ASSUME AtWork, ~shouldTerminate', [Next]_vars, ~SendToArm9, ~Arm9Reply, ~ReceiveFromArm9,
         ~TellSender, \A s \in Services : ~CommandReceived(s)
  PROVE  /\ \A t \in Services : state'[t] = state[t] /\ buffer'[t] = buffer[t]
         /\ UNCHANGED mc5 /\ replySemaphore' = replySemaphore /\ Told' = Told
<1> USE ServicesTyped, AtWorkTyped, InvTyped DEF AtWork
<1>a. UNCHANGED receiver => Told' = Told
  BY DEF Told
<1>1. CASE UNCHANGED vars
  BY <1>1, <1>a DEF vars, sessions, signals
<1>2. CASE SenderStep
  <2>1. UNCHANGED receiver
    BY <1>2 DEF SenderStep, AcquireTransfer, TransmitCommand, Listen, Reply,
       ReplyFailed, SessionClosed, TerminationRequested, SendAllBuffers, CloseSession,
       SenderOnly
  <2>2. UNCHANGED <<state, buffer, mc5, replySemaphore>>
    BY <1>2 DEF SenderStep, AcquireTransfer, TransmitCommand, Listen, Reply, sessions, signals,
       ReplyFailed, SessionClosed, TerminationRequested, SendAllBuffers, CloseSession
  <2> QED
    BY <1>a, <2>1, <2>2
<1>3. CASE MainStep
  <2>1. UNCHANGED <<state, buffer, mc5, replySemaphore, receiver>>
    BY <1>3, NoEndYet DEF MainStep, Terminate, AcceptSession, EnterSession, MainOnly, sessions
  <2> QED
    BY <1>a, <2>1
<1>4. CASE ReceiverStep
  <2>1. UNCHANGED <<state, buffer, replySemaphore, mc5, shouldTerminate>>
    BY <1>4 DEF ReceiverStep, ReceiverStarts, WaitForArm9, FIFOEmpty, TellThreads, TellHandler,
       WaitReplySent, ReceiverOnly
  <2>2. Told = 0 /\ Told' = 0
    <3>1. CASE ReceiverStarts \/ WaitForArm9 \/ FIFOEmpty
      BY <3>1 DEF ReceiverStarts, WaitForArm9, FIFOEmpty, Told, Receiver, Receivers
    <3>2. CASE TellHandler
      BY <3>2 DEF TellHandler, Told, Receiver, Receivers
    <3>3. CASE WaitReplySent
      BY <3>3 DEF WaitReplySent, Told, Receiver, Receivers
    <3> QED
      BY <1>4, <3>1, <3>2, <3>3 DEF ReceiverStep, TellThreads
  <2> QED
    BY <2>1, <2>2
<1>5. CASE HandlerStep
  <2>1. /\ \A t \in Services : state'[t] = state[t]
        /\ UNCHANGED <<buffer, mc5, replySemaphore, receiver>>
    BY <1>5 DEF HandlerStep, HandlerStarts, HandleSrv11Command, HandlerAcquire,
       HandlerTransmit, HandlerEnds, HandlerOnly, signals
  <2> QED
    BY <1>a, <2>1
<1>6. CASE \/ \E s \in All : Arm9Sends(s)
           \/ \E s \in Services : Connect(s) \/ SendCommand(s) \/ Leave(s)
  <2>1. UNCHANGED <<state, buffer, mc5, replySemaphore, receiver>>
    BY <1>6 DEF Arm9Sends, Connect, SendCommand, Leave, Environment, sessions, signals
  <2> QED
    BY <1>a, <2>1
<1> QED
  BY <1>1, <1>2, <1>3, <1>4, <1>5, <1>6 DEF Next

(* The semaphore and the receiver count the answers.                       *)
LEMMA CountedNext ==
  ASSUME AtWork, ~shouldTerminate', [Next]_vars
  PROVE  Counted'
<1> USE ServicesTyped, AtWorkTyped, InvTyped DEF AtWork
<1>0. Counted /\ Answered \in SUBSET Services /\ Told \in {0, 1}
  BY DEF WorkInv, Answered, Told
<1>a. Cardinality(Answered) \in 0..9
  BY <1>0, ServicesFew
<1>1. CASE SendToArm9
  <2>1. Answered' = Answered
    BY <1>1, SendEffect DEF Answered
  <2> QED
    BY <1>0, <1>1, <2>1, SendEffect DEF Counted, Told, signals
<1>2. CASE Arm9Reply
  <2>1. PICK s \in Services : /\ state[s] = "fromArm9" /\ state' = [state EXCEPT ![s] = "idle"]
                              /\ replySemaphore' = replySemaphore - 1 /\ UNCHANGED receiver
    BY <1>2, AnswerEffect
  <2>2. Answered' = Answered \ {s} /\ s \in Answered
    BY <2>1 DEF Answered
  <2>3. Cardinality(Answered') = Cardinality(Answered) - 1
    BY <1>0, <2>2, ServicesCount
  <2>4. Told' = Told
    BY <2>1 DEF Told
  <2>5. replySemaphore + Told = Cardinality(Answered) /\ replySemaphore \in Int /\ Told \in Int
    BY <1>0 DEF Counted
  <2>6. replySemaphore' + Told' = Cardinality(Answered')
    BY <1>a, <2>1, <2>3, <2>4, <2>5
  <2> QED
    BY <2>6 DEF Counted
<1>3. ASSUME NEW s \in Services, CommandReceived(s)
      PROVE  Counted'
  <2>1. Answered' = Answered
    BY <1>3, CommandEffect DEF Answered, Fresh
  <2> QED
    BY <1>0, <1>3, <2>1, CommandEffect DEF Counted, Told, signals
<1>4. CASE ReceiveFromArm9
  <2>1. PICK s \in All : /\ state[s] = "sent" /\ state' = [state EXCEPT ![s] = "fromArm9"]
                         /\ receiver.pc = "drain" /\ receiver' = [pc |-> "tell", at |-> s]
                         /\ replySemaphore' = replySemaphore
    BY <1>4, ReceiveEffect
  <2>2. Told = 0
    BY <2>1 DEF Told
  <2>3. CASE s \in Services
    <3>1. Answered' = Answered \cup {s} /\ s \notin Answered
      BY <2>1, <2>3 DEF Answered
    <3>2. Cardinality(Answered') = Cardinality(Answered) + 1
      BY <1>0, <2>3, <3>1, ServicesCount
    <3>3. Told' = 1
      BY <2>1, <2>3 DEF Told
    <3> QED
      BY <1>0, <1>a, <2>1, <2>2, <3>2, <3>3 DEF Counted
  <2>4. CASE s \notin Services
    <3>1. Answered' = Answered
      BY <2>1, <2>4 DEF Answered
    <3>2. Told' = 0
      BY <2>1, <2>4 DEF Told
    <3> QED
      BY <1>0, <2>1, <2>2, <3>1, <3>2 DEF Counted
  <2> QED
    BY <2>3, <2>4
<1>5. CASE TellSender
  <2>1. Answered' = Answered
    BY <1>5 DEF TellSender, Answered
  <2> QED
    BY <1>0, <1>a, <1>5, <2>1, TellEffect DEF Counted
<1>6. CASE ~SendToArm9 /\ ~Arm9Reply /\ ~ReceiveFromArm9 /\ ~TellSender
           /\ \A s \in Services : ~CommandReceived(s)
  <2>1. Answered' = Answered
    BY <1>6, OtherSteps DEF Answered
  <2> QED
    BY <1>0, <1>6, <2>1, OtherSteps DEF Counted
<1> QED
  BY <1>1, <1>2, <1>3, <1>4, <1>5, <1>6

(* pendingArm9Commands counts the commands that are out.                   *)
LEMMA PendingNext ==
  ASSUME AtWork, ~shouldTerminate', [Next]_vars
  PROVE  Pending'
<1> USE ServicesTyped, AtWorkTyped, InvTyped DEF AtWork
<1>0. Pending /\ Outstanding \in SUBSET Services /\ UnderWay
  BY DEF WorkInv, SwitchInv, Outstanding
<1>a. Cardinality(Outstanding) \in 0..9
  BY <1>0, ServicesFew
<1>b. \A n \in 0..9 : n % Word = n
  <2>1. \A n \in 0..9 : \A w \in Nat \ 0..9 : n % w = n
    OBVIOUS
  <2> QED
    BY <2>1, ServicesAssumption
<1>1. CASE SendToArm9
  <2>1. PICK s \in Services :
          /\ state[s] = "fromArm11" /\ state' = [state EXCEPT ![s] = "sent"] /\ UNCHANGED buffer
          /\ pendingArm9Commands' = IF sendingDisabled THEN pendingArm9Commands
                                    ELSE (pendingArm9Commands + 1) % Word
    BY <1>1, SendEffect
  <2>2. CASE sendingDisabled
    <3>1. Outstanding' = Outstanding
      BY <1>0, <2>1, <2>2 DEF Outstanding, UnderWay
    <3> QED
      BY <1>0, <2>1, <2>2, <3>1 DEF Pending
  <2>3. CASE ~sendingDisabled
    <3>1. Outstanding' = Outstanding \cup {s} /\ s \notin Outstanding
      BY <1>0, <2>1, <2>3 DEF Outstanding, UnderWay
    <3>2. Cardinality(Outstanding') = Cardinality(Outstanding) + 1
      BY <1>0, <3>1, ServicesCount
    <3>3. Outstanding' \in SUBSET Services
      BY <1>0, <3>1
    <3>4. Cardinality(Outstanding') \in 0..9
      BY <3>3, ServicesFew
    <3> QED
      BY <1>0, <1>a, <1>b, <2>1, <2>3, <3>2, <3>4 DEF Pending
  <2> QED
    BY <2>2, <2>3
<1>2. CASE Arm9Reply
  <2>1. PICK s \in Services :
          /\ state[s] = "fromArm9" /\ state' = [state EXCEPT ![s] = "idle"] /\ UNCHANGED buffer
          /\ CountAnswer
    BY <1>2, AnswerEffect
  <2>2. CASE latest_PXI_MC5_val = 0
    <3>1. buffer[s] = "cmd"
      BY <1>0, <2>1, <2>2 DEF UnderWay
    <3>2. Outstanding' = Outstanding \ {s} /\ s \in Outstanding
      BY <2>1, <3>1 DEF Outstanding
    <3>3. Cardinality(Outstanding') = Cardinality(Outstanding) - 1 /\ Cardinality(Outstanding) > 0
      BY <1>0, <3>2, ServicesCount
    <3>4. pendingArm9Commands' = (pendingArm9Commands - 1) % Word
      BY <2>1, <2>2 DEF CountAnswer
    <3> QED
      BY <1>0, <1>a, <1>b, <3>3, <3>4 DEF Pending
  <2>3. CASE latest_PXI_MC5_val # 0
    <3>1. buffer[s] \in Switches
      BY <1>0, <2>1, <2>3 DEF UnderWay, Switches
    <3>2. Outstanding' = Outstanding
      BY <2>1, <3>1 DEF Outstanding, Switches
    <3>3. pendingArm9Commands' = pendingArm9Commands
      BY <2>1, <2>3 DEF CountAnswer, mc5
    <3> QED
      BY <1>0, <3>2, <3>3 DEF Pending
  <2> QED
    BY <2>2, <2>3
<1>3. ASSUME NEW s \in Services, CommandReceived(s)
      PROVE  Pending'
  <2>1. Outstanding' = Outstanding
    BY <1>3, CommandEffect DEF Outstanding, Fresh
  <2> QED
    BY <1>0, <1>3, <2>1, CommandEffect DEF Pending
<1>4. CASE ReceiveFromArm9
  <2>1. Outstanding' = Outstanding
    BY <1>4, ReceiveEffect DEF Outstanding
  <2> QED
    BY <1>0, <1>4, <2>1, ReceiveEffect DEF Pending, mc5
<1>5. CASE TellSender
  BY <1>0, <1>5 DEF TellSender, ReceiverOnly, Pending, Outstanding, mc5
<1>6. CASE ~SendToArm9 /\ ~Arm9Reply /\ ~ReceiveFromArm9 /\ ~TellSender
           /\ \A s \in Services : ~CommandReceived(s)
  <2>1. Outstanding' = Outstanding
    BY <1>6, OtherSteps DEF Outstanding
  <2> QED
    BY <1>0, <1>6, <2>1, OtherSteps DEF Pending, mc5
<1> QED
  BY <1>1, <1>2, <1>3, <1>4, <1>5, <1>6

(* A message is about the command in the buffer of its session.            *)
LEMMA CarriedNext ==
  ASSUME AtWork, ~shouldTerminate', [Next]_vars
  PROVE  Carried'
<1> USE ServicesTyped, AtWorkTyped, InvTyped DEF AtWork
<1>0. Carried
  BY DEF WorkInv
<1>a. ASSUME \A t \in Services : toArm9'[t] = toArm9[t] /\ buffer'[t] = buffer[t],
             UNCHANGED fromArm9
      PROVE  Carried'
  BY <1>0, <1>a DEF Carried
<1>1. CASE UNCHANGED vars
  BY <1>1, <1>a DEF vars, sessions, link
<1>2. CASE SenderStep
  <2>1. CASE TransmitCommand
    <3>1. PICK s : s = sender.at
      OBVIOUS
    <3>2. s \in Services /\ Sending(s)
      BY <2>1, <3>1 DEF TransmitCommand, Sender, SenderOK, Sending
    <3>3. toArm9[s] = <<>>
      BY <3>2 DEF Travelling
    <3>4. PICK m : m = buffer[s]
      OBVIOUS
    <3>5. /\ toArm9' = [toArm9 EXCEPT ![s] = <<m>>] /\ UNCHANGED <<fromArm9, buffer>>
      BY <2>1, <3>1, <3>3, <3>4 DEF TransmitCommand, Transmit, sessions
    <3>6. \A i \in DOMAIN <<m>> : <<m>>[i] = m
      OBVIOUS
    <3> QED
      BY <1>0, <3>2, <3>4, <3>5, <3>6 DEF Carried
  <2>2. ASSUME NEW s \in Services, CommandReceived(s)
        PROVE  Carried'
    <3>1. /\ state[s] = "idle" /\ buffer' = [buffer EXCEPT ![s] = client[s].kind]
          /\ UNCHANGED link
      BY <2>2, CommandEffect DEF Fresh
    <3>2. toArm9[s] = <<>> /\ \A i \in DOMAIN fromArm9 : fromArm9[i].to # s
      BY <3>1 DEF Travelling
    <3>3. DOMAIN toArm9[s] = {}
      BY <3>2
    <3> QED
      BY <1>0, <3>1, <3>2, <3>3 DEF Carried, link
  <2>3. CASE ~TransmitCommand /\ \A s \in Services : ~CommandReceived(s)
    <3>1. UNCHANGED <<link, buffer>>
      BY <1>2, <2>3 DEF SenderStep, SendToArm9, AcquireTransfer, Listen, Reply, ReplyFailed,
         SessionClosed, TerminationRequested, SendAllBuffers, Arm9Reply, CloseSession, sessions
    <3> QED
      BY <1>a, <3>1 DEF link
  <2> QED
    BY <2>1, <2>2, <2>3
<1>3. CASE MainStep
  <2>1. UNCHANGED <<link, buffer>>
    BY <1>3, NoEndYet DEF MainStep, Terminate, AcceptSession, EnterSession, MainOnly, sessions
  <2> QED
    BY <1>a, <2>1 DEF link
<1>4. CASE ReceiverStep
  <2>1. CASE ReceiveFromArm9
    <3>1. /\ fromArm9 # <<>> /\ fromArm9' = Tail(fromArm9) /\ UNCHANGED toArm9
          /\ \A t \in Services : buffer'[t] = buffer[t]
      BY <2>1, ReceiveEffect
    <3>2. \A i \in DOMAIN Tail(fromArm9) :
            i + 1 \in DOMAIN fromArm9 /\ Tail(fromArm9)[i] = fromArm9[i + 1]
      BY <3>1, HeadTail
    <3> QED
      BY <1>0, <3>1, <3>2 DEF Carried
  <2>2. CASE ~ReceiveFromArm9
    <3>1. UNCHANGED <<buffer, toArm9, fromArm9>>
      BY <1>4, <2>2 DEF ReceiverStep, ReceiverStarts, WaitForArm9, FIFOEmpty, TellThreads,
         TellSender, TellHandler, WaitReplySent, ReceiverOnly
    <3> QED
      BY <1>a, <3>1
  <2> QED
    BY <2>1, <2>2
<1>5. CASE HandlerStep
  <2>1. /\ \A t \in Services : toArm9'[t] = toArm9[t]
        /\ UNCHANGED <<buffer, fromArm9>>
    BY <1>5 DEF HandlerStep, HandlerStarts, HandleSrv11Command, HandlerAcquire,
       HandlerTransmit,
       HandlerEnds, HandlerOnly, Transmit
  <2> QED
    BY <1>a, <2>1
<1>6. ASSUME NEW s \in All, Arm9Sends(s)
      PROVE  Carried'
  <2>1. /\ toArm9[s] # <<>> /\ toArm9[s] \in Seq(Messages)
        /\ toArm9' = [toArm9 EXCEPT ![s] = Tail(@)] /\ UNCHANGED buffer
    BY <1>6, SendsOne DEF sessions
  <2>2. PICK m \in Messages : m = Head(toArm9[s])
    BY <2>1, HeadTail
  <2>3. 1 \in DOMAIN toArm9[s] /\ m = toArm9[s][1]
    BY <2>1, <2>2, HeadTail
  <2>4. fromArm9' = Append(fromArm9, [to |-> s, message |-> m])
    BY <1>6, <2>2 DEF Arm9Sends
  <2>5. \A i \in DOMAIN fromArm9' :
          \/ i \in DOMAIN fromArm9 /\ fromArm9'[i] = fromArm9[i]
          \/ fromArm9'[i] = [to |-> s, message |-> m]
    BY <2>4
  <2>6. \A i \in DOMAIN Tail(toArm9[s]) :
          i + 1 \in DOMAIN toArm9[s] /\ Tail(toArm9[s])[i] = toArm9[s][i + 1]
    BY <2>1, HeadTail
  <2>7. s \in Services => m = buffer[s]
    BY <1>0, <2>3 DEF Carried
  <2>8. ASSUME NEW t \in Services
        PROVE  \A i \in DOMAIN toArm9'[t] : toArm9'[t][i] = buffer[t]
    <3>1. CASE t = s
      BY <1>0, <2>1, <2>6, <3>1 DEF Carried
    <3>2. CASE t # s
      BY <1>0, <2>1, <3>2 DEF Carried
    <3> QED
      BY <3>1, <3>2
  <2>9. ASSUME NEW t \in Services, NEW i \in DOMAIN fromArm9', fromArm9'[i].to = t
        PROVE  fromArm9'[i].message = buffer[t]
    BY <1>0, <2>5, <2>7, <2>9 DEF Carried
  <2> QED
    BY <2>1, <2>8, <2>9 DEF Carried
<1>7. CASE \E s \in Services : Connect(s) \/ SendCommand(s) \/ Leave(s)
  <2>1. UNCHANGED <<link, buffer>>
    BY <1>7 DEF Connect, SendCommand, Leave, Environment, sessions
  <2> QED
    BY <1>a, <2>1 DEF link
<1> QED
  BY <1>1, <1>2, <1>3, <1>4, <1>5, <1>6, <1>7 DEF Next

(* Sessions that stay where they are, but for one whose client is not      *)
(* waiting after the step.                                                 *)
LEMMA SwitchStays ==
  ASSUME AtWork, UNCHANGED <<latest_PXI_MC5_val, sendingDisabled>>,
         \A t \in Services : /\ state'[t] = "idle" <=> state[t] = "idle"
                             /\ buffer'[t] = buffer[t]
                             /\ \/ client'[t].at # "waiting"
                                \/ client'[t] = client[t] /\ (Returning(t) => Returning(t)')
  PROVE  SwitchInv'
<1> USE ServicesTyped DEF AtWork
<1>0. OnlyMcSwitches /\ Alone /\ FreshAgrees /\ UnderWay
  BY DEF WorkInv, SwitchInv
<1>1. OnlyMcSwitches'
  BY <1>0 DEF OnlyMcSwitches
<1>2. Mc \in Services
  BY ServicesAssumption
<1>3. Switching' => Switching
  BY <1>2 DEF Switching
<1>4. Alone'
  BY <1>0, <1>3 DEF Alone, Busy
<1>5. FreshAgrees'
  BY <1>0 DEF FreshAgrees, Fresh
<1>6. UnderWay'
  BY <1>0 DEF UnderWay
<1> QED
  BY <1>1, <1>4, <1>5, <1>6 DEF SwitchInv

(* A client sends a command.                                               *)
LEMMA SwitchAsked ==
  ASSUME AtWork, Orderly, NEW s \in Services, SendCommand(s)
  PROVE  SwitchInv'
<1> USE ServicesTyped, AtWorkTyped, InvTyped DEF AtWork
<1>0. OnlyMcSwitches /\ Alone /\ FreshAgrees /\ UnderWay
  BY DEF WorkInv, SwitchInv
<1>m. Mc \in Services
  BY ServicesAssumption
<1>1. PICK kind \in Kinds(s) :
        /\ MayBeSent(s, kind) /\ client[s].at = "idle"
        /\ client' = [client EXCEPT ![s].at = "waiting", ![s].kind = kind]
  BY DEF SendCommand
<1>2. UNCHANGED <<state, buffer, latest_PXI_MC5_val, sendingDisabled, sender>>
  BY DEF SendCommand, Environment, sessions, mc5
<1>3. kind \in Commands /\ (s # Mc => kind = "cmd")
  BY ServicesAssumption DEF Kinds, Commands
<1>4. /\ client'[s].at = "waiting" /\ client'[s].kind = kind
      /\ \A t \in Services \ {s} : client'[t] = client[t]
  BY <1>1 DEF Clients
<1>5. state[s] = "idle" /\ ~Returning(s)
  BY <1>1 DEF Serving
<1>6. kind = "cmd" => ~sendingDisabled /\ ~Switching
  BY <1>1 DEF MayBeSent
<1>7. kind # "cmd" => \A t \in Services : ~Busy(t)
  BY <1>1 DEF MayBeSent
<1>8. (kind = "enable" <=> sendingDisabled)
  BY <1>1, <1>3, <1>6 DEF MayBeSent, Commands
<1>a. OnlyMcSwitches'
  BY <1>0, <1>2, <1>3, <1>4 DEF OnlyMcSwitches
<1>b. Alone'
  <2>1. CASE kind = "cmd"
    <3>1. Switching' => Switching
      BY <1>2, <1>4, <2>1, <1>m DEF Switching
    <3> QED
      BY <1>6, <2>1, <3>1 DEF Alone
  <2>2. CASE kind # "cmd"
    BY <1>2, <1>3, <1>4, <1>7, <2>2 DEF Alone, Busy
  <2> QED
    BY <2>1, <2>2
<1>c. FreshAgrees'
  <2>1. ASSUME NEW t \in Services, Fresh(t)'
        PROVE  client'[t].kind = "enable" <=> sendingDisabled
    <3>1. CASE t = s
      BY <1>4, <1>8, <3>1
    <3>2. CASE t # s
      BY <1>0, <1>2, <1>4, <2>1, <3>2 DEF FreshAgrees, Fresh, Returning
    <3> QED
      BY <3>1, <3>2
  <2> QED
    BY <1>2, <2>1 DEF FreshAgrees
<1>d. UnderWay'
  BY <1>0, <1>2 DEF UnderWay
<1> QED
  BY <1>a, <1>b, <1>c, <1>d DEF SwitchInv

(* The sender takes a command: the flags say what it is.                   *)
LEMMA SwitchTaken ==
  ASSUME AtWork, NEW s \in Services, CommandReceived(s)
  PROVE  SwitchInv'
<1> USE ServicesTyped, AtWorkTyped, InvTyped DEF AtWork
<1>0. OnlyMcSwitches /\ Alone /\ FreshAgrees /\ UnderWay
  BY DEF WorkInv, SwitchInv
<1>m. Mc \in Services
  BY ServicesAssumption
<1>1. PICK kind \in Commands :
        /\ kind = client[s].kind /\ NoteCommand(kind)
        /\ buffer' = [buffer EXCEPT ![s] = kind] /\ state' = [state EXCEPT ![s] = "fromArm11"]
  BY CommandEffect
<1>2. Fresh(s) /\ sender.pc = "wait" /\ sender'.replyTarget = None /\ UNCHANGED client
  BY CommandEffect DEF ports
<1>3. /\ state[s] = "idle" /\ client[s].at = "waiting" /\ (kind = "enable" <=> sendingDisabled)
      /\ s # Mc => kind = "cmd"
  BY <1>0, <1>1, <1>2 DEF Fresh, FreshAgrees, OnlyMcSwitches
<1>4. /\ state'[s] = "fromArm11" /\ buffer'[s] = kind
      /\ \A t \in Services \ {s} : state'[t] = state[t] /\ buffer'[t] = buffer[t]
  BY <1>1
<1>5. Switching => \A t \in Services \ {Mc} : ~Busy(t)
  BY <1>0 DEF Alone
<1>6. kind # "cmd" => Switching /\ s = Mc
  BY <1>1, <1>3 DEF Switching, Commands
<1>7. kind = "cmd" /\ s # Mc => ~Switching
  BY <1>3, <1>5 DEF Busy
<1>8. Switching' => Switching
  BY <1>1, <1>2, <1>3, <1>4, <1>m DEF Switching
<1>a. OnlyMcSwitches'
  BY <1>0, <1>2, <1>3, <1>4 DEF OnlyMcSwitches
<1>b. Alone'
  BY <1>2, <1>4, <1>5, <1>7, <1>8, <1>3 DEF Alone, Busy
<1>c. FreshAgrees'
  <2>1. ASSUME NEW t \in Services, Fresh(t)'
        PROVE  client'[t].kind = "enable" <=> sendingDisabled'
    <3>1. t # s /\ Fresh(t)
      BY <1>2, <1>4, <2>1 DEF Fresh, Returning
    <3>2. Busy(t)
      BY <3>1 DEF Fresh, Busy
    <3>3. kind = "cmd"
      BY <1>5, <1>6, <3>1, <3>2
    <3>4. sendingDisabled' = sendingDisabled
      BY <1>1, <3>3 DEF NoteCommand
    <3> QED
      BY <1>0, <1>2, <3>1, <3>4 DEF FreshAgrees
  <2> QED
    BY <2>1 DEF FreshAgrees
<1>d. UnderWay'
  <2>1. ASSUME NEW t \in Services, state'[t] # "idle"
        PROVE  \/ buffer'[t] = "cmd" /\ ~sendingDisabled' /\ latest_PXI_MC5_val' = 0
               \/ buffer'[t] = "disable" /\ sendingDisabled' /\ latest_PXI_MC5_val' = 1
               \/ buffer'[t] = "enable" /\ sendingDisabled' /\ latest_PXI_MC5_val' = 2
    <3>1. CASE t = s
      <4>1. CASE kind = "cmd"
        BY <1>1, <1>3, <1>4, <3>1, <4>1 DEF NoteCommand
      <4>2. CASE kind = "disable"
        BY <1>1, <1>4, <3>1, <4>2 DEF NoteCommand
      <4>3. CASE kind = "enable"
        BY <1>1, <1>3, <1>4, <3>1, <4>3 DEF NoteCommand
      <4> QED
        BY <4>1, <4>2, <4>3 DEF Commands
    <3>2. CASE t # s
      <4>1. state[t] # "idle" /\ Busy(t) /\ buffer'[t] = buffer[t]
        BY <1>4, <2>1, <3>2 DEF Busy
      <4>2. kind = "cmd"
        BY <1>5, <1>6, <3>2, <4>1
      <4>3. buffer[t] = "cmd"
        <5>1. CASE t = Mc
          <6>1. ~Switching
            BY <1>7, <3>2, <4>2, <5>1
          <6> QED
            BY <1>0, <4>1, <5>1, <6>1 DEF Switching, UnderWay
        <5>2. CASE t # Mc
          BY <1>0, <4>1, <5>2 DEF OnlyMcSwitches
        <5> QED
          BY <5>1, <5>2
      <4>4. latest_PXI_MC5_val' = 0 /\ sendingDisabled' = sendingDisabled
        BY <1>1, <4>2 DEF NoteCommand
      <4> QED
        BY <1>0, <4>1, <4>3, <4>4 DEF UnderWay
    <3> QED
      BY <3>1, <3>2
  <2> QED
    BY <2>1 DEF UnderWay
<1> QED
  BY <1>a, <1>b, <1>c, <1>d DEF SwitchInv

(* The sender takes an answer.                                             *)
LEMMA SwitchAnswered ==
  ASSUME AtWork, Arm9Reply
  PROVE  SwitchInv'
<1> USE ServicesTyped, AtWorkTyped, InvTyped DEF AtWork
<1>0. OnlyMcSwitches /\ Alone /\ FreshAgrees /\ UnderWay
  BY DEF WorkInv, SwitchInv
<1>m. Mc \in Services
  BY ServicesAssumption
<1>1. PICK s \in Services :
        /\ state[s] = "fromArm9" /\ state' = [state EXCEPT ![s] = "idle"]
        /\ sender.pc = "wait" /\ sender'.pc = "top" /\ sender'.replyTarget = s
        /\ CountAnswer /\ UNCHANGED <<buffer, client>>
  BY AnswerEffect DEF ports
<1>2. state'[s] = "idle" /\ \A t \in Services \ {s} : state'[t] = state[t]
  BY <1>1
<1>3. Returning(s)'
  BY <1>1 DEF Returning
<1>4. Switching' => Switching
  BY <1>1, <1>2, <1>m DEF Switching
<1>5. \/ UNCHANGED <<latest_PXI_MC5_val, sendingDisabled>>
      \/ /\ UNCHANGED latest_PXI_MC5_val /\ \A t \in Services \ {s} : ~Busy(t)
  <2>1. CASE latest_PXI_MC5_val = 2
    <3>1. buffer[s] = "enable"
      BY <1>0, <1>1, <2>1 DEF UnderWay
    <3>2. s = Mc
      BY <1>0, <1>1, <3>1 DEF OnlyMcSwitches
    <3>3. Switching
      BY <1>1, <3>1, <3>2 DEF Switching
    <3> QED
      BY <1>0, <1>1, <2>1, <3>2, <3>3 DEF Alone, CountAnswer
  <2>2. CASE latest_PXI_MC5_val # 2
    BY <1>1, <2>2 DEF CountAnswer, mc5
  <2> QED
    BY <2>1, <2>2
<1>a. OnlyMcSwitches'
  BY <1>0, <1>1, <1>2 DEF OnlyMcSwitches
<1>b. Alone'
  BY <1>0, <1>1, <1>2, <1>4 DEF Alone, Busy
<1>c. FreshAgrees'
  <2>1. ASSUME NEW t \in Services, Fresh(t)'
        PROVE  client'[t].kind = "enable" <=> sendingDisabled'
    <3>1. t # s
      BY <1>3, <2>1 DEF Fresh
    <3>2. Fresh(t) /\ Busy(t)
      BY <1>1, <1>2, <2>1, <3>1 DEF Fresh, Busy, Returning
    <3> QED
      BY <1>0, <1>1, <1>5, <3>1, <3>2 DEF FreshAgrees
  <2> QED
    BY <2>1 DEF FreshAgrees
<1>d. UnderWay'
  BY <1>0, <1>1, <1>2, <1>5 DEF UnderWay, Busy
<1> QED
  BY <1>a, <1>b, <1>c, <1>d DEF SwitchInv

(* Every step.                                                             *)
LEMMA SwitchNext ==
  ASSUME AtWork, Orderly, ~shouldTerminate', [Next]_vars
  PROVE  SwitchInv'
<1> USE ServicesTyped, AtWorkTyped, InvTyped DEF AtWork
<1>a. ASSUME UNCHANGED <<latest_PXI_MC5_val, sendingDisabled, client>>,
             \A t \in Services : /\ state'[t] = "idle" <=> state[t] = "idle"
                                 /\ buffer'[t] = buffer[t]
                                 /\ Returning(t) => Returning(t)'
      PROVE  SwitchInv'
  BY <1>a, SwitchStays
<1>1. CASE SendToArm9
  <2>1. PICK s \in Services :
          /\ state[s] = "fromArm11" /\ state' = [state EXCEPT ![s] = "sent"]
          /\ sender.replyTarget = None
          /\ UNCHANGED <<buffer, latest_PXI_MC5_val, sendingDisabled, client>>
    BY <1>1, SendEffect DEF ports
  <2> QED
    BY <2>1, <1>a DEF Returning
<1>2. CASE Arm9Reply
  BY <1>2, SwitchAnswered
<1>3. ASSUME NEW s \in Services, CommandReceived(s)
      PROVE  SwitchInv'
  BY <1>3, SwitchTaken
<1>4. CASE ReceiveFromArm9
  <2>1. PICK s \in All : state[s] = "sent" /\ state' = [state EXCEPT ![s] = "fromArm9"]
    BY <1>4, ReceiveEffect
  <2>2. /\ UNCHANGED <<latest_PXI_MC5_val, sendingDisabled, client, sender>>
        /\ \A t \in Services : buffer'[t] = buffer[t]
    BY <1>4, ReceiveEffect DEF mc5, ports
  <2> QED
    BY <2>1, <2>2, <1>a DEF Returning
<1>5. ASSUME NEW s \in Services, SendCommand(s)
      PROVE  SwitchInv'
  BY <1>5, SwitchAsked
<1>6. CASE ~SendToArm9 /\ ~Arm9Reply /\ ~ReceiveFromArm9 /\ ~TellSender
           /\ \A s \in Services : ~CommandReceived(s) /\ ~SendCommand(s)
  <2>1. /\ \A t \in Services : state'[t] = state[t] /\ buffer'[t] = buffer[t]
        /\ UNCHANGED <<latest_PXI_MC5_val, sendingDisabled>>
    BY <1>6, OtherSteps DEF mc5
  <2>2. CASE UNCHANGED <<client, sender>>
    BY <2>1, <2>2, <1>a DEF Returning
  <2>3. ASSUME NEW s \in Services, client' = [client EXCEPT ![s] = client'[s]],
               client'[s].at # "waiting", \A t \in Services \ {s} : Returning(t) => Returning(t)'
        PROVE  SwitchInv'
    BY <2>1, <2>3, SwitchStays
  <2>4. CASE UNCHANGED vars
    BY <2>2, <2>4 DEF vars, ports
  <2>5. CASE SenderStep
    <3>1. CASE AcquireTransfer \/ TransmitCommand \/ SendAllBuffers
      <4>1. UNCHANGED client /\ \A t \in Services : ~Returning(t)
        BY <3>1 DEF AcquireTransfer, TransmitCommand, SendAllBuffers, Sender, Returning, ports
      <4> QED
        BY <2>1, <4>1, <1>a
    <3>2. CASE Listen
      <4>1. UNCHANGED client /\ sender'.replyTarget = sender.replyTarget
            /\ (sender.replyTarget # None => sender'.pc = "reply")
        BY <3>2 DEF Listen, ports, Senders
      <4> QED
        BY <2>1, <4>1, <1>a DEF Returning
    <3>3. CASE Reply
      <4>1. PICK s \in Services : s = sender.replyTarget
        BY <3>3 DEF Reply, Sender, SenderOK
      <4>2. Returning(s)
        BY <3>3, <4>1 DEF Reply, Sender, Returning
      <4>3. client[s].at = "waiting"
        BY <3>3, <4>1, <4>2 DEF Reply, Serving
      <4>4. client' = [client EXCEPT ![s] = [at |-> "idle", kind |-> None]]
        BY <3>3, <4>1, <4>3 DEF Reply
      <4>5. \A t \in Services \ {s} : ~Returning(t)
        BY <4>1 DEF Returning
      <4> QED
        BY <4>4, <4>5, <2>3
    <3>4. CASE ReplyFailed
      <4>1. PICK s \in Services : s = sender.replyTarget
        BY <3>4 DEF ReplyFailed, Sender, SenderOK
      <4>2. client' = [client EXCEPT ![s] = NoClient]
        BY <3>4, <4>1 DEF ReplyFailed, CloseSession
      <4>3. \A t \in Services \ {s} : ~Returning(t)
        BY <4>1 DEF Returning
      <4> QED
        BY <4>2, <4>3, <2>3 DEF NoClient
    <3>5. ASSUME NEW s \in Services, SessionClosed(s)
          PROVE  SwitchInv'
      <4>1. client' = [client EXCEPT ![s] = NoClient] /\ \A t \in Services \ {s} : ~Returning(t)
        BY <3>5 DEF SessionClosed, CloseSession, Sender, Returning
      <4> QED
        BY <4>1, <2>3 DEF NoClient
    <3> QED
      BY <1>6, <2>5, <3>1, <3>2, <3>3, <3>4, <3>5, NoEndYet DEF SenderStep
  <2>6. CASE MainStep
    BY <2>2, <2>6, NoEndYet DEF MainStep, Terminate, AcceptSession, EnterSession, ports
  <2>7. CASE ReceiverStep
    BY <1>6, <2>2, <2>7 DEF ReceiverStep, ReceiverOnly, ReceiverStarts, WaitForArm9, FIFOEmpty,
       TellThreads, TellHandler, WaitReplySent, ports
  <2>8. CASE HandlerStep
    BY <2>2, <2>8 DEF HandlerStep, HandlerOnly, HandlerStarts, HandleSrv11Command,
       HandlerAcquire, HandlerTransmit, HandlerEnds, ports
  <2>9. ASSUME NEW s \in All, Arm9Sends(s)
        PROVE  SwitchInv'
    BY <2>2, <2>9 DEF Arm9Sends, Environment, ports
  <2>10. ASSUME NEW s \in Services, Connect(s) \/ Leave(s)
         PROVE  SwitchInv'
    <3>1. PICK at : at # "waiting" /\ (\/ client' = [client EXCEPT ![s].at = at]
                                       \/ client' = [client EXCEPT ![s].at = at, ![s].kind = None])
      BY <2>10 DEF Connect, Leave
    <3>2. client' = [client EXCEPT ![s] = client'[s]] /\ client'[s].at # "waiting"
      BY <3>1 DEF Clients
    <3>3. UNCHANGED sender
      BY <2>10 DEF Connect, Leave, Environment
    <3> QED
      BY <3>2, <3>3, <2>3 DEF Returning
  <2> QED
    BY <1>6, <2>4, <2>5, <2>6, <2>7, <2>8, <2>9, <2>10 DEF Next
<1>7. CASE TellSender
  BY <1>7, <1>a DEF TellSender, ReceiverOnly, mc5, ports, Returning
<1> QED
  BY <1>1, <1>2, <1>3, <1>4, <1>5, <1>6, <1>7

(* At first nothing is at work.                                            *)
LEMMA WorkInit == Init => WorkInv
<1> SUFFICES ASSUME Init PROVE WorkInv
  OBVIOUS
<1> USE ServicesTyped
<1>1. \A s \in Services : /\ state[s] = "idle" /\ client[s] = NoClient /\ toArm9[s] = <<>>
  BY DEF Init
<1>2. fromArm9 = <<>> /\ Mc \in Services
  BY ServicesAssumption DEF Init
<1>3. NeverPanics /\ Srv11Inv
  BY DEF Init, NeverPanics, Srv11Inv
<1>4. Answered = {} /\ Outstanding = {} /\ Told = 0
  BY <1>1 DEF Init, Answered, Outstanding, Told
<1>5. Counted /\ Pending
  BY <1>4, FS_EmptySet DEF Init, Counted, Pending
<1>6. Carried
  BY <1>1, <1>2 DEF Carried
<1>7. SwitchInv
  BY <1>1, <1>2 DEF SwitchInv, OnlyMcSwitches, Alone, FreshAgrees, Fresh, UnderWay, Switching,
                    NoClient
<1> QED
  BY <1>3, <1>5, <1>6, <1>7 DEF WorkInv

-----------------------------------------------------------------------------
(* The results                                                             *)

(* pxi implements remote procedure calls: whatever clients, the ARM9 and   *)
(* the four threads do in between, a call is forwarded once and returns    *)
(* once, to its caller, and a session is not given away before.            *)
THEOREM Refinement == Spec => ImplementsCalls
<1> DEFINE call == [s \in Services |-> [phase |-> Phase(s), alive |-> client[s].at \in {"idle", "waiting"}]]
<1>1. Init => AsCalls!Init
  BY InitOfCalls
<1>2. Inv /\ [Next]_vars => AsCalls!Next \/ UNCHANGED <<call, shouldTerminate>>
  <2> SUFFICES ASSUME Inv, [Next]_vars
               PROVE  AsCalls!Next \/ UNCHANGED <<call, shouldTerminate>>
    OBVIOUS
  <2>1. CASE shouldTerminate'
    BY <2>1, EndOfCalls DEF AsCalls!Next
  <2>2. CASE ~shouldTerminate'
    <3>1. ~shouldTerminate
      BY <2>2, StaysTold
    <3>2. shouldTerminate \in BOOLEAN /\ shouldTerminate' \in BOOLEAN
      BY TypeNext DEF Inv, TypeInv, EndingOK
    <3> QED
      BY <2>2, <3>1, <3>2, CallsNext, StepOfCalls
  <2> QED
    BY <2>1, <2>2
<1> QED
  BY <1>1, <1>2, Invariance, PTL DEF Spec, ImplementsCalls, AsCalls!Spec

(* Every variable has its type, the count of commands in the width of its  *)
(* word and the number of answers within the semaphore's maximum included. *)
THEOREM TypeCorrect == Spec => []TypeOK
<1>1. TypeInv => TypeOK
  BY DEF TypeInv, TypeOK, SessionsOK, BuffersOK, Mc5OK, SignalsOK, LinkOK, SenderOK, Senders,
         MutexOK
<1> QED
  BY <1>1, TypeInvariance, PTL

(* No static buffer is lost or given to the kernel while a command uses    *)
(* it, whatever each service needs and however few there are.              *)
THEOREM BuffersAreOwnedOnce == Spec => []BuffersOwnedOnce
<1>1. TypeInv /\ BuffersInv /\ [Next]_vars => BuffersInv'
  BY BuffersNext
<1>2. BuffersInv => BuffersOwnedOnce
  BY DEF BuffersInv
<1> QED
  BY <1>1, <1>2, BuffersInit, TypeInvariance, PTL DEF Spec

\* Until pxi is told to terminate, none of its assertions fails, and it knows
\* how many commands are out (sender.c:187, 212; receiver.c:20, 45, 51).
ServesSoundly == ~shouldTerminate => NeverPanics /\ PendingExact

(* While pxi:mc 5 is used with no call pending, and until pxi is told to   *)
(* terminate, no assertion fails, and pendingArm9Commands is the number of *)
(* commands that are out: for any services, clients that come and go, and  *)
(* interleavings of the threads with the ARM9.                             *)
THEOREM SoundService ==
  ASSUME Orderly
  PROVE  Spec => []ServesSoundly
<1>1. Init => (~shouldTerminate => WorkInv)
  BY WorkInit
<1>2. Inv /\ (~shouldTerminate => WorkInv) /\ [Next]_vars => (~shouldTerminate => WorkInv)'
  <2> SUFFICES ASSUME Inv, ~shouldTerminate => WorkInv, [Next]_vars, ~shouldTerminate'
               PROVE  WorkInv'
    OBVIOUS
  <2>1. AtWork
    BY StaysTold DEF AtWork
  <2> QED
    BY <2>1, NoPanic, Srv11Next, CountedNext, PendingNext, CarriedNext, SwitchNext
    DEF WorkInv, NeverPanics
<1>3. (~shouldTerminate => WorkInv) => ServesSoundly
  BY DEF ServesSoundly, WorkInv, Pending, PendingExact
<1> QED
  BY <1>1, <1>2, <1>3, Invariance, PTL DEF Spec
=============================================================================
