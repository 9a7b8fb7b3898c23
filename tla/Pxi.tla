--------------------------------- MODULE Pxi --------------------------------
(***************************************************************************)
(* pxi (sysmodules/pxi/source): the commands of ARM11 processes go to the  *)
(* ARM9 and its answers back.  Four threads: main accepts sessions, the    *)
(* sender owns their states, the receiver takes what the ARM9 sends, and a *)
(* handler serves the one service (PXISRV11) where the ARM9 is the client. *)
(*                                                                         *)
(* A step is what a thread does between two calls at which it can wait.    *)
(* The sender holds senderLock except inside svcReplyAndReceive, here      *)
(* "reply" and "wait"; main takes it for one step.                         *)
(***************************************************************************)
EXTENDS Integers, FiniteSets, Sequences

CONSTANTS
  Services,          \* indices in sessionData of the services in use, of 0..8
  StaticBuffersOf,   \* nbStaticBuffersByService
  StaticBufferCount, \* NB_STATIC_BUFFERS
  Provided,          \* static buffers handed to the kernel at a time: 4
  Word,              \* 2^32: pendingArm9Commands is a u32
  McCommands,        \* what the client of pxi:mc sends: "cmd", "disable", "enable"
  Orderly,           \* pxi:mc 5 is used with no call pending, pxi is told to
                     \* terminate when pxi:mc has no client, and the ARM9's last
                     \* word is its answer to that
  None

Mc == 0
Srv11 == 9

ASSUME ServicesAssumption ==
  /\ Services \subseteq 0..8 /\ Mc \in Services /\ None \notin Services
  /\ McCommands \subseteq {"cmd", "disable", "enable"}
  /\ StaticBuffersOf \in [Services -> 0..Provided]
  /\ StaticBufferCount \in Nat /\ Provided \in Nat /\ Word \in Nat \ 0..9
  /\ Orderly \in BOOLEAN

VARIABLES
  state, buffer, handle, usedStaticBuffers,                    \* sessionData
  freeStaticBuffers, currentlyProvidedStaticBuffers,
  latest_PXI_MC5_val, pendingArm9Commands, sendingDisabled,
  sendAllBuffersToArm9Event, replySemaphore, terminationRequestedEvent,
  PXISRV11CommandReceivedEvent, PXISRV11ReplySentEvent, PXISyncInterrupt,
  PXITransferMutex,   \* its owner
  shouldTerminate,
  main, sender, receiver, handler,   \* where the threads are
  toArm9,             \* per service: what the ARM9 was sent and has not answered
  fromArm9,           \* the receive FIFO
  connecting,         \* per service: a session main has not accepted
  client,             \* per service: the client of the current session
  panicked            \* svcBreak(USERBREAK_PANIC): the line, or None

sessions == <<state, buffer, handle>>
buffers == <<freeStaticBuffers, currentlyProvidedStaticBuffers, usedStaticBuffers>>
mc5 == <<latest_PXI_MC5_val, pendingArm9Commands, sendingDisabled>>
srv11Events == <<PXISRV11CommandReceivedEvent, PXISRV11ReplySentEvent>>
link == <<toArm9, fromArm9, PXISyncInterrupt>>
ports == <<connecting, client>>
ending == <<shouldTerminate, terminationRequestedEvent, panicked>>
signals == <<sendAllBuffersToArm9Event, replySemaphore>>
vars == <<sessions, buffers, mc5, signals, srv11Events, link, ports, ending,
          PXITransferMutex, main, sender, receiver, handler>>

All == Services \cup {Srv11}
Least(S) == CHOOSE s \in S : \A t \in S : s <= t

\* A command, in a buffer or on its way, is named by its kind; so is its answer.
Kinds(s) == IF s = Mc THEN McCommands ELSE {"cmd"}
NoClient == [at |-> "none", kind |-> None]

Panic(line) == panicked' = line

-----------------------------------------------------------------------------
(* Static buffers: for each command the kernel stores data in the lowest of *)
(* those provided.                                                          *)

ClearMSBs(S, nb) == {b \in S : Cardinality({c \in S : c > b}) >= nb}

\* Mutant: the buffers are counted from one.
AcquireOneMore(free) ==
  /\ freeStaticBuffers' = ClearMSBs(free, Provided)
  /\ currentlyProvidedStaticBuffers' = {b + 1 : b \in free \ ClearMSBs(free, Provided)}

\* acquireStaticBuffers with the free buffers given.
AcquireStaticBuffers(free) ==
  /\ freeStaticBuffers' = ClearMSBs(free, Provided)
  /\ currentlyProvidedStaticBuffers' = free \ ClearMSBs(free, Provided)


\* The command of s keeps what its service may need of those provided.
KeepStaticBuffers(s) ==
  LET kept == ClearMSBs(currentlyProvidedStaticBuffers, Provided - StaticBuffersOf[s])
  IN  /\ usedStaticBuffers' = [usedStaticBuffers EXCEPT ![s] = kept]
      /\ AcquireStaticBuffers(freeStaticBuffers \cup
                                (currentlyProvidedStaticBuffers \ kept))

ReleaseStaticBuffers(s) ==
  LET rest == ClearMSBs(usedStaticBuffers[s], Provided)
  IN  /\ freeStaticBuffers' = freeStaticBuffers \cup (usedStaticBuffers[s] \ rest)
      /\ usedStaticBuffers' = [usedStaticBuffers EXCEPT ![s] = rest]
      /\ UNCHANGED currentlyProvidedStaticBuffers

AllBuffers == 0 .. StaticBufferCount - 1

Init ==
  /\ state = [s \in All |-> "idle"]
  /\ buffer = [s \in All |-> None]
  /\ handle = [s \in Services |-> FALSE]
  /\ usedStaticBuffers = [s \in Services |-> {}]
  /\ freeStaticBuffers = ClearMSBs(AllBuffers, Provided)
  /\ currentlyProvidedStaticBuffers = AllBuffers \ freeStaticBuffers
  /\ latest_PXI_MC5_val = 0
  /\ pendingArm9Commands = 0
  /\ sendingDisabled = FALSE
  /\ sendAllBuffersToArm9Event = FALSE
  /\ replySemaphore = 0
  /\ terminationRequestedEvent = FALSE
  /\ PXISRV11CommandReceivedEvent = FALSE
  /\ PXISRV11ReplySentEvent = FALSE
  /\ PXISyncInterrupt = FALSE
  /\ PXITransferMutex = None
  /\ shouldTerminate = FALSE
  /\ main = [pc |-> "accept", at |-> None]
  /\ sender = [pc |-> "top", at |-> None, replyTarget |-> None, watched |-> {}]
  /\ receiver = [pc |-> "start", at |-> None]
  /\ handler = "start"
  /\ toArm9 = [s \in All |-> IF s = Srv11 THEN <<"ready">> ELSE <<>>]
  /\ fromArm9 = <<>>
  /\ connecting = [s \in Services |-> FALSE]
  /\ client = [s \in Services |-> NoClient]
  /\ panicked = None

-----------------------------------------------------------------------------
(* sendPXICmdbuf, in two steps: the mutex, then the words.  With an          *)
(* additional handle a caller that cannot have the mutex at once gives up    *)
(* when termination is requested.                                            *)

TakeTransferMutex(owner) == PXITransferMutex = None /\ PXITransferMutex' = owner
Cancelled == PXITransferMutex # None /\ terminationRequestedEvent

Transmit(s, message) ==
  /\ PXITransferMutex' = None
  /\ toArm9' = [toArm9 EXCEPT ![s] = Append(@, message)]
  /\ UNCHANGED <<fromArm9, PXISyncInterrupt>>

-----------------------------------------------------------------------------
(* The sender *)

Sender(pc) == panicked = None /\ sender.pc = pc
SenderOnly == UNCHANGED <<srv11Events, shouldTerminate, terminationRequestedEvent,
                          main, receiver, handler>>

\* The commands the loop sends: while sending is disabled only after a
\* pxi:mc 5, and when the ARM9 has nothing to answer.
Sendable ==
  {s \in Services :
     /\ handle[s] /\ state[s] = "fromArm11"
     /\ sendingDisabled => pendingArm9Commands = 0 /\ latest_PXI_MC5_val # 0}

\* One turn of the loop over the sessions; the lowest goes first.
SendToArm9 ==
  /\ Sender("top") /\ sender.replyTarget = None /\ Sendable # {}
  /\ LET s == Least(Sendable)
     IN  /\ state' = [state EXCEPT ![s] = "sent"]
         /\ sender' = [sender EXCEPT !.pc = "acquire", !.at = s]
  /\ pendingArm9Commands' = IF sendingDisabled THEN pendingArm9Commands
                            ELSE (pendingArm9Commands + 1) % Word
  /\ SenderOnly
  /\ UNCHANGED <<buffer, handle, buffers, latest_PXI_MC5_val, sendingDisabled,
                 signals, link, ports, panicked, PXITransferMutex>>

AcquireTransfer ==
  /\ Sender("acquire")
  /\ IF Cancelled
       THEN /\ sender' = [sender EXCEPT !.pc = "terminate"]
            /\ UNCHANGED PXITransferMutex
       ELSE /\ TakeTransferMutex("sender")
            /\ sender' = [sender EXCEPT !.pc = "transmit"]
  /\ SenderOnly
  /\ UNCHANGED <<sessions, buffers, mc5, signals, link, ports, panicked>>

TransmitCommand ==
  /\ Sender("transmit")
  /\ Transmit(sender.at, buffer[sender.at])
  /\ sender' = [sender EXCEPT !.pc = "top"]
  /\ SenderOnly
  /\ UNCHANGED <<sessions, buffers, mc5, signals, ports, panicked>>

\* Mutant: sessions with a command under way are listened to as well.
ListenToAll ==
  /\ Sender("top") /\ (sender.replyTarget # None \/ Sendable = {})
  /\ sender' = [sender EXCEPT
       !.pc = IF sender.replyTarget = None THEN "wait" ELSE "reply",
       !.watched = {s \in Services : handle[s]}]
  /\ SenderOnly
  /\ UNCHANGED <<sessions, buffers, mc5, signals, link, ports, panicked,
                 PXITransferMutex>>

\* The handles of the idle sessions are collected; senderLock is given back.
Listen ==
  /\ Sender("top") /\ (sender.replyTarget # None \/ Sendable = {})
  /\ sender' = [sender EXCEPT
       !.pc = IF sender.replyTarget = None THEN "wait" ELSE "reply",
       !.watched = {s \in Services : handle[s] /\ state[s] = "idle"}]
  /\ SenderOnly
  /\ UNCHANGED <<sessions, buffers, mc5, signals, link, ports, panicked,
                 PXITransferMutex>>

\* svcReplyAndReceive replies, which fails if nothing was asked ...
Reply ==
  LET s == sender.replyTarget
  IN  /\ Sender("reply") /\ client[s].at # "gone"
      /\ IF client[s].at = "waiting"
           THEN /\ client' = [client EXCEPT ![s] = [at |-> "idle", kind |-> None]]
                /\ sender' = [sender EXCEPT !.pc = "wait"]
                /\ UNCHANGED panicked
           ELSE Panic("sender.c:165") /\ UNCHANGED <<client, sender>>
      /\ SenderOnly
      /\ UNCHANGED <<sessions, buffers, mc5, signals, link, connecting,
                     PXITransferMutex>>

CloseSession(s) ==
  /\ handle' = [handle EXCEPT ![s] = FALSE]
  /\ client' = [client EXCEPT ![s] = NoClient]
  /\ sender' = [sender EXCEPT !.pc = "top", !.replyTarget = None]
  /\ SenderOnly
  /\ UNCHANGED <<state, buffer, buffers, mc5, signals, link, connecting, panicked,
                 PXITransferMutex>>

\* ... or returns -1: the client is gone.
ReplyFailed ==
  /\ Sender("reply")
  /\ client[sender.replyTarget].at = "gone"
  /\ CloseSession(sender.replyTarget)

\* ... and waits.  The lowest signalled handle wins.
Signalled(s) == s \in sender.watched /\ client[s].at \in {"waiting", "gone"}
Quiet(s) ==
  /\ ~terminationRequestedEvent /\ ~sendAllBuffersToArm9Event /\ replySemaphore = 0
  /\ \A t \in Services : t < s => ~Signalled(t)

SessionClosed(s) ==
  /\ Sender("wait") /\ Quiet(s)
  /\ s \in sender.watched /\ client[s].at = "gone"
  /\ CloseSession(s)

\* Index 0.  The sessions are closed, and the thread ends.
TerminationRequested ==
  /\ panicked = None
  /\ sender.pc = "terminate" \/ (sender.pc = "wait" /\ terminationRequestedEvent)
  /\ sender' = [sender EXCEPT !.pc = "ended", !.replyTarget = None]
  /\ client' = [s \in Services |-> IF handle[s] THEN NoClient ELSE client[s]]
  /\ SenderOnly
  /\ UNCHANGED <<sessions, buffers, mc5, signals, link, connecting, panicked,
                 PXITransferMutex>>

\* Index 1: main has accepted a session.
SendAllBuffers ==
  /\ Sender("wait") /\ ~terminationRequestedEvent /\ sendAllBuffersToArm9Event
  /\ sendAllBuffersToArm9Event' = FALSE
  /\ sender' = [sender EXCEPT !.pc = "top", !.replyTarget = None]
  /\ SenderOnly
  /\ UNCHANGED <<sessions, buffers, mc5, replySemaphore, link, ports, panicked,
                 PXITransferMutex>>

Answered == {s \in Services : state[s] = "fromArm9"}

\* What an answer does to the flags of pxi:mc 5.
CountAnswer ==
  CASE latest_PXI_MC5_val = 2 -> /\ sendingDisabled' = FALSE
                                 /\ UNCHANGED <<latest_PXI_MC5_val, pendingArm9Commands>>
    [] latest_PXI_MC5_val = 0 -> /\ pendingArm9Commands' = (pendingArm9Commands - 1) % Word
                                 /\ UNCHANGED <<latest_PXI_MC5_val, sendingDisabled>>
    [] OTHER -> UNCHANGED mc5

\* Index 2: the semaphore counts answers, and one of those there are is taken.
Arm9Reply ==
  /\ Sender("wait") /\ ~terminationRequestedEvent /\ ~sendAllBuffersToArm9Event
  /\ replySemaphore > 0
  /\ replySemaphore' = replySemaphore - 1
  /\ LET s == Least(Answered)
         fails == \/ Answered = {}
                  \/ latest_PXI_MC5_val = 2 /\ pendingArm9Commands # 0
     IN  IF fails
           THEN Panic("sender.c:187") /\ UNCHANGED <<state, buffers, mc5, sender>>
           ELSE /\ CountAnswer
                /\ ReleaseStaticBuffers(s)
                /\ state' = [state EXCEPT ![s] = "idle"]
                /\ sender' = [sender EXCEPT !.pc = "top",
                                !.replyTarget = IF handle[s] THEN s ELSE None]
                /\ UNCHANGED panicked
  /\ SenderOnly
  /\ UNCHANGED <<buffer, handle, sendAllBuffersToArm9Event, link, ports,
                 PXITransferMutex>>

\* What a command does to the flags of pxi:mc 5, which disables or enables
\* sending, and only in turn.
NoteCommand(kind) ==
  CASE kind = "disable" -> /\ latest_PXI_MC5_val' = 1
                           /\ sendingDisabled' = TRUE
    [] kind = "enable" -> latest_PXI_MC5_val' = 2 /\ UNCHANGED sendingDisabled
    [] OTHER -> latest_PXI_MC5_val' = 0 /\ UNCHANGED sendingDisabled

\* Index 3 and on: the command of an idle session.
CommandReceived(s) ==
  LET kind == client[s].kind
      fails == \/ state[s] # "idle"
               \/ kind = "disable" /\ sendingDisabled
               \/ kind = "enable" /\ ~sendingDisabled
  IN  /\ Sender("wait") /\ Quiet(s)
      /\ s \in sender.watched /\ client[s].at = "waiting"
      /\ IF fails
           THEN Panic("sender.c:212") /\ UNCHANGED <<state, buffer, buffers, mc5, sender>>
           ELSE /\ NoteCommand(kind) /\ UNCHANGED pendingArm9Commands
                /\ buffer' = [buffer EXCEPT ![s] = kind]
                /\ state' = [state EXCEPT ![s] = "fromArm11"]
                /\ KeepStaticBuffers(s)
                /\ sender' = [sender EXCEPT !.pc = "top", !.replyTarget = None]
                /\ UNCHANGED panicked
      /\ SenderOnly
      /\ UNCHANGED <<handle, signals, link, ports, PXITransferMutex>>

SenderStep ==
  \/ SendToArm9 \/ AcquireTransfer \/ TransmitCommand \/ Listen
  \/ Reply \/ ReplyFailed
  \/ \E s \in Services : SessionClosed(s) \/ CommandReceived(s)
  \/ TerminationRequested \/ SendAllBuffers \/ Arm9Reply

-----------------------------------------------------------------------------
(* main *)

Busy(s) == client[s].at = "waiting" \/ state[s] # "idle"

Main(pc) == panicked = None /\ main.pc = pc
MainOnly == UNCHANGED <<buffer, buffers, mc5, replySemaphore, srv11Events,
                        terminationRequestedEvent, receiver, handler>>

McDone == /\ client[Mc].at = "none" /\ state[Mc] = "idle"
          /\ receiver # [pc |-> "tell", at |-> Mc]

\* Notification 0x100; it is served before sessions.
Terminate ==
  /\ Main("accept")
  /\ Orderly => McDone
  /\ shouldTerminate' = TRUE
  /\ main' = [pc |-> "overwrite", at |-> None]
  /\ MainOnly
  /\ UNCHANGED <<sessions, sendAllBuffersToArm9Event, link, ports, panicked,
                 PXITransferMutex, sender>>

\* svcAcceptSession, then the session is entered under senderLock.
AcceptSession(s) ==
  /\ Main("accept")
  /\ connecting[s] /\ \A t \in Services : t < s => ~connecting[t]
  /\ connecting' = [connecting EXCEPT ![s] = FALSE]
  /\ main' = [pc |-> "enter", at |-> s]
  /\ MainOnly
  /\ UNCHANGED <<sessions, sendAllBuffersToArm9Event, link, client, shouldTerminate,
                 panicked, PXITransferMutex, sender>>

EnterSession ==
  /\ Main("enter") /\ sender.pc \in {"reply", "wait"}
  /\ IF handle[main.at]
       THEN /\ Panic("main.c:186")
            /\ UNCHANGED <<handle, sendAllBuffersToArm9Event, main>>
       ELSE /\ handle' = [handle EXCEPT ![main.at] = TRUE]
            /\ sendAllBuffersToArm9Event' = TRUE
            /\ main' = [pc |-> "accept", at |-> None]
            /\ UNCHANGED panicked
  /\ MainOnly
  /\ UNCHANGED <<state, buffer, link, ports, shouldTerminate, PXITransferMutex, sender>>

\* The state of session 0 is written without a lock, for the last command.
OverwriteState ==
  /\ Main("overwrite")
  /\ state' = [state EXCEPT ![Mc] = "sent"]
  /\ main' = [main EXCEPT !.pc = "acquire"]
  /\ MainOnly
  /\ UNCHANGED <<buffer, handle, sendAllBuffersToArm9Event, link, ports,
                 shouldTerminate, panicked, PXITransferMutex, sender>>

AcquireLast ==
  /\ Main("acquire")
  /\ TakeTransferMutex("main")
  /\ main' = [main EXCEPT !.pc = "transmit"]
  /\ MainOnly
  /\ UNCHANGED <<sessions, sendAllBuffersToArm9Event, link, ports,
                 shouldTerminate, panicked, sender>>

TransmitLast ==
  /\ Main("transmit")
  /\ Transmit(Mc, "terminate")
  /\ main' = [main EXCEPT !.pc = "join"]
  /\ MainOnly
  /\ UNCHANGED <<sessions, sendAllBuffersToArm9Event, ports,
                 shouldTerminate, panicked, sender>>

JoinThreads ==
  /\ Main("join")
  /\ sender.pc = "ended" /\ receiver.pc = "ended" /\ handler = "ended"
  /\ main' = [main EXCEPT !.pc = "ended"]
  /\ MainOnly
  /\ UNCHANGED <<sessions, sendAllBuffersToArm9Event, link, ports,
                 shouldTerminate, panicked, PXITransferMutex, sender>>

MainStep ==
  \/ Terminate \/ EnterSession \/ OverwriteState \/ AcquireLast \/ TransmitLast
  \/ JoinThreads
  \/ \E s \in Services : AcceptSession(s)

-----------------------------------------------------------------------------
(* The receiver *)

Receiver(pc) == panicked = None /\ receiver.pc = pc
ReceiverOnly == UNCHANGED <<handle, buffers, mc5, sendAllBuffersToArm9Event,
                            toArm9, ports, shouldTerminate, PXITransferMutex,
                            main, sender, handler>>

\* The lock of a session, taken while its command is sent.
Locked(s) ==
  \/ sender.pc \in {"acquire", "transmit"} /\ sender.at = s
  \/ s = Srv11 /\ handler \in {"acquire", "transmit"}

ReceiverStarts ==
  /\ Receiver("start") /\ PXISRV11ReplySentEvent
  /\ PXISRV11ReplySentEvent' = FALSE
  /\ receiver' = [receiver EXCEPT !.pc = "wait"]
  /\ ReceiverOnly
  /\ UNCHANGED <<state, buffer, replySemaphore, PXISRV11CommandReceivedEvent,
                 fromArm9, PXISyncInterrupt, terminationRequestedEvent, panicked>>

WaitForArm9 ==
  /\ Receiver("wait")
  /\ \/ /\ PXISyncInterrupt
        /\ PXISyncInterrupt' = FALSE
        /\ receiver' = [receiver EXCEPT !.pc = "drain"]
     \/ /\ ~PXISyncInterrupt /\ terminationRequestedEvent
        /\ receiver' = [receiver EXCEPT !.pc = "ended"]
        /\ UNCHANGED PXISyncInterrupt
  /\ ReceiverOnly
  /\ UNCHANGED <<state, buffer, replySemaphore, srv11Events, fromArm9,
                 terminationRequestedEvent, panicked>>

FIFOEmpty ==
  /\ Receiver("drain") /\ fromArm9 = <<>>
  /\ receiver' = [receiver EXCEPT !.pc = "wait"]
  /\ ReceiverOnly
  /\ UNCHANGED <<state, buffer, replySemaphore, srv11Events, fromArm9,
                 PXISyncInterrupt, terminationRequestedEvent, panicked>>

\* The words of one answer, into the buffer of its session.
ReceiveFromArm9 ==
  /\ Receiver("drain") /\ fromArm9 # <<>>
  /\ LET s == Head(fromArm9).to
     IN  IF state[s] # "sent"
           THEN /\ Panic("receiver.c:20")
                /\ UNCHANGED <<state, buffer, fromArm9, receiver>>
           ELSE /\ ~Locked(s)
                /\ state' = [state EXCEPT ![s] = "fromArm9"]
                /\ buffer' = [buffer EXCEPT ![s] = Head(fromArm9).message]
                /\ fromArm9' = Tail(fromArm9)
                /\ receiver' = [pc |-> "tell", at |-> s]
                /\ UNCHANGED panicked
  /\ ReceiverOnly
  /\ UNCHANGED <<replySemaphore, srv11Events, PXISyncInterrupt,
                 terminationRequestedEvent>>

\* The last answer: everything ends.
TellThreads ==
  /\ Receiver("tell") /\ receiver.at = Mc /\ shouldTerminate
  /\ terminationRequestedEvent' = TRUE
  /\ receiver' = [receiver EXCEPT !.pc = "drain"]
  /\ ReceiverOnly
  /\ UNCHANGED <<state, buffer, replySemaphore, srv11Events, fromArm9,
                 PXISyncInterrupt, panicked>>

\* Mutant: one answer is taken per interrupt.
TellSenderOnce ==
  /\ Receiver("tell")
  /\ receiver.at # Srv11 /\ ~(receiver.at = Mc /\ shouldTerminate)
  /\ replySemaphore' = replySemaphore + 1
  /\ receiver' = [receiver EXCEPT !.pc = "wait"]
  /\ ReceiverOnly
  /\ UNCHANGED <<state, buffer, srv11Events, fromArm9, PXISyncInterrupt,
                 terminationRequestedEvent, panicked>>

\* One more answer for the sender.
TellSender ==
  /\ Receiver("tell")
  /\ receiver.at # Srv11 /\ ~(receiver.at = Mc /\ shouldTerminate)
  /\ IF replySemaphore = 9
       THEN Panic("receiver.c:45") /\ UNCHANGED <<replySemaphore, receiver>>
       ELSE /\ replySemaphore' = replySemaphore + 1
            /\ receiver' = [receiver EXCEPT !.pc = "drain"]
            /\ UNCHANGED panicked
  /\ ReceiverOnly
  /\ UNCHANGED <<state, buffer, srv11Events, fromArm9, PXISyncInterrupt,
                 terminationRequestedEvent>>

TellHandler ==
  /\ Receiver("tell") /\ receiver.at = Srv11
  /\ PXISRV11CommandReceivedEvent' = TRUE
  /\ receiver' = [receiver EXCEPT !.pc = "waitSent"]
  /\ ReceiverOnly
  /\ UNCHANGED <<state, buffer, replySemaphore, PXISRV11ReplySentEvent, fromArm9,
                 PXISyncInterrupt, terminationRequestedEvent, panicked>>

WaitReplySent ==
  /\ Receiver("waitSent") /\ PXISRV11ReplySentEvent
  /\ PXISRV11ReplySentEvent' = FALSE
  /\ IF state[Srv11] # "sent"
       THEN Panic("receiver.c:51") /\ UNCHANGED receiver
       ELSE receiver' = [receiver EXCEPT !.pc = "drain"] /\ UNCHANGED panicked
  /\ ReceiverOnly
  /\ UNCHANGED <<state, buffer, replySemaphore, PXISRV11CommandReceivedEvent,
                 fromArm9, PXISyncInterrupt, terminationRequestedEvent>>

ReceiverStep ==
  \/ ReceiverStarts \/ WaitForArm9 \/ FIFOEmpty \/ ReceiveFromArm9
  \/ TellThreads \/ TellSender \/ TellHandler \/ WaitReplySent

-----------------------------------------------------------------------------
(* PXISRV11Handler *)

Handler(pc) == panicked = None /\ handler = pc
HandlerOnly == UNCHANGED <<handle, buffers, mc5, signals, fromArm9, PXISyncInterrupt,
                           ports, shouldTerminate, terminationRequestedEvent,
                           main, sender, receiver>>

HandlerStarts ==
  /\ Handler("start")
  /\ state' = [state EXCEPT ![Srv11] = "sent"]
  /\ PXISRV11ReplySentEvent' = TRUE
  /\ handler' = "wait"
  /\ HandlerOnly
  /\ UNCHANGED <<buffer, PXISRV11CommandReceivedEvent, toArm9, panicked, PXITransferMutex>>

\* The command, PublishToSubscriber, is carried out by sm, and answered in
\* the same buffer.
HandleSrv11Command ==
  /\ Handler("wait") /\ PXISRV11CommandReceivedEvent
  /\ PXISRV11CommandReceivedEvent' = FALSE
  /\ IF state[Srv11] # "fromArm9"
       THEN Panic("sender.c:275") /\ UNCHANGED <<state, handler>>
       ELSE /\ state' = [state EXCEPT ![Srv11] = "fromArm11"]
            /\ handler' = "acquire"
            /\ UNCHANGED panicked
  /\ HandlerOnly
  /\ UNCHANGED <<buffer, PXISRV11ReplySentEvent, toArm9, PXITransferMutex>>

\* A cancelled transfer is a failure here.
HandlerAcquire ==
  /\ Handler("acquire")
  /\ IF Cancelled
       THEN Panic("sender.c:295") /\ UNCHANGED <<handler, PXITransferMutex>>
       ELSE TakeTransferMutex("handler") /\ handler' = "transmit" /\ UNCHANGED panicked
  /\ HandlerOnly
  /\ UNCHANGED <<state, buffer, srv11Events, toArm9>>

\* After the last word the state and the event are set; until then the
\* receiver waits, whatever the ARM9 sends next.
HandlerTransmit ==
  /\ Handler("transmit")
  /\ Transmit(Srv11, "ready")
  /\ state' = [state EXCEPT ![Srv11] = "sent"]
  /\ PXISRV11ReplySentEvent' = TRUE
  /\ handler' = "wait"
  /\ HandlerOnly
  /\ UNCHANGED <<buffer, PXISRV11CommandReceivedEvent, panicked>>

\* Mutant: the event is one-shot.
HandlerEndsAlone ==
  /\ Handler("wait") /\ ~PXISRV11CommandReceivedEvent /\ terminationRequestedEvent
  /\ handler' = "ended"
  /\ terminationRequestedEvent' = FALSE
  /\ UNCHANGED <<sessions, buffers, mc5, signals, srv11Events, link, ports,
                 shouldTerminate, panicked, PXITransferMutex, main, sender, receiver>>

HandlerEnds ==
  /\ Handler("wait") /\ ~PXISRV11CommandReceivedEvent /\ terminationRequestedEvent
  /\ handler' = "ended"
  /\ HandlerOnly
  /\ UNCHANGED <<state, buffer, srv11Events, toArm9, panicked, PXITransferMutex>>

HandlerStep ==
  \/ HandlerStarts \/ HandleSrv11Command \/ HandlerAcquire
  \/ HandlerTransmit \/ HandlerEnds

-----------------------------------------------------------------------------
(* The ARM9 and the clients, as pxi sees them *)

Environment == UNCHANGED <<sessions, buffers, mc5, signals, srv11Events, ending,
                           PXITransferMutex, main, sender, receiver, handler>>

Last(s) == Orderly /\ toArm9[s] # <<>> /\ Head(toArm9[s]) = "terminate"

\* It answers the commands of a service in order; on PXISRV11 it sends a
\* command, and the next one after the answer.
Arm9Sends(s) ==
  /\ panicked = None /\ toArm9[s] # <<>>
  /\ s = Srv11 => ~Last(Mc)
  /\ Last(s) => toArm9[Srv11] # <<>>
  /\ toArm9' = [t \in All |->
       CASE t = s -> Tail(toArm9[t])
         [] t = Srv11 /\ Last(s) -> <<>>
         [] OTHER -> toArm9[t]]
  /\ fromArm9' = Append(fromArm9, [to |-> s, message |-> Head(toArm9[s])])
  /\ PXISyncInterrupt' = TRUE
  /\ Environment /\ UNCHANGED ports

\* A service has one session at a time (srvRegisterService: 1).
Connect(s) ==
  /\ panicked = None /\ ~shouldTerminate
  /\ client[s].at = "none" /\ ~connecting[s]
  /\ connecting' = [connecting EXCEPT ![s] = TRUE]
  /\ client' = [client EXCEPT ![s].at = "idle"]
  /\ Environment /\ UNCHANGED link

Switching ==
  \/ client[Mc].at = "waiting" /\ client[Mc].kind \in {"disable", "enable"}
  \/ state[Mc] # "idle" /\ buffer[Mc] \in {"disable", "enable"}

MayBeSent(s, kind) ==
  /\ kind = "disable" => ~sendingDisabled
  /\ kind = "enable" => sendingDisabled
  /\ Orderly => IF kind = "cmd" THEN ~sendingDisabled /\ ~Switching
                              ELSE \A t \in Services : ~Busy(t)

SendCommand(s) ==
  /\ panicked = None /\ client[s].at = "idle"
  /\ \E kind \in Kinds(s) :
       /\ MayBeSent(s, kind)
       /\ client' = [client EXCEPT ![s].at = "waiting", ![s].kind = kind]
  /\ Environment /\ UNCHANGED <<link, connecting>>

\* The client closes its session, or its process ends.
Leave(s) ==
  /\ panicked = None /\ client[s].at \in {"idle", "waiting"}
  /\ client' = [client EXCEPT ![s].at = "gone", ![s].kind = None]
  /\ Environment /\ UNCHANGED <<link, connecting>>

Next ==
  \/ SenderStep \/ MainStep \/ ReceiverStep \/ HandlerStep
  \/ \E s \in All : Arm9Sends(s)
  \/ \E s \in Services : Connect(s) \/ SendCommand(s) \/ Leave(s)

Spec == Init /\ [][Next]_vars

\* The threads run, and the ARM9 answers what it is sent.  The kernel hands
\* the mutex and the lock to a thread that waits for them.
Fairness ==
  /\ WF_vars(SenderStep) /\ WF_vars(ReceiverStep) /\ WF_vars(HandlerStep)
  /\ SF_vars(AcquireTransfer) /\ SF_vars(HandlerAcquire) /\ SF_vars(AcquireLast)
  /\ SF_vars(EnterSession)
  /\ WF_vars(OverwriteState \/ TransmitLast \/ JoinThreads)
  /\ \A s \in Services : WF_vars(Arm9Sends(s))

FairSpec == Spec /\ Fairness

-----------------------------------------------------------------------------
(* Properties *)

Messages == {"cmd", "disable", "enable", "terminate", "ready"}
States == {"idle", "fromArm11", "sent", "fromArm9"}

\* Types: sessionData, the flags and events, the places of the threads.
TypeOK ==
  /\ state \in [All -> States]
  /\ buffer \in [All -> Messages \cup {None}]
  /\ handle \in [Services -> BOOLEAN]
  /\ latest_PXI_MC5_val \in 0..2
  /\ pendingArm9Commands \in 0 .. Word - 1
  /\ replySemaphore \in 0..9
  /\ usedStaticBuffers \in [Services -> SUBSET AllBuffers]
  /\ freeStaticBuffers \subseteq AllBuffers
  /\ currentlyProvidedStaticBuffers \subseteq AllBuffers
  /\ sender.replyTarget \in Services \cup {None}
  /\ sender.watched \subseteq Services
  /\ PXITransferMutex \in {None, "main", "sender", "handler"}
  /\ toArm9 \in [All -> Seq(Messages)]
  /\ fromArm9 \in Seq([to : All, message : Messages])

\* No thread meets a state that its assertions exclude.
NeverPanics == panicked = None

\* Whenever a client may send a command, as many static buffers are provided
\* as the kernel may need for it (sender.c:98: without them it would write
\* to address 0).
StaticBuffersProvided ==
  sender.pc = "wait" =>
    \A s \in sender.watched :
      Cardinality(currentlyProvidedStaticBuffers) >= StaticBuffersOf[s]

\* Every static buffer is free, provided, or used by one command: none is
\* lost, and none is given to the kernel while the ARM9 may use it.
BuffersOwnedOnce ==
  /\ freeStaticBuffers \cap currentlyProvidedStaticBuffers = {}
  /\ \A s \in Services :
       /\ usedStaticBuffers[s] \cap
            (freeStaticBuffers \cup currentlyProvidedStaticBuffers) = {}
       /\ \A t \in Services \ {s} : usedStaticBuffers[s] \cap usedStaticBuffers[t] = {}
  /\ AllBuffers = freeStaticBuffers \cup currentlyProvidedStaticBuffers
                    \cup UNION {usedStaticBuffers[s] : s \in Services}

\* So it is, and a command that is under way has all its service needs.
StaticBuffersOwned ==
  /\ BuffersOwnedOnce
  /\ \A s \in Services :
       state[s] \in {"fromArm11", "sent"} /\ ~shouldTerminate =>
         Cardinality(usedStaticBuffers[s]) = StaticBuffersOf[s]

\* pendingArm9Commands is the number of commands the ARM9 was sent whose
\* answer the sender has not seen, pxi:mc 5 aside.
Outstanding ==
  {s \in Services : /\ state[s] \in {"sent", "fromArm9"}
                    /\ buffer[s] \notin {"disable", "enable"}}
PendingExact ==
  shouldTerminate \/ pendingArm9Commands = Cardinality(Outstanding)


\* A command that was taken is sent and answered, unless answers to services
\* of a lower index, which are looked for first, are delivered before it.
TakenIsAnswered ==
  \A s \in Services :
    state[s] = "fromArm11" ~>
      \/ state[s] = "idle" \/ shouldTerminate \/ panicked # None
      \/ \E t \in Services : t < s /\ sender.replyTarget = t

\* The same for pxi:mc alone, whose pxi:mc 5 waits for the others.
McIsAnswered ==
  state[Mc] = "fromArm11" ~> state[Mc] = "idle" \/ shouldTerminate \/ panicked # None

\* Told to terminate, pxi does: no thread waits for ever.
ShutdownCompletes == shouldTerminate ~> main.pc = "ended"

\* The sessions are remote procedure calls until pxi is told to terminate.
Phase(s) ==
  IF client[s].at = "none" THEN "closed"
  ELSE IF state[s] = "fromArm11" \/ (sender.pc \in {"acquire", "transmit"} /\ sender.at = s)
       THEN "called"
  ELSE IF toArm9[s] # <<>> THEN "forwarded"
  ELSE IF state[s] \in {"sent", "fromArm9"}
            \/ (sender.replyTarget = s /\ sender.pc \in {"top", "reply"}) THEN "answered"
  ELSE IF client[s].at = "waiting" THEN "called" ELSE "idle"

\* What a step may depend on.
View ==
  <<state, [s \in All |-> IF state[s] = "idle" THEN None ELSE buffer[s]],
    handle, buffers, mc5, signals, srv11Events, link, ports, ending,
    PXITransferMutex, main, receiver.pc,
    IF receiver.pc = "tell" THEN receiver.at ELSE None, handler,
    sender.pc, sender.replyTarget,
    IF sender.pc \in {"acquire", "transmit"} THEN sender.at ELSE None,
    IF sender.pc \in {"reply", "wait"} THEN sender.watched ELSE None>>

AsCalls == INSTANCE PxiCalls WITH
  call <- [s \in Services |-> [phase |-> Phase(s),
                               alive |-> client[s].at \in {"idle", "waiting"}]],
  down <- shouldTerminate

ImplementsCalls == AsCalls!Spec
=============================================================================
