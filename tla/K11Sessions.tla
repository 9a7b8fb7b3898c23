---------------------------- MODULE K11Sessions ----------------------------
(***************************************************************************)
(* The names of the IPC sessions (k11_extension/source/ipc.c) and the      *)
(* requests that are treated by them (svc/SendSyncRequest.c,               *)
(* svc/ConnectToPort.c, svc/ControlService.c).  A table sorted by address  *)
(* says under which name each session was opened; a session enters it when *)
(* it is opened and leaves it when its destructor, which is hooked, has    *)
(* run.  A KSession is its address, and the kernel gives an address that   *)
(* was freed to the next session.                                          *)
(*                                                                         *)
(* The table is read and written under a lock, and one step is one section *)
(* under it: what a thread does before it and after it are other steps,    *)
(* and threads of the other cores run in between.                          *)
(***************************************************************************)
EXTENDS Naturals, Sequences, FiniteSets

CONSTANTS
  Sessions,     \* the addresses of KSession objects, numbers
  Names,        \* the names of services and ports
  Headers,      \* the commands: the first word of the command buffer
  Threads,
  MAX_SESSION,
  PromptReuse,  \* an address may be taken again before its entry is removed
  NoName

SessionsAssumption ==
  /\ Sessions \subseteq Nat
  /\ MAX_SESSION \in Nat \ {0}
  /\ PromptReuse \in BOOLEAN
  /\ NoName \notin Names

VARIABLES
  sessionInfos,  \* the first nbActiveSessions elements of the array
  live,          \* the sessions that exist
  custom,        \* the objects whose vtable is customSessionVtable
  opened,        \* the name each session was opened by
  thread,        \* what each thread does in the extension
  outcome        \* the last request: its session, and whether it was treated

vars == <<sessionInfos, live, custom, opened, thread, outcome>>

Idle == [at |-> "idle"]

Init ==
  /\ sessionInfos = <<>>
  /\ live = {}
  /\ custom = {}
  /\ opened = [s \in Sessions |-> NoName]
  /\ thread = [t \in Threads |-> Idle]
  /\ outcome = Idle

nbActiveSessions == Len(sessionInfos)

\* Threads that do something to a session or with it.
Busy(s, places) ==
  \E t \in Threads : thread[t].at \in places /\ thread[t].session = s

-----------------------------------------------------------------------------
(* The table *)

Entries == [session : Sessions, name : Names]

\* The loop between the elements a and b, of which that at b is never below s.
Searches == [table : Seq(Entries), s : Sessions, a : Nat, b : Nat]

Middle(x) == (x.a + x.b) \div 2

Halved(x) ==
  IF x.table[Middle(x)].session < x.s THEN [x EXCEPT !.a = Middle(x)]
                                      ELSE [x EXCEPT !.b = Middle(x)]

Bisect[x \in Searches] ==
  IF x.table[Middle(x)].session = x.s THEN Middle(x)
  ELSE IF Halved(x).b - Halved(x).a <= 1 THEN Halved(x).b
  ELSE Bisect[Halved(x)]

\* The place of the first session that is not below s.
FindClosestSlot(table, s) ==
  IF table = <<>> \/ s <= table[1].session THEN 1
  ELSE IF s > table[Len(table)].session THEN Len(table) + 1
  ELSE Bisect[[table |-> table, s |-> s, a |-> 1, b |-> Len(table)]]

\* Mutant: the entry at the place of the new one is overwritten.
InsertedOver(table, id, info) ==
  SubSeq(table, 1, id - 1) \o <<info>> \o SubSeq(table, id + 1, Len(table))

InsertedAt(table, id, info) ==
  SubSeq(table, 1, id - 1) \o <<info>> \o SubSeq(table, id, Len(table))

\* SessionInfo_Add, under the lock.
Added(table, s, name) ==
  LET id == FindClosestSlot(table, s)
  IN IF \/ Len(table) = MAX_SESSION
        \/ id <= Len(table) /\ table[id].session = s
     THEN table
     ELSE InsertedAt(table, id, [session |-> s, name |-> name])

\* SessionInfo_Remove, under the lock.
Removed(table, s) ==
  LET id == FindClosestSlot(table, s)
  IN IF Len(table) = MAX_SESSION \/ id > Len(table) THEN table
     ELSE SubSeq(table, 1, id - 1) \o SubSeq(table, id + 1, Len(table))

\* SessionInfo_Lookup: a pointer to the entry, NULL when there is none.  The
\* session of the entry is not compared with s.
Found(s) ==
  LET id == FindClosestSlot(sessionInfos, s)
  IN IF id <= nbActiveSessions /\ sessionInfos[id].session \in custom THEN {id} ELSE {}

\* SessionInfo_FindFirst.
FoundFirst(name) ==
  LET named == {i \in 1 .. nbActiveSessions : sessionInfos[i].name = name}
  IN {i \in named : (\A j \in named : i <= j) /\ sessionInfos[i].session \in custom}

\* What a pointer into the array reads, now: the elements past the last one
\* are zero.
NameAt(slot) == IF slot <= nbActiveSessions THEN sessionInfos[slot].name ELSE NoName

-----------------------------------------------------------------------------
(* Opening a session *)

\* The kernel creates a session at a free address, with its own vtable.
Create(s, name) ==
  /\ s \notin live
  /\ PromptReuse \/ ~Busy(s, {"remove"})
  /\ live' = live \cup {s}
  /\ custom' = custom \ {s}
  /\ opened' = [opened EXCEPT ![s] = name]

\* ConnectToPort has succeeded, and the session is about to be added.
ConnectToPortHook(t, s, name) ==
  /\ thread[t] = Idle
  /\ Create(s, name)
  /\ thread' = [thread EXCEPT ![t] = [at |-> "hook", session |-> s, name |-> name]]
  /\ UNCHANGED <<sessionInfos, outcome>>

\* A session that comes another way, as the session of an open file does.
OpenOther(s) ==
  /\ Create(s, NoName)
  /\ UNCHANGED <<sessionInfos, thread, outcome>>

SessionInfo_ChangeVtable(t) ==
  /\ thread[t].at = "hook"
  /\ custom' = custom \cup {thread[t].session}
  /\ thread' = [thread EXCEPT ![t].at = "add"]
  /\ UNCHANGED <<sessionInfos, live, opened, outcome>>

SessionInfo_Add(t) ==
  /\ thread[t].at = "add"
  /\ sessionInfos' = Added(sessionInfos, thread[t].session, thread[t].name)
  /\ thread' = [thread EXCEPT ![t] = Idle]
  /\ UNCHANGED <<live, custom, opened, outcome>>

-----------------------------------------------------------------------------
(* Closing it *)

\* The last reference is dropped: the object is destroyed and its memory
\* free, and for a session that was hooked its entry is still there.  A thread
\* that opens the session or makes a request holds a reference.
KSession__dtor_hook(t, s) ==
  /\ thread[t] = Idle
  /\ s \in live
  /\ ~Busy(s, {"hook", "add", "request"})
  /\ live' = live \ {s}
  /\ thread' = IF s \in custom
               THEN [thread EXCEPT ![t] = [at |-> "remove", session |-> s]]
               ELSE thread
  /\ UNCHANGED <<sessionInfos, custom, opened, outcome>>

SessionInfo_Remove(t) ==
  /\ thread[t].at = "remove"
  /\ sessionInfos' = Removed(sessionInfos, thread[t].session)
  /\ thread' = [thread EXCEPT ![t] = Idle]
  /\ UNCHANGED <<live, custom, opened, outcome>>

-----------------------------------------------------------------------------
(* Requests *)

\* The commands of cfg that report region, language and country.
LangEmuNames(header) ==
  CASE header \in {"GetConfigInfoBlk2", "SecureInfoGetRegion"} -> {"cfg:u", "cfg:s", "cfg:i"}
    [] header \in {"GetConfigInfoBlk4", "GetConfigInfoBlk8", "SecureInfoGetRegionS"} ->
         {"cfg:s", "cfg:i"}
    [] header \in {"GetConfigInfoBlk8I", "SecureInfoGetRegionI"} -> {"cfg:i"}
    [] OTHER -> {}

\* isNdmuWorkaround: the commands that would take the network away.
NdmNames(header) ==
  IF header \in {"EnterExclusiveState", "LeaveExclusiveState", "SuspendScheduler",
                 "ResumeScheduler"}
  THEN {"ndm:u"} ELSE {}

\* srv:, the applets and the logo of a title.
OtherNames(header) ==
  CASE header \in {"GetServiceHandle", "PublishToSubscriber"} -> {"srv:"}
    [] header = "Throw" -> {"err:f"}
    [] header = "ReceiveParameter" -> {"APT:S", "APT:U", "APT:A"}
    [] header = "OpenFileDirectly" -> {"fs:USER"}
    [] OTHER -> {}

\* The names of the sessions on which a command is treated here.
TreatedOn(header) == LangEmuNames(header) \cup NdmNames(header) \cup OtherNames(header)

\* SendSyncRequestHook looks the session up, which gives it a pointer.
BeginRequest(t, s, header) ==
  /\ thread[t] = Idle
  /\ s \in live /\ ~Busy(s, {"hook", "add"})
  /\ thread' = [thread EXCEPT ![t] =
       [at |-> "request", session |-> s, header |-> header, info |-> Found(s)]]
  /\ UNCHANGED <<sessionInfos, live, custom, opened, outcome>>

\* It compares the name the pointer reads, outside the lock.
Treated(t) ==
  \E slot \in thread[t].info : NameAt(slot) \in TreatedOn(thread[t].header)

\* Any other command, or one that is treated and opens no session.
FinishRequest(t) ==
  /\ thread[t].at = "request"
  /\ outcome' = [at |-> "done", session |-> thread[t].session, header |-> thread[t].header,
                 treated |-> Treated(t)]
  /\ thread' = [thread EXCEPT ![t] = Idle]
  /\ UNCHANGED <<sessionInfos, live, custom, opened>>

\* srv: has answered a GetServiceHandle with a session.
GetServiceHandle(t, s, name) ==
  /\ thread[t].at = "request" /\ thread[t].header = "GetServiceHandle"
  /\ opened[thread[t].session] = "srv:"
  /\ Create(s, name)
  /\ outcome' = [at |-> "done", session |-> thread[t].session, header |-> thread[t].header,
                 treated |-> Treated(t)]
  /\ thread' = [thread EXCEPT ![t] = IF Treated(t)
       THEN [at |-> "hook", session |-> s, name |-> name] ELSE Idle]
  /\ UNCHANGED sessionInfos

\* ControlService, SERVICEOP_STEAL_CLIENT_SESSION, and PLG_SignalEvent: the
\* session of the first entry with a name, by a pointer.
BeginSteal(t, name) ==
  /\ thread[t] = Idle
  /\ FoundFirst(name) # {}
  /\ thread' = [thread EXCEPT ![t] = [at |-> "steal", session |-> NoName, name |-> name,
                                      info |-> FoundFirst(name)]]
  /\ UNCHANGED <<sessionInfos, live, custom, opened, outcome>>

\* A handle is created for whatever session the pointer reads now.
FinishSteal(t) ==
  /\ thread[t].at = "steal"
  /\ outcome' = [at |-> "stolen", name |-> thread[t].name,
                 of |-> {sessionInfos[i].session : i \in thread[t].info \cap 1 .. nbActiveSessions}]
  /\ thread' = [thread EXCEPT ![t] = Idle]
  /\ UNCHANGED <<sessionInfos, live, custom, opened>>

Step(t) ==
  \/ \E s \in Sessions, name \in Names : ConnectToPortHook(t, s, name)
  \/ SessionInfo_ChangeVtable(t)
  \/ SessionInfo_Add(t)
  \/ \E s \in Sessions : KSession__dtor_hook(t, s)
  \/ SessionInfo_Remove(t)
  \/ \E s \in Sessions, header \in Headers : BeginRequest(t, s, header)
  \/ FinishRequest(t)
  \/ \E s \in Sessions, name \in Names : GetServiceHandle(t, s, name)
  \/ \E name \in Names : BeginSteal(t, name)
  \/ FinishSteal(t)

Next ==
  \/ \E t \in Threads : Step(t)
  \/ \E s \in Sessions : OpenOther(s)

Spec == Init /\ [][Next]_vars

-----------------------------------------------------------------------------
(* Properties *)

Addresses(table) == {table[i].session : i \in DOMAIN table}

\* The sessions whose entry is in the table: SessionInfo_Add has run for them
\* and SessionInfo_Remove has not.
Entered ==
  {s \in live \cap custom : ~Busy(s, {"add"})} \cup {s \in Sessions : Busy(s, {"remove"})}

\* The table is in the order of the addresses, and the search finds the place
\* of any session, there or not.  It holds each session that was added and not
\* yet removed, with the name it was opened by: insertions and removals of
\* several cores come in any order between the changes of vtables and the
\* destructions they belong to.  Only a table that was full once is given up:
\* nothing enters or leaves it any more (lines 109-113 and 142-147).
TableExact ==
  /\ \A i, j \in 1 .. nbActiveSessions :
       i < j => sessionInfos[i].session < sessionInfos[j].session
  /\ \A s \in Sessions :
       FindClosestSlot(sessionInfos, s)
         = 1 + Cardinality({e \in Addresses(sessionInfos) : e < s})
  /\ nbActiveSessions < MAX_SESSION =>
       /\ Addresses(sessionInfos) = Entered
       /\ \A i \in 1 .. nbActiveSessions :
            sessionInfos[i].name = opened[sessionInfos[i].session]

\* A request is treated by the name of its own session, and by no other.  The
\* code does not ensure it: the pointer is read after the lock is given back,
\* and the entry of another session is taken for that of one that has none.
TreatedAsOpened ==
  outcome.at = "done" =>
    (outcome.treated <=> opened[outcome.session] \in TreatedOn(outcome.header))

\* A stolen session exists and has the name that was asked for.
StolenAsNamed ==
  outcome.at = "stolen" =>
    \A s \in outcome.of : s \in live /\ opened[s] = outcome.name
=============================================================================
