-------------------------- MODULE SmServer_proofs --------------------------
(***************************************************************************)
(* The safety properties of the service manager's loop hold for any number *)
(* of sessions, processes, names, ports and services, and any requests.    *)
(*                                                                         *)
(* The inductive invariant is what the runs check - the lists partition the*)
(* pool, the semaphore counts the sessions to wake, every blocked client is*)
(* listed or about to be answered, nobody sleeps for a registered name, the*)
(* table has the open ports - and that the session to be answered is in    *)
(* use: a session that waits, was freed or was handed out again is never   *)
(* answered.                                                               *)
(***************************************************************************)
EXTENDS SmServer, SmLists_proofs

PoolInv == Partition(lists, SessionLists, Sessions)

(* No two entries of a table are equal, share a port or have the same kind *)
(* and name.                                                               *)
Unshared(table) ==
  /\ Distinct(table)
  /\ \A e, f \in Elements(table) :
       e # f => e.port # f.port /\ (e.kind # f.kind \/ e.name # f.name)

PortsOf(table) == {e.port : e \in Elements(table)}

TableInv ==
  /\ Unshared(servicesInfo)
  /\ PortsOf(servicesInfo) = {p \in Ports : portOpen[p]}
  /\ Len(servicesInfo) <= MaxServices

ReplyListed == replyTarget # None => replyTarget \in In("inUse")

(* Nobody who waits for a registration waits for the name of an entry.     *)
NoneAwaits ==
  \A s \in In("waitRegister"), e \in Elements(servicesInfo) : ~Awaits(replayCmdbuf[s], e)

(* The types but for the lists, which PoolInv has.                         *)
TypeInv ==
  /\ pid \in [Sessions -> Pids \cup {NoPid}]
  /\ isSrvPm \in [Sessions -> BOOLEAN]
  /\ replayCmdbuf \in [Sessions -> Saved]
  /\ busyClientPortHandle \in [Sessions -> Ports \cup {NoPort}]
  /\ servicesInfo \in Seq(Entries)
  /\ processes \subseteq Pids \cup {NoPid}
  /\ cmdbuf4 \in Nat
  /\ replyTarget \in Sessions \cup {None}
  /\ resumeSemaphore \in Nat
  /\ panicked \in {"no", "pool", "nobodyToWake", "invalidHandle"}
  /\ owner \in [Sessions -> Pids \cup {NoPid}]
  /\ client \in [Sessions -> {"closed", "idle", "sent", "served"}]
  /\ request \in [Sessions -> Requests \cup {NoRequest}]
  /\ maxSessions \in [Ports -> Nat]
  /\ portSessions \in [Ports -> Nat]
  /\ serverAlive \in [Ports -> BOOLEAN]
  /\ portOpen \in [Ports -> BOOLEAN]

Inv ==
  /\ TypeInv
  /\ PoolInv
  /\ SemaphoreCountsWakeUps
  /\ BlockedClientsAccounted
  /\ ReplyListed
  /\ NoneAwaits
  /\ TableInv

-----------------------------------------------------------------------------
(* The lists                                                               *)

(* A list that waits in ls.                                                *)
WaitingIn(ls) ==
  Elements(ls["waitRegister"]) \cup Elements(ls["wakeUp"]) \cup Elements(ls["waitPort"])

LEMMA ListFacts ==
  ASSUME PoolInv
  PROVE  /\ lists \in [SessionLists -> Seq(Sessions)]
         /\ DOMAIN lists = SessionLists
         /\ \A l \in SessionLists : In(l) \subseteq Sessions
         /\ In("inUse") \cap Waiting = {}
         /\ In("free") \cap Waiting = {}
         /\ In("free") \cap In("inUse") = {}
<1>1. lists \in [SessionLists -> Seq(Sessions)]
  BY DEF PoolInv, Partition
<1>2. \A l \in SessionLists : In(l) \subseteq Sessions
  <2> TAKE l \in SessionLists
  <2>1. lists[l] \in Seq(Sessions)
    BY <1>1
  <2> QED
    BY <2>1, LenProperties, ElementOfSeq DEF In, Elements
<1> QED
  BY <1>1, <1>2 DEF PoolInv, Partition, In, Waiting, SessionLists

(* What a handler does to the lists: the session is answered and stays in  *)
(* use, or its command is saved and it waits, for a registration only when *)
(* what it asks for is not registered.                                     *)
Outcome(ls, s) ==
  \/ lists' = ls /\ replyTarget' = s /\ UNCHANGED replayCmdbuf
  \/ \E list \in {"waitRegister", "waitPort"}, saved \in Saved :
       /\ lists' = moveNode(ls, s, list, TRUE)
       /\ replyTarget' = None
       /\ replayCmdbuf' = [replayCmdbuf EXCEPT ![s] = saved]
       /\ list = "waitRegister" =>
            \A e \in Elements(servicesInfo) : ~Awaits(saved, e)

LEMMA GetServiceHandleOutcome ==
  ASSUME NEW ls, NEW busy, NEW s \in Sessions, NEW name \in Names \cup {Garbled}, NEW flags,
         GetServiceHandle(ls, busy, s, name, flags)
  PROVE  Outcome(ls, s)
<1> DEFINE saved == [cmd |-> "GetServiceHandle", name |-> name]
<1>1. saved \in Saved
  BY DEF Saved
<1>2. CASE /\ ~Registered("service", name)
           /\ Postpone(ls, s, "GetServiceHandle", name, "waitRegister")
  <2>1. \A e \in Elements(servicesInfo) : ~Awaits(saved, e)
    BY <1>2 DEF Registered, Elements, Awaits
  <2>2. /\ lists' = moveNode(ls, s, "waitRegister", TRUE)
        /\ replyTarget' = None
        /\ replayCmdbuf' = [replayCmdbuf EXCEPT ![s] = saved]
    BY <1>2 DEF Postpone
  <2> HIDE DEF saved
  <2> QED
    BY <1>1, <2>1, <2>2 DEF Outcome
<1>3. CASE Postpone(ls, s, "GetServiceHandle", name, "waitPort")
  <2>2. /\ lists' = moveNode(ls, s, "waitPort", TRUE)
        /\ replyTarget' = None
        /\ replayCmdbuf' = [replayCmdbuf EXCEPT ![s] = saved]
    BY <1>3 DEF Postpone
  <2> HIDE DEF saved
  <2> QED
    BY <1>1, <2>2 DEF Outcome
<1>4. CASE lists' = ls /\ Answer(s) /\ UNCHANGED replayCmdbuf
  BY <1>4 DEF Answer, Outcome
<1> QED
  BY <1>2, <1>3, <1>4 DEF GetServiceHandle

LEMMA GetPortOutcome ==
  ASSUME NEW ls, NEW busy, NEW s \in Sessions, NEW name \in Names \cup {Garbled}, NEW flags,
         GetPort(ls, busy, s, name, flags)
  PROVE  Outcome(ls, s)
<1> DEFINE saved == [cmd |-> "GetPort", name |-> name]
<1>1. saved \in Saved
  BY DEF Saved
<1>2. CASE /\ ~Registered("port", name)
           /\ Postpone(ls, s, "GetPort", name, "waitRegister")
  <2>1. \A e \in Elements(servicesInfo) : ~Awaits(saved, e)
    BY <1>2 DEF Registered, Elements, Awaits
  <2>2. /\ lists' = moveNode(ls, s, "waitRegister", TRUE)
        /\ replyTarget' = None
        /\ replayCmdbuf' = [replayCmdbuf EXCEPT ![s] = saved]
    BY <1>2 DEF Postpone
  <2> HIDE DEF saved
  <2> QED
    BY <1>1, <2>1, <2>2 DEF Outcome
<1>3. CASE lists' = ls /\ Answer(s) /\ UNCHANGED replayCmdbuf
  BY <1>3 DEF Answer, Outcome
<1> QED
  BY <1>2, <1>3 DEF GetPort

(* A handler that starts from lists where its session is in use, and the   *)
(* others wait where they did, leaves every blocked client accounted for,  *)
(* whoever it answers or postpones.                                        *)
LEMMA OutcomeAccounted ==
  ASSUME Inv, NEW ls, Partition(ls, SessionLists, Sessions), NEW s \in Elements(ls["inUse"]),
         replyTarget = None,
         WaitingIn(ls) \ {s} = Waiting \ {s},
         Elements(ls["waitRegister"]) \subseteq In("waitRegister"),
         client' \in [Sessions -> {"closed", "idle", "sent", "served"}],
         client'[s] \in {"served", "closed"},
         \A t \in Sessions : t # s => client'[t] = client[t],
         UNCHANGED servicesInfo,
         Outcome(ls, s)
  PROVE  /\ PoolInv' /\ BlockedClientsAccounted' /\ ReplyListed' /\ NoneAwaits'
         /\ lists'["wakeUp"] = ls["wakeUp"]
         /\ replyTarget' \in Sessions \cup {None}
         /\ replayCmdbuf' \in [Sessions -> Saved]
<1>1. /\ ls \in [SessionLists -> Seq(Sessions)] /\ s \in Sessions
      /\ \A l \in SessionLists : Elements(ls[l]) \subseteq Sessions
      /\ s \notin WaitingIn(ls)
      /\ s # None
  <2>1. \A l \in SessionLists : ls[l] \in Seq(Sessions)
    BY DEF Partition
  <2>2. \A l \in SessionLists : Elements(ls[l]) \subseteq Sessions
    BY <2>1, LenProperties, ElementOfSeq DEF Elements
  <2>3. s \in Sessions
    BY <2>2 DEF SessionLists
  <2> QED
    BY <2>2, <2>3, PoolAssumption DEF Partition, WaitingIn, SessionLists
<1>2. replayCmdbuf \in [Sessions -> Saved]
  BY DEF Inv, TypeInv
<1>3. CASE lists' = ls /\ replyTarget' = s /\ UNCHANGED replayCmdbuf
  <2>1. PoolInv'
    BY <1>3 DEF PoolInv
  <2>2. Waiting' = WaitingIn(ls)
    BY <1>3 DEF Waiting, WaitingIn, In
  <2>3. BlockedClientsAccounted'
    BY <1>1, <1>3, <2>2, PoolAssumption DEF BlockedClientsAccounted, Inv
  <2>4. ReplyListed'
    BY <1>3 DEF ReplyListed, In
  <2>5. NoneAwaits'
    BY <1>3 DEF NoneAwaits, In, Inv
  <2> QED
    BY <1>1, <1>2, <1>3, <2>1, <2>3, <2>4, <2>5
<1>4. ASSUME NEW list \in {"waitRegister", "waitPort"}, NEW saved \in Saved,
             lists' = moveNode(ls, s, list, TRUE),
             replyTarget' = None,
             replayCmdbuf' = [replayCmdbuf EXCEPT ![s] = saved],
             list = "waitRegister" => \A e \in Elements(servicesInfo) : ~Awaits(saved, e)
      PROVE  /\ PoolInv' /\ BlockedClientsAccounted' /\ ReplyListed' /\ NoneAwaits'
             /\ lists'["wakeUp"] = ls["wakeUp"]
  <2>1. list \in SessionLists /\ TRUE \in BOOLEAN
    BY DEF SessionLists
  <2>2. PoolInv' /\ MovedTo(ls, lists', SessionLists, s, list)
    BY <1>1, <1>4, <2>1, MoveNode DEF PoolInv
  <2>3. Waiting' = WaitingIn(ls) \cup {s}
    BY <1>1, <2>1, <2>2 DEF MovedTo, Waiting, In, WaitingIn, SessionLists
  <2>4. BlockedClientsAccounted'
    BY <1>1, <1>4, <2>3 DEF BlockedClientsAccounted, Inv
  <2>5. ReplyListed'
    BY <1>4 DEF ReplyListed
  <2>6. NoneAwaits'
    <3> SUFFICES ASSUME NEW t \in In("waitRegister")', NEW e \in Elements(servicesInfo)
                 PROVE  ~Awaits(replayCmdbuf'[t], e)
      BY DEF NoneAwaits
    <3>1. CASE t = s
      <4>1. list = "waitRegister"
        BY <1>1, <2>1, <2>2, <3>1 DEF MovedTo, In, SessionLists, WaitingIn
      <4> QED
        BY <1>1, <1>2, <1>4, <3>1, <4>1
    <3>2. CASE t # s
      <4>1. t \in In("waitRegister")
        BY <2>1, <2>2, <3>2 DEF MovedTo, In, SessionLists
      <4>2. t \in Sessions
        BY <4>1, ListFacts DEF Inv, SessionLists
      <4>3. replayCmdbuf'[t] = replayCmdbuf[t]
        BY <1>2, <1>4, <3>2, <4>2
      <4> QED
        BY <4>1, <4>3 DEF NoneAwaits, Inv
    <3> QED
      BY <3>1, <3>2
  <2>7. lists'["wakeUp"] = ls["wakeUp"]
    BY <1>1, <2>1, <2>2 DEF MovedTo, WaitingIn, SessionLists
  <2> QED
    BY <2>2, <2>4, <2>5, <2>6, <2>7
<1> QED
  BY <1>1, <1>2, <1>3, <1>4 DEF Outcome
-----------------------------------------------------------------------------
(* The table                                                               *)

LEMMA EntryInTable ==
  ASSUME TypeInv, NEW kind, NEW name, Registered(kind, name)
  PROVE  /\ Entry(kind, name) \in DOMAIN servicesInfo
         /\ servicesInfo[Entry(kind, name)] \in Entries
         /\ servicesInfo[Entry(kind, name)] \in Elements(servicesInfo)
         /\ servicesInfo[Entry(kind, name)].port \in Ports
<1>1. Entry(kind, name) \in DOMAIN servicesInfo
  BY DEF Registered, Entry
<1>2. servicesInfo \in Seq(Entries) /\ DOMAIN servicesInfo = 1 .. Len(servicesInfo)
  BY LenProperties DEF TypeInv
<1>3. servicesInfo[Entry(kind, name)] \in Entries
  BY <1>1, <1>2, ElementOfSeq
<1> QED
  BY <1>1, <1>3 DEF Entries, Elements

(* Removing an entry keeps the others, in whatever order.                  *)
LEMMA EntryRemoved ==
  ASSUME NEW table \in Seq(Entries), Distinct(table), NEW i \in DOMAIN table
  PROVE  /\ SwapRemove(table, i) \in Seq(Entries)
         /\ Len(SwapRemove(table, i)) = Len(table) - 1
         /\ Distinct(SwapRemove(table, i))
         /\ Elements(SwapRemove(table, i)) = Elements(table) \ {table[i]}
         /\ \A j \in 1 .. Len(table) - 1 :
              SwapRemove(table, i)[j] = IF j = i THEN table[Len(table)] ELSE table[j]
<1>1. SwapRemove(table, i) = SwapLast(table, i)
  BY DEF SwapRemove, SwapLast
<1> QED
  BY <1>1, SwapLastProperties

(* The loop of UnregisterProcess removes what the process owns and nothing *)
(* else.  Before the i-th position nothing is owned, and each turn brings  *)
(* the position and the end of the table closer by one.                    *)
Sweeping(table, p, n, d) ==
  /\ d \in [services : Seq(Entries), i : Nat \ {0}]
  /\ Len(d.services) - d.i + 1 = Len(table) - n
  /\ Distinct(d.services)
  /\ Elements(d.services) \subseteq Elements(table)
  /\ \A e \in Elements(table) : e.pid # p => e \in Elements(d.services)
  /\ \A j \in 1 .. d.i - 1 : d.services[j].pid # p

SweepStep(d, p) ==
  IF d.services[d.i].pid = p THEN [services |-> SwapRemove(d.services, d.i), i |-> d.i]
  ELSE [services |-> d.services, i |-> d.i + 1]

LEMMA Sweep ==
  ASSUME NEW table \in Seq(Entries), NEW p, NEW n \in 1 .. Len(table), NEW d,
         Sweeping(table, p, n - 1, d)
  PROVE  Sweeping(table, p, n, SweepStep(d, p))
<1> DEFINE t == d.services
           i == d.i
<1>1. /\ d = [services |-> t, i |-> i] /\ t \in Seq(Entries) /\ i \in Nat \ {0}
      /\ Len(t) - i + 1 = Len(table) - (n - 1)
      /\ Distinct(t) /\ Elements(t) \subseteq Elements(table)
      /\ \A e \in Elements(table) : e.pid # p => e \in Elements(t)
      /\ \A j \in 1 .. i - 1 : t[j].pid # p
  BY DEF Sweeping
<1> HIDE DEF t, i
<1>2. /\ Len(table) \in Nat /\ Len(t) \in Nat /\ DOMAIN t = 1 .. Len(t)
      /\ i \in DOMAIN t
  <2>1. Len(table) \in Nat /\ Len(t) \in Nat /\ DOMAIN t = 1 .. Len(t)
    BY <1>1, LenProperties
  <2> QED
    BY <1>1, <2>1
<1>5. /\ Len(table) \in Int /\ Len(t) \in Int /\ i \in Int /\ n \in Int
      /\ Len(t) - i + 1 = Len(table) - (n - 1)
      /\ 1 <= i /\ i <= Len(t)
  BY <1>1, <1>2
<1>3. CASE t[i].pid = p
  <2> DEFINE r == SwapRemove(t, i)
  <2>1. /\ r \in Seq(Entries) /\ Len(r) = Len(t) - 1 /\ Distinct(r)
        /\ Elements(r) = Elements(t) \ {t[i]}
        /\ \A j \in 1 .. Len(t) - 1 : r[j] = IF j = i THEN t[Len(t)] ELSE t[j]
    BY <1>1, <1>2, EntryRemoved
  <2> HIDE DEF r
  <2>2. SweepStep(d, p) = [services |-> r, i |-> i]
    BY <1>3 DEF SweepStep, r, t, i
  <2>3. ASSUME NEW j \in 1 .. i - 1
        PROVE  r[j].pid # p
    <3>1. j \in 1 .. Len(t) - 1 /\ j # i
      BY <1>5
    <3>2. r[j] = t[j]
      BY <2>1, <3>1
    <3> QED
      BY <1>1, <3>2
  <2>4. Len(r) - i + 1 = Len(table) - n
    <3>1. Len(r) = Len(t) - 1
      BY <2>1
    <3> QED
      BY <1>5, <3>1
  <2>5. \A e \in Elements(table) : e.pid # p => e \in Elements(r)
    BY <1>1, <1>3, <2>1
  <2>6. Elements(r) \subseteq Elements(table)
    BY <1>1, <2>1
  <2> QED
    BY <1>1, <2>1, <2>2, <2>3, <2>4, <2>5, <2>6, SMTT(30) DEF Sweeping
<1>4. CASE t[i].pid # p
  <2>1. SweepStep(d, p) = [services |-> t, i |-> i + 1]
    BY <1>4 DEF SweepStep, t, i
  <2>2. \A j \in 1 .. (i + 1) - 1 : t[j].pid # p
    BY <1>1, <1>4
  <2>3. Len(t) - (i + 1) + 1 = Len(table) - n
    BY <1>5
  <2> QED
    BY <1>1, <2>1, <2>2, <2>3 DEF Sweeping
<1> QED
  BY <1>3, <1>4

LEMMA OwnedRemoved ==
  ASSUME NEW table \in Seq(Entries), Distinct(table), NEW p
  PROVE  /\ RemoveOwned(table, p) \in Seq(Entries)
         /\ Distinct(RemoveOwned(table, p))
         /\ Elements(RemoveOwned(table, p)) = {e \in Elements(table) : e.pid # p}
<1> DEFINE n == Len(table)
           base == [services |-> table, i |-> 1]
           States == [services : Seq(Entries), i : Nat \ {0}]
           D == [k \in 0 .. n |-> {d \in States : Sweeping(table, p, k, d)}]
           step == [x \in (1 .. n) \X States |-> SweepStep(x[2], p)]
           IsAfter(f) == f = [k \in 0 .. n |->
                                IF k = 0 THEN base ELSE SweepStep(f[k - 1], p)]
<1>1. n \in Nat /\ DOMAIN table = 1 .. n
  BY LenProperties
<1>2. Sweeping(table, p, 0, base)
  BY <1>1 DEF Sweeping
<1>3. \A k, d : Sweeping(table, p, k, d) => d \in States
  BY DEF Sweeping
<1>4. \A k \in 1 .. n : k \in 0 .. n /\ k - 1 \in 0 .. n
  BY <1>1
<1> HIDE DEF n, base, States
<1>5. \E f : IsAfter(f)
  <2>1. base \in D[0]
    BY <1>1, <1>2, <1>3
  <2>2. \A k \in 1 .. n, d \in States : step[<<k, d>>] = SweepStep(d, p)
    OBVIOUS
  <2>3. ASSUME NEW k \in 1 .. n, NEW d \in D[k - 1]
        PROVE  step[<<k, d>>] \in D[k]
    <3>1. d \in States /\ Sweeping(table, p, k - 1, d)
      BY <1>4
    <3>2. Sweeping(table, p, k, SweepStep(d, p))
      BY <3>1, Sweep DEF n
    <3> QED
      BY <1>3, <1>4, <2>2, <3>1, <3>2
  <2>4. \A k \in 0 .. n : D[k] \subseteq States
    OBVIOUS
  <2> HIDE DEF D, step
  <2>5. PICK f : Follows(f, n, base, step, D)
    BY <1>1, <2>1, <2>3, Recursion
  <2>6. ASSUME NEW k \in 1 .. n
        PROVE  f[k] = SweepStep(f[k - 1], p)
    BY <1>4, <2>2, <2>4, <2>5 DEF Follows
  <2>7. f = [k \in 0 .. n |-> f[k]] /\ f[0] = base
    BY <2>5 DEF Follows
  <2>8. ASSUME NEW k \in 0 .. n
        PROVE  f[k] = IF k = 0 THEN base ELSE SweepStep(f[k - 1], p)
    <3>1. k # 0 => k \in 1 .. n
      BY <1>1
    <3> QED
      BY <2>6, <2>7, <3>1
  <2>9. IsAfter(f)
    BY <2>7, <2>8
  <2> QED
    BY <2>9
<1> DEFINE u == CHOOSE f : IsAfter(f)
<1>6. IsAfter(u)
  <2> HIDE DEF IsAfter
  <2> QED
    BY <1>5
<1>7. RemoveOwned(table, p) = u[n].services
  BY DEF RemoveOwned, SweepStep, n, base
<1> HIDE DEF u
<1>8. u[0] = base /\ \A k \in 1 .. n : u[k] = SweepStep(u[k - 1], p)
  BY <1>1, <1>4, <1>6
<1> DEFINE T == {k \in 0 .. n : Sweeping(table, p, k, u[k])}
<1>9. n \in T
  <2>1. 0 \in T
    BY <1>1, <1>2, <1>8
  <2>2. \A k \in 1 .. n : k - 1 \in T => k \in T
    <3> SUFFICES ASSUME NEW k \in 1 .. n, k - 1 \in T
                 PROVE  k \in T
      OBVIOUS
    <3>1. Sweeping(table, p, k, SweepStep(u[k - 1], p))
      BY Sweep DEF n
    <3> QED
      BY <1>4, <1>8, <3>1
  <2> HIDE DEF T
  <2>3. \A k \in 0 .. n : k \in T
    BY <1>1, <2>1, <2>2, BoundedInduction
  <2> QED
    BY <1>1, <2>3
<1>10. Sweeping(table, p, n, u[n])
  BY <1>9
<1> DEFINE r == u[n].services
<1>11. /\ r \in Seq(Entries) /\ Distinct(r)
       /\ u[n].i \in Nat /\ Len(r) - u[n].i + 1 = n - n
       /\ Elements(r) \subseteq Elements(table)
       /\ \A e \in Elements(table) : e.pid # p => e \in Elements(r)
       /\ \A j \in 1 .. u[n].i - 1 : r[j].pid # p
  BY <1>10 DEF Sweeping, n
<1> HIDE DEF r
<1>12. DOMAIN r = 1 .. u[n].i - 1
  <2>1. Len(r) \in Nat /\ DOMAIN r = 1 .. Len(r)
    BY <1>11, LenProperties
  <2> QED
    BY <1>1, <1>11, <2>1
<1>13. \A e \in Elements(r) : e.pid # p
  BY <1>11, <1>12 DEF Elements
<1> QED
  BY <1>7, <1>11, <1>13 DEF r
-----------------------------------------------------------------------------
(* The steps of the clients, the servers and the kernel                    *)

LEMMA InitInv == Init => Inv
<1> SUFFICES ASSUME Init
             PROVE  Inv
  OBVIOUS
<1> USE DEF Init
<1>1. FreeOrder \in Seq(Sessions) /\ Elements(FreeOrder) = Sessions /\ Distinct(FreeOrder)
  <2>1. FreeOrder \in Seq(Sessions) /\ Distinct(FreeOrder)
    BY PoolAssumption DEF Distinct
  <2>2. \A i \in DOMAIN FreeOrder : FreeOrder[i] \in Sessions
    BY <2>1, LenProperties, ElementOfSeq
  <2> QED
    BY <2>1, <2>2, PoolAssumption DEF Elements
<1>2. Elements(<<>>) = {} /\ Distinct(<<>>) /\ <<>> \in Seq(Sessions) /\ <<>> \in Seq(Entries)
      /\ Len(<<>>) = 0
  BY DEF Elements, Distinct
<1>3. /\ lists \in [SessionLists -> Seq(Sessions)]
      /\ lists["free"] = FreeOrder
      /\ \A l \in SessionLists : l # "free" => lists[l] = <<>>
      /\ "free" \in SessionLists
  BY <1>1, <1>2 DEF SessionLists
<1>4. PoolInv
  BY <1>1, <1>2, <1>3 DEF PoolInv, Partition
<1>5. In("waitRegister") = {} /\ Waiting = {} /\ lists["wakeUp"] = <<>>
  BY <1>2, <1>3 DEF In, Waiting, SessionLists
<1>6. SemaphoreCountsWakeUps /\ NoneAwaits /\ ReplyListed
  BY <1>2, <1>5 DEF SemaphoreCountsWakeUps, NoneAwaits, ReplyListed
<1>7. BlockedClientsAccounted
  BY <1>5, PoolAssumption DEF BlockedClientsAccounted
<1>8. TableInv
  BY <1>2, BoundsAssumption DEF TableInv, Unshared, PortsOf
<1>9. TypeInv
  BY <1>2 DEF TypeInv, NoSaved, Saved
<1> QED
  BY <1>4, <1>6, <1>7, <1>8, <1>9 DEF Inv

(* What a step that leaves the table alone keeps of it.                    *)
LEMMA SameTable ==
  ASSUME Inv, UNCHANGED <<servicesInfo, portOpen>>
  PROVE  TableInv'
BY DEF Inv, TableInv, Unshared, PortsOf

LEMMA SameLists ==
  ASSUME Inv, UNCHANGED <<lists, replayCmdbuf, servicesInfo, portOpen>>
  PROVE  PoolInv' /\ NoneAwaits' /\ TableInv' /\ Waiting' = Waiting /\ In("inUse")' = In("inUse")
BY SameTable DEF Inv, PoolInv, NoneAwaits, Waiting, In

(* A panic of the loop is the last thing it does.                          *)
LEMMA InvalidHandleStep ==
  ASSUME Inv, InvalidHandle
  PROVE  Inv'
<1>1. PoolInv' /\ NoneAwaits' /\ TableInv' /\ Waiting' = Waiting /\ In("inUse")' = In("inUse")
  BY SameLists DEF InvalidHandle, sessionVars, tableVars, kernelVars
<1> USE DEF Inv, InvalidHandle, sessionVars, tableVars, kernelVars, clientVars
<1>2. TypeInv'
  BY DEF TypeInv
<1>3. SemaphoreCountsWakeUps'
  BY DEF SemaphoreCountsWakeUps
<1>4. BlockedClientsAccounted' /\ ReplyListed'
  BY <1>1 DEF BlockedClientsAccounted, ReplyListed
<1> QED
  BY <1>1, <1>2, <1>3, <1>4

LEMMA DeliverStep ==
  ASSUME Inv, Deliver
  PROVE  Inv'
<1>1. PoolInv' /\ NoneAwaits' /\ TableInv' /\ Waiting' = Waiting /\ In("inUse")' = In("inUse")
  BY SameLists DEF Deliver, sessionVars, tableVars, kernelVars
<1>2. replyTarget \in Sessions /\ replyTarget \notin Waiting
  BY ListFacts DEF Inv, Deliver, ReplyListed, TypeInv
<1> USE DEF Inv, Deliver, sessionVars, tableVars, kernelVars
<1>3. TypeInv'
  BY DEF TypeInv
<1>4. SemaphoreCountsWakeUps'
  BY DEF SemaphoreCountsWakeUps
<1>5. BlockedClientsAccounted'
  <2>1. client \in [Sessions -> {"closed", "idle", "sent", "served"}]
    BY DEF TypeInv
  <2> QED
    BY <1>1, <1>2, <2>1, PoolAssumption DEF BlockedClientsAccounted
<1>6. ReplyListed'
  BY DEF ReplyListed
<1> QED
  BY <1>1, <1>3, <1>4, <1>5, <1>6

LEMMA CloseSessionStep ==
  ASSUME Inv, NEW s \in In("inUse"), client[s] = "closed", replyTarget \in {s, None},
         CloseSession(s)
  PROVE  Inv'
<1>1. s \in Sessions /\ "free" \in SessionLists /\ FALSE \in BOOLEAN
  BY ListFacts DEF Inv, SessionLists
<1>2. lists' = moveNode(lists, s, "free", FALSE)
  BY DEF CloseSession
<1>3. PoolInv' /\ MovedTo(lists, lists', SessionLists, s, "free")
  BY <1>1, <1>2, MoveNode DEF PoolInv, Inv
<1>4. s \notin Waiting
  BY ListFacts DEF Inv
<1>5. /\ Waiting' = Waiting
      /\ In("waitRegister")' = In("waitRegister")
      /\ lists'["wakeUp"] = lists["wakeUp"]
  BY <1>3, <1>4 DEF MovedTo, Waiting, In, SessionLists
<1> USE DEF Inv, CloseSession, sessionVars, tableVars, kernelVars, clientVars
<1>6. TypeInv'
  BY DEF TypeInv
<1>7. SemaphoreCountsWakeUps'
  BY <1>5 DEF SemaphoreCountsWakeUps
<1>8. BlockedClientsAccounted'
  BY <1>4, <1>5, PoolAssumption DEF BlockedClientsAccounted
<1>9. ReplyListed' /\ NoneAwaits' /\ TableInv'
  BY <1>5, SameTable DEF ReplyListed, NoneAwaits
<1> QED
  BY <1>3, <1>6, <1>7, <1>8, <1>9

LEMMA ReplyFailedStep ==
  ASSUME Inv, ReplyFailed
  PROVE  Inv'
<1>1. replyTarget \in In("inUse")
  BY DEF Inv, ReplyListed, ReplyFailed
<1> QED
  BY <1>1, CloseSessionStep DEF ReplyFailed

LEMMA SessionClosedStep ==
  ASSUME Inv, NEW s \in Sessions, SessionClosed(s)
  PROVE  Inv'
BY CloseSessionStep DEF SessionClosed, ReceivingOther, Receiving

LEMMA NewSessionStep ==
  ASSUME Inv, NEW p \in Pids, NEW srvPm \in BOOLEAN, NewSession(srvPm, p)
  PROVE  Inv'
<1> USE DEF NewSession, sessionVars, tableVars, kernelVars, clientVars
<1>1. replyTarget = None /\ resumeSemaphore = 0 /\ panicked = "no"
  BY DEF ReceivingOther, Receiving
<1>2. CASE lists["free"] = <<>>
  <2>1. UNCHANGED <<lists, replayCmdbuf, servicesInfo, portOpen, client, replyTarget>>
    BY <1>2
  <2>2. PoolInv' /\ NoneAwaits' /\ TableInv' /\ Waiting' = Waiting /\ In("inUse")' = In("inUse")
    BY <2>1, SameLists
  <2>3. TypeInv'
    BY <1>2 DEF TypeInv, Inv
  <2>4. SemaphoreCountsWakeUps'
    BY <1>2 DEF SemaphoreCountsWakeUps
  <2>5. BlockedClientsAccounted' /\ ReplyListed'
    BY <2>1, <2>2 DEF BlockedClientsAccounted, ReplyListed, Inv
  <2> QED
    BY <2>2, <2>3, <2>4, <2>5 DEF Inv
<1>3. CASE lists["free"] # <<>>
  <2> DEFINE s == Head(lists["free"])
  <2>1. s \in In("free") /\ s \in Sessions
    <3>1. lists["free"] \in Seq(Sessions)
      BY ListFacts DEF Inv, SessionLists
    <3>2. s \in In("free")
      BY <1>3, <3>1, HeadAndTail DEF In
    <3> QED
      BY <3>2, ListFacts DEF Inv, SessionLists
  <2> HIDE DEF s
  <2>2. /\ lists' = moveNode(lists, s, "inUse", FALSE)
        /\ pid' = [pid EXCEPT ![s] = NoPid]
        /\ isSrvPm' = [isSrvPm EXCEPT ![s] = srvPm]
        /\ replayCmdbuf' = [replayCmdbuf EXCEPT ![s] = NoSaved]
        /\ busyClientPortHandle' = [busyClientPortHandle EXCEPT ![s] = NoPort]
        /\ owner' = [owner EXCEPT ![s] = p]
        /\ client' = [client EXCEPT ![s] = "idle"]
        /\ UNCHANGED <<panicked, request>>
    BY <1>3 DEF s
  <2>3. PoolInv' /\ MovedTo(lists, lists', SessionLists, s, "inUse")
    BY <2>1, <2>2, MoveNode DEF PoolInv, Inv, SessionLists
  <2>4. s \notin Waiting /\ s # None
    BY <2>1, ListFacts, PoolAssumption DEF Inv
  <2>5. /\ Waiting' = Waiting
        /\ In("waitRegister")' = In("waitRegister")
        /\ lists'["wakeUp"] = lists["wakeUp"]
    BY <2>3, <2>4 DEF MovedTo, Waiting, In, SessionLists
  <2>6. TypeInv'
    BY <2>1, <2>2 DEF TypeInv, Inv, NoSaved, Saved
  <2>7. SemaphoreCountsWakeUps'
    BY <2>2, <2>5 DEF SemaphoreCountsWakeUps, Inv
  <2>8. BlockedClientsAccounted'
    <3>1. client \in [Sessions -> {"closed", "idle", "sent", "served"}]
      BY DEF TypeInv, Inv
    <3> QED
      BY <1>1, <2>1, <2>2, <2>4, <2>5, <3>1 DEF BlockedClientsAccounted, Inv
  <2>9. ReplyListed'
    BY <1>1 DEF ReplyListed
  <2>10. NoneAwaits'
    <3>1. \A t \in In("waitRegister") : replayCmdbuf'[t] = replayCmdbuf[t]
      BY <2>2, <2>4, ListFacts DEF Inv, TypeInv, Waiting, SessionLists
    <3> QED
      BY <2>5, <3>1 DEF NoneAwaits, Inv
  <2> QED
    BY <2>3, <2>6, <2>7, <2>8, <2>9, <2>10, SameTable DEF Inv
<1> QED
  BY <1>2, <1>3

(* What the clients and the servers do touches neither the lists nor the   *)
(* table.                                                                  *)
LEMMA EnvironmentStep ==
  ASSUME Inv, Environment
  PROVE  Inv'
<1>1. PoolInv' /\ NoneAwaits' /\ TableInv' /\ Waiting' = Waiting /\ In("inUse")' = In("inUse")
  <2>1. UNCHANGED <<lists, replayCmdbuf, servicesInfo, portOpen>>
    BY DEF Environment, SendRequest, CloseClient, EndSession, CloseServer, sessionVars,
       tableVars, kernelVars
  <2> QED
    BY <2>1, SameLists
<1>2. UNCHANGED <<replyTarget, lists, resumeSemaphore, panicked>>
  BY DEF Environment, SendRequest, CloseClient, EndSession, CloseServer
<1>3. SemaphoreCountsWakeUps' /\ ReplyListed'
  BY <1>1, <1>2 DEF SemaphoreCountsWakeUps, ReplyListed, Inv
<1>4. /\ TypeInv /\ BlockedClientsAccounted
      /\ client \in [Sessions -> {"closed", "idle", "sent", "served"}]
  BY DEF Inv, TypeInv
<1>5. ASSUME NEW s \in Sessions, NEW c \in Requests, SendRequest(s, c)
      PROVE  TypeInv' /\ BlockedClientsAccounted'
  <2>1. TypeInv'
    BY <1>4, <1>5 DEF TypeInv, SendRequest, sessionVars, tableVars, kernelVars
  <2>2. BlockedClientsAccounted'
    BY <1>1, <1>4, <1>5 DEF BlockedClientsAccounted, SendRequest
  <2> QED
    BY <2>1, <2>2
<1>6. ASSUME NEW s \in Sessions, CloseClient(s)
      PROVE  TypeInv' /\ BlockedClientsAccounted'
  <2>1. TypeInv'
    BY <1>4, <1>6 DEF TypeInv, CloseClient, sessionVars, tableVars, kernelVars
  <2>2. BlockedClientsAccounted'
    BY <1>1, <1>4, <1>6 DEF BlockedClientsAccounted, CloseClient
  <2> QED
    BY <2>1, <2>2
<1>7. ASSUME NEW p \in Ports, EndSession(p) \/ CloseServer(p)
      PROVE  TypeInv' /\ BlockedClientsAccounted'
  <2>1. TypeInv'
    <3>1. CASE EndSession(p)
      <4>1. portSessions' \in [Ports -> Nat]
        BY <1>4, <3>1 DEF TypeInv, EndSession
      <4> QED
        BY <1>4, <3>1, <4>1 DEF TypeInv, EndSession, sessionVars, tableVars, clientVars
    <3>2. CASE CloseServer(p)
      BY <1>4, <3>2 DEF TypeInv, CloseServer, sessionVars, tableVars, clientVars
    <3> QED
      BY <1>7, <3>1, <3>2
  <2>2. BlockedClientsAccounted'
    BY <1>1, <1>4, <1>7 DEF BlockedClientsAccounted, EndSession, CloseServer, clientVars
  <2> QED
    BY <2>1, <2>2
<1>8. TypeInv' /\ BlockedClientsAccounted'
  BY <1>5, <1>6, <1>7 DEF Environment
<1> QED
  BY <1>1, <1>3, <1>8 DEF Inv
-----------------------------------------------------------------------------
(* Commands                                                                *)

(* What the loop does around every command of a session.                   *)
CommandFrame(s) ==
  /\ panicked = "no" /\ replyTarget = None /\ resumeSemaphore = 0
  /\ s \in In("inUse")
  /\ client' = [client EXCEPT ![s] = "served"]
  /\ cmdbuf4' \in Nat
  /\ UNCHANGED <<panicked, owner, request>>

LEMMA FrameFacts ==
  ASSUME Inv, NEW s, CommandFrame(s)
  PROVE  /\ s \in Sessions /\ s # None /\ s \notin Waiting
         /\ client' \in [Sessions -> {"closed", "idle", "sent", "served"}]
         /\ client'[s] = "served"
         /\ \A t \in Sessions : t # s => client'[t] = client[t]
<1>1. s \in Sessions /\ s # None /\ s \notin Waiting
  BY ListFacts, PoolAssumption DEF Inv, CommandFrame, SessionLists
<1>2. client \in [Sessions -> {"closed", "idle", "sent", "served"}]
  BY DEF Inv, TypeInv
<1> QED
  BY <1>1, <1>2 DEF CommandFrame

(* A command that is answered at once, and registers nothing.              *)
LEMMA AnsweredStep ==
  ASSUME Inv, NEW s, CommandFrame(s), Answer(s),
         UNCHANGED <<lists, replayCmdbuf, resumeSemaphore>>,
         Elements(servicesInfo') \subseteq Elements(servicesInfo)
  PROVE  /\ PoolInv' /\ SemaphoreCountsWakeUps' /\ BlockedClientsAccounted'
         /\ ReplyListed' /\ NoneAwaits'
<1>1. PoolInv' /\ Waiting' = Waiting
  BY DEF Inv, PoolInv, Waiting, In
<1>2. SemaphoreCountsWakeUps'
  BY DEF Inv, SemaphoreCountsWakeUps, CommandFrame
<1>3. BlockedClientsAccounted'
  <2>1. replyTarget = None /\ replyTarget' = s
    BY DEF CommandFrame, Answer
  <2> QED
    BY <1>1, <2>1, FrameFacts, PoolAssumption DEF BlockedClientsAccounted, Inv
<1>4. ReplyListed'
  BY DEF ReplyListed, Answer, CommandFrame, In
<1>5. NoneAwaits'
  BY DEF NoneAwaits, In, Inv
<1> QED
  BY <1>1, <1>2, <1>3, <1>4, <1>5

LEMMA RefuseStep ==
  ASSUME Inv, NEW s, CommandFrame(s), Refuse(s)
  PROVE  Inv'
<1> USE DEF Refuse, sessionVars, tableVars, kernelVars
<1>1. /\ PoolInv' /\ SemaphoreCountsWakeUps' /\ BlockedClientsAccounted'
      /\ ReplyListed' /\ NoneAwaits'
  BY AnsweredStep
<1>2. TableInv'
  BY SameTable
<1>3. TypeInv'
  BY FrameFacts DEF TypeInv, Inv, CommandFrame, Answer
<1> QED
  BY <1>1, <1>2, <1>3 DEF Inv

LEMMA RegisterClientStep ==
  ASSUME Inv, NEW s, CommandFrame(s), RegisterClient(s)
  PROVE  Inv'
<1> USE DEF RegisterClient, sessionVars, tableVars, kernelVars
<1>1. /\ PoolInv' /\ SemaphoreCountsWakeUps' /\ BlockedClientsAccounted'
      /\ ReplyListed' /\ NoneAwaits'
  BY AnsweredStep
<1>2. TableInv'
  BY SameTable
<1>3. TypeInv'
  BY FrameFacts DEF TypeInv, Inv, CommandFrame, Answer
<1> QED
  BY <1>1, <1>2, <1>3 DEF Inv

LEMMA RegisterProcessStep ==
  ASSUME Inv, NEW s, NEW p \in Pids \cup {NoPid}, CommandFrame(s), RegisterProcess(s, p)
  PROVE  Inv'
<1> USE DEF RegisterProcess, sessionVars, tableVars, kernelVars
<1>1. /\ PoolInv' /\ SemaphoreCountsWakeUps' /\ BlockedClientsAccounted'
      /\ ReplyListed' /\ NoneAwaits'
  BY AnsweredStep
<1>2. TableInv'
  BY SameTable
<1>3. TypeInv'
  BY FrameFacts DEF TypeInv, Inv, CommandFrame, Answer
<1> QED
  BY <1>1, <1>2, <1>3 DEF Inv

(* Entries that go take their ports with them, as no two share one.        *)
LEMMA TableShrinks ==
  ASSUME Inv, NEW gone,
         servicesInfo' \in Seq(Entries), Distinct(servicesInfo'),
         Elements(servicesInfo') = Elements(servicesInfo) \ gone,
         gone \subseteq Elements(servicesInfo),
         \A p \in Ports : portOpen'[p] <=> portOpen[p] /\ p \notin {e.port : e \in gone}
  PROVE  TableInv'
<1>1. TableInv /\ servicesInfo \in Seq(Entries)
  BY DEF Inv, TypeInv
<1>2. Unshared(servicesInfo')
  BY <1>1 DEF TableInv, Unshared
<1>3. \A e \in Elements(servicesInfo) : e \in gone \/ e.port \notin {g.port : g \in gone}
  BY <1>1 DEF TableInv, Unshared
<1>4. PortsOf(servicesInfo') = {p \in Ports : portOpen'[p]}
  BY <1>1, <1>3 DEF TableInv, PortsOf
<1>5. Len(servicesInfo') <= Len(servicesInfo)
  <2>1. /\ IsFiniteSet(Elements(servicesInfo))
        /\ Cardinality(Elements(servicesInfo)) = Len(servicesInfo)
    BY <1>1, CountDistinct DEF TableInv, Unshared
  <2>2. Cardinality(Elements(servicesInfo) \ gone) = Len(servicesInfo')
    BY CountDistinct
  <2>3. Elements(servicesInfo) \ gone \subseteq Elements(servicesInfo)
    OBVIOUS
  <2> QED
    BY <2>1, <2>2, <2>3, FS_Subset
<1>6. Len(servicesInfo') <= MaxServices
  <2>1. Len(servicesInfo) \in Nat /\ Len(servicesInfo') \in Nat
    BY <1>1, LenProperties
  <2> QED
    BY <1>1, <1>5, <2>1, BoundsAssumption DEF TableInv
<1> QED
  BY <1>2, <1>4, <1>6 DEF TableInv

LEMMA UnregisterServiceOrPortStep ==
  ASSUME Inv, NEW s, NEW kind, NEW name, CommandFrame(s),
         UnregisterServiceOrPort(s, kind, name)
  PROVE  Inv'
<1> DEFINE i == Entry(kind, name)
<1>1. CASE Refuse(s)
  BY <1>1, RefuseStep
<1>2. CASE /\ Registered(kind, name)
           /\ portOpen' = [portOpen EXCEPT ![servicesInfo[i].port] = FALSE]
           /\ servicesInfo' = SwapRemove(servicesInfo, i)
           /\ Answer(s)
           /\ UNCHANGED <<lists, sessionVars, processes, resumeSemaphore,
                          maxSessions, portSessions, serverAlive>>
  <2> DEFINE e == servicesInfo[i]
  <2>1. /\ i \in DOMAIN servicesInfo /\ e \in Elements(servicesInfo) /\ e.port \in Ports
        /\ servicesInfo \in Seq(Entries) /\ Distinct(servicesInfo)
    BY <1>2, EntryInTable DEF Inv, TypeInv, TableInv, Unshared
  <2> HIDE DEF i
  <2>2. /\ servicesInfo' \in Seq(Entries) /\ Distinct(servicesInfo')
        /\ Elements(servicesInfo') = Elements(servicesInfo) \ {e}
    BY <1>2, <2>1, EntryRemoved
  <2>3. portOpen \in [Ports -> BOOLEAN]
    BY DEF Inv, TypeInv
  <2> DEFINE gone == {e}
  <2>4. gone \subseteq Elements(servicesInfo) /\ {g.port : g \in gone} = {e.port}
    BY <2>1
  <2>5. \A p \in Ports : portOpen'[p] <=> portOpen[p] /\ p \notin {g.port : g \in gone}
    BY <1>2, <2>1, <2>3, <2>4
  <2>6. Elements(servicesInfo') = Elements(servicesInfo) \ gone
    BY <2>2
  <2> HIDE DEF gone, e
  <2>7. TableInv'
    BY <2>2, <2>4, <2>5, <2>6, TableShrinks
  <2>8. /\ PoolInv' /\ SemaphoreCountsWakeUps' /\ BlockedClientsAccounted'
        /\ ReplyListed' /\ NoneAwaits'
    BY <1>2, <2>2, AnsweredStep DEF sessionVars
  <2>9. TypeInv'
    BY <1>2, <2>2, FrameFacts DEF TypeInv, Inv, CommandFrame, Answer, sessionVars
  <2> QED
    BY <2>7, <2>8, <2>9 DEF Inv
<1> QED
  BY <1>1, <1>2 DEF UnregisterServiceOrPort

LEMMA UnregisterProcessStep ==
  ASSUME Inv, NEW s, NEW p, CommandFrame(s), UnregisterProcess(s, p)
  PROVE  Inv'
<1>1. CASE Refuse(s)
  BY <1>1, RefuseStep
<1>2. CASE /\ p \in processes
           /\ processes' = processes \ {p}
           /\ portOpen' = [q \in Ports |->
                portOpen[q] /\ ~ \E i \in DOMAIN servicesInfo :
                                    servicesInfo[i].port = q /\ servicesInfo[i].pid = p]
           /\ servicesInfo' = RemoveOwned(servicesInfo, p)
           /\ Answer(s)
           /\ UNCHANGED <<lists, sessionVars, resumeSemaphore, maxSessions,
                          portSessions, serverAlive>>
  <2>1. servicesInfo \in Seq(Entries) /\ Distinct(servicesInfo)
    BY DEF Inv, TypeInv, TableInv, Unshared
  <2> DEFINE gone == {e \in Elements(servicesInfo) : e.pid = p}
  <2>2. /\ servicesInfo' \in Seq(Entries) /\ Distinct(servicesInfo')
        /\ Elements(servicesInfo') = Elements(servicesInfo) \ gone
    BY <1>2, <2>1, OwnedRemoved
  <2>3. portOpen \in [Ports -> BOOLEAN]
    BY DEF Inv, TypeInv
  <2>4. gone \subseteq Elements(servicesInfo)
    OBVIOUS
  <2>5. \A q \in Ports : portOpen'[q] <=> portOpen[q] /\ q \notin {g.port : g \in gone}
    BY <1>2, <2>3 DEF Elements
  <2> HIDE DEF gone
  <2>7. TableInv'
    BY <2>2, <2>4, <2>5, TableShrinks
  <2>8. /\ PoolInv' /\ SemaphoreCountsWakeUps' /\ BlockedClientsAccounted'
        /\ ReplyListed' /\ NoneAwaits'
    BY <1>2, <2>2, AnsweredStep DEF sessionVars
  <2>9. TypeInv'
    BY <1>2, <2>2, <2>3, FrameFacts DEF TypeInv, Inv, CommandFrame, Answer, sessionVars
  <2> QED
    BY <2>7, <2>8, <2>9 DEF Inv
<1> QED
  BY <1>1, <1>2 DEF UnregisterProcess

(* Registering: the sessions that wait for the name move to the wake-up    *)
(* list, and the semaphore is released once for each.                      *)
LEMMA AddEntryStep ==
  ASSUME Inv, NEW s, CommandFrame(s), NEW kind \in {"service", "port"}, NEW name \in Names,
         NEW p \in Ports, NEW max \in Nat, ~Registered(kind, name),
         Len(servicesInfo) < MaxServices,
         AddEntry(s, kind, name, p, max)
  PROVE  Inv'
<1> DEFINE yes == {t \in Sessions : Matches(replayCmdbuf[t], kind, name)}
           no == {t \in Sessions : ~Matches(replayCmdbuf[t], kind, name)}
           e == [kind |-> kind, name |-> name, port |-> p, pid |-> pid[s]]
<1>1. /\ servicesInfo' = Append(servicesInfo, e)
      /\ lists' = [lists EXCEPT !["waitRegister"] = Selected(lists["waitRegister"], no),
                                !["wakeUp"] = @ \o Selected(lists["waitRegister"], yes)]
      /\ resumeSemaphore' = resumeSemaphore + Len(Selected(lists["waitRegister"], yes))
      /\ ~portOpen[p]
      /\ portOpen' = [portOpen EXCEPT ![p] = TRUE]
      /\ maxSessions' = [maxSessions EXCEPT ![p] = max]
      /\ portSessions' = [portSessions EXCEPT ![p] = 0]
      /\ serverAlive' = [serverAlive EXCEPT ![p] = TRUE]
      /\ replyTarget' = s
      /\ UNCHANGED <<pid, isSrvPm, replayCmdbuf, busyClientPortHandle, processes>>
  BY DEF AddEntry, StillWaiting, Woken, ReleasedFor, Answer, sessionVars
<1>2. /\ lists \in [SessionLists -> Seq(Sessions)] /\ DOMAIN lists = SessionLists
      /\ In("waitRegister") \subseteq Sessions
      /\ TypeInv /\ TableInv /\ servicesInfo \in Seq(Entries)
      /\ s \in Sessions
  BY ListFacts, FrameFacts DEF Inv, SessionLists, TypeInv
<1>3. e \in Entries
  BY <1>2 DEF Entries, TypeInv
<1>4. no \cap Elements(lists["waitRegister"]) = Elements(lists["waitRegister"]) \ yes
  BY <1>2 DEF In
<1> HIDE DEF yes, no, e
<1>5. lists' = [lists EXCEPT
                  !["waitRegister"] = Selected(lists["waitRegister"], no),
                  !["wakeUp"] = lists["wakeUp"] \o Selected(lists["waitRegister"], yes)]
  BY <1>1
<1>6. /\ PoolInv'
      /\ In("waitRegister")' = In("waitRegister") \ yes
      /\ In("wakeUp")' = In("wakeUp") \cup (In("waitRegister") \cap yes)
      /\ \A l \in SessionLists : l # "waitRegister" /\ l # "wakeUp" => lists'[l] = lists[l]
      /\ Len(lists'["wakeUp"]) = Len(lists["wakeUp"]) + Len(Selected(lists["waitRegister"], yes))
  <2> DEFINE src == "waitRegister"
             dst == "wakeUp"
             ls == lists
             new == lists'
  <2>1. Partition(ls, SessionLists, Sessions) /\ src \in SessionLists /\ dst \in SessionLists
        /\ src # dst
    BY DEF Inv, PoolInv, SessionLists
  <2>2. MovesSelected(ls, new, src, dst, yes, no)
    BY <1>4, <1>5 DEF MovesSelected
  <2> HIDE DEF src, dst, ls, new
  <2>4. Partition(new, SessionLists, Sessions) /\ SelectedMoved(ls, new, SessionLists, src, dst, yes)
    BY <2>1, <2>2, MoveSelected
  <2> QED
    BY <2>4 DEF src, dst, ls, new, PoolInv, In, SelectedMoved
<1>7. Waiting' = Waiting /\ In("inUse")' = In("inUse")
  BY <1>6 DEF Waiting, In, SessionLists
<1>8. SemaphoreCountsWakeUps'
  BY <1>1, <1>6 DEF SemaphoreCountsWakeUps, Inv, CommandFrame
<1>9. BlockedClientsAccounted'
  <2>1. replyTarget = None /\ replyTarget' = s
    BY <1>1 DEF CommandFrame
  <2> QED
    BY <1>7, <2>1, FrameFacts, PoolAssumption DEF BlockedClientsAccounted, Inv
<1>10. ReplyListed'
  BY <1>1, <1>7 DEF ReplyListed, CommandFrame
<1>11. /\ servicesInfo' \in Seq(Entries) /\ Len(servicesInfo') = Len(servicesInfo) + 1
       /\ Elements(servicesInfo') = Elements(servicesInfo) \cup {e}
  BY <1>1, <1>2, <1>3, AppendElement, AppendProperties
<1>12. NoneAwaits'
  <2> SUFFICES ASSUME NEW t \in In("waitRegister")', NEW f \in Elements(servicesInfo')
               PROVE  ~Awaits(replayCmdbuf[t], f)
    BY <1>1 DEF NoneAwaits
  <2>1. t \in In("waitRegister") /\ t \notin yes /\ t \in Sessions
    BY <1>2, <1>6
  <2>2. CASE f \in Elements(servicesInfo)
    BY <2>1, <2>2 DEF NoneAwaits, Inv
  <2>3. CASE f = e
    <3>1. ~Matches(replayCmdbuf[t], kind, name)
      BY <2>1 DEF yes
    <3>2. <<name, name>> \in Prefixes
      BY NamesAssumption
    <3> QED
      BY <2>3, <3>1, <3>2 DEF Awaits, Matches, e
  <2> QED
    BY <1>11, <2>2, <2>3
<1>13. TableInv'
  <2>1. p \notin PortsOf(servicesInfo)
    BY <1>1, <1>2 DEF TableInv
  <2>2. \A f \in Elements(servicesInfo) :
          f # e /\ f.port # p /\ (f.kind # kind \/ f.name # name)
    BY <2>1 DEF PortsOf, Registered, Elements, e
  <2>3. Distinct(servicesInfo')
    <3>1. Distinct(servicesInfo)
      BY <1>2 DEF TableInv, Unshared
    <3> QED
      BY <1>1, <1>2, <1>3, <2>2, <3>1, AppendElement
  <2>4. Unshared(servicesInfo')
    BY <1>2, <1>11, <2>2, <2>3 DEF TableInv, Unshared, e
  <2>5. PortsOf(servicesInfo') = PortsOf(servicesInfo) \cup {p}
    <3>1. e.port = p
      BY DEF e
    <3> QED
      BY <1>11, <3>1 DEF PortsOf
  <2>6. {q \in Ports : portOpen'[q]} = {q \in Ports : portOpen[q]} \cup {p}
    BY <1>1, <1>2 DEF TypeInv
  <2>7. Len(servicesInfo') <= MaxServices
    <3>1. Len(servicesInfo) \in Nat
      BY <1>2, LenProperties
    <3> QED
      BY <1>11, <3>1, BoundsAssumption
  <2> QED
    BY <1>2, <2>4, <2>5, <2>6, <2>7 DEF TableInv
<1>14. TypeInv'
  <2>1. Len(Selected(lists["waitRegister"], yes)) \in Nat
    <3>1. lists["waitRegister"] \in Seq(Sessions)
      BY <1>2 DEF SessionLists
    <3>2. Selected(lists["waitRegister"], yes) \in Seq(Sessions)
      BY <3>1, SelectedProperties
    <3> QED
      BY <3>2, LenProperties
  <2>2. resumeSemaphore' \in Nat
    BY <1>1, <1>2, <2>1 DEF TypeInv
  <2>3. /\ maxSessions' \in [Ports -> Nat] /\ portSessions' \in [Ports -> Nat]
        /\ serverAlive' \in [Ports -> BOOLEAN] /\ portOpen' \in [Ports -> BOOLEAN]
    BY <1>1, <1>2 DEF TypeInv
  <2> QED
    BY <1>1, <1>2, <1>11, <2>2, <2>3, FrameFacts DEF TypeInv, CommandFrame
<1> QED
  BY <1>6, <1>8, <1>9, <1>10, <1>12, <1>13, <1>14 DEF Inv
LEMMA HandlerFrame ==
  ASSUME TypeInv, NEW ls, NEW s \in Sessions, NEW busy \in [Sessions -> Ports \cup {NoPort}],
         NEW name, NEW flags,
         \/ GetServiceHandle(ls, busy, s, name, flags)
         \/ GetPort(ls, busy, s, name, flags)
  PROVE  /\ UNCHANGED <<pid, isSrvPm, servicesInfo, processes, maxSessions, serverAlive, portOpen>>
         /\ busyClientPortHandle' \in [Sessions -> Ports \cup {NoPort}]
         /\ portSessions' \in [Ports -> Nat]
<1>1. CASE GetServiceHandle(ls, busy, s, name, flags)
  <2>1. UNCHANGED <<pid, isSrvPm, servicesInfo, processes, maxSessions, serverAlive, portOpen>>
    BY <1>1 DEF GetServiceHandle, tableVars
  <2>2. CASE busyClientPortHandle' = busy /\ UNCHANGED portSessions
    BY <2>1, <2>2 DEF TypeInv
  <2>3. CASE Registered("service", name) /\ ~(busyClientPortHandle' = busy /\ UNCHANGED portSessions)
    <3> DEFINE p == servicesInfo[Entry("service", name)].port
    <3>1. p \in Ports
      BY <2>3, EntryInTable
    <3>2. \/ busyClientPortHandle' = [busy EXCEPT ![s] = p] /\ UNCHANGED portSessions
          \/ /\ busyClientPortHandle' = busy
             /\ portSessions' = [portSessions EXCEPT ![p] = IF HasRoom(p) THEN @ + 1 ELSE @]
      BY <1>1, <2>3 DEF GetServiceHandle
    <3> HIDE DEF p
    <3>3. portSessions \in [Ports -> Nat]
      BY DEF TypeInv
    <3> QED
      BY <2>1, <3>1, <3>2, <3>3
  <2> QED
    BY <1>1, <2>2, <2>3 DEF GetServiceHandle
<1>2. CASE GetPort(ls, busy, s, name, flags)
  BY <1>2 DEF GetPort, tableVars, kernelVars, TypeInv
<1> QED
  BY <1>1, <1>2

LEMMA GetStep ==
  ASSUME Inv, NEW s, CommandFrame(s), NEW name \in Names \cup {Garbled}, NEW flags,
         \/ GetServiceHandle(lists, busyClientPortHandle, s, name, flags)
         \/ GetPort(lists, busyClientPortHandle, s, name, flags),
         UNCHANGED resumeSemaphore
  PROVE  Inv'
<1>1. /\ s \in Sessions /\ s \in Elements(lists["inUse"])
      /\ busyClientPortHandle \in [Sessions -> Ports \cup {NoPort}]
      /\ Partition(lists, SessionLists, Sessions)
      /\ TypeInv
  BY FrameFacts DEF CommandFrame, In, Inv, TypeInv, PoolInv
<1>2. /\ UNCHANGED <<pid, isSrvPm, servicesInfo, processes, maxSessions, serverAlive, portOpen>>
      /\ busyClientPortHandle' \in [Sessions -> Ports \cup {NoPort}]
      /\ portSessions' \in [Ports -> Nat]
  BY <1>1, HandlerFrame
<1>3. Outcome(lists, s)
  BY <1>1, GetServiceHandleOutcome, GetPortOutcome
<1>4. /\ WaitingIn(lists) = Waiting
      /\ Elements(lists["waitRegister"]) \subseteq In("waitRegister")
  BY DEF WaitingIn, Waiting, In
<1>5. /\ PoolInv' /\ BlockedClientsAccounted' /\ ReplyListed' /\ NoneAwaits'
      /\ lists'["wakeUp"] = lists["wakeUp"]
      /\ replyTarget' \in Sessions \cup {None}
      /\ replayCmdbuf' \in [Sessions -> Saved]
  <2>1. replyTarget = None
    BY DEF CommandFrame
  <2> QED
    BY <1>1, <1>2, <1>3, <1>4, <2>1, FrameFacts, OutcomeAccounted
<1>6. SemaphoreCountsWakeUps'
  BY <1>5 DEF SemaphoreCountsWakeUps, Inv, CommandFrame
<1>7. TableInv'
  BY <1>2, SameTable
<1>8. TypeInv'
  BY <1>1, <1>2, <1>5, FrameFacts DEF TypeInv, CommandFrame
<1> QED
  BY <1>5, <1>6, <1>7, <1>8 DEF Inv

LEMMA RegisterStep ==
  ASSUME Inv, NEW s, CommandFrame(s), NEW kind \in {"service", "port"}, NEW name \in Names,
         NEW max \in Nat, doRegisterServiceOrPort(s, kind, name, max)
  PROVE  Inv'
<1>1. CASE Refuse(s)
  BY <1>1, RefuseStep
<1>2. CASE /\ ~Registered(kind, name) /\ Len(servicesInfo) < MaxServices
           /\ \E p \in Ports : AddEntry(s, kind, name, p, max)
  BY <1>2, AddEntryStep
<1> QED
  BY <1>1, <1>2 DEF doRegisterServiceOrPort

LEMMA CommandStep ==
  ASSUME Inv, NEW s \in Sessions, Command(s)
  PROVE  Inv'
<1> DEFINE c == request[s]
<1>1. /\ c \in Requests \cup {NoRequest}
      /\ c.name \in Names \cup {Garbled}
      /\ c.word4 \in Nat
      /\ c.pid \in Pids \cup {NoPid}
      /\ c.cmd \in {"RegisterService", "RegisterPort"} => c.name \in Names
  <2>1. c \in Requests \cup {NoRequest}
    BY DEF Inv, TypeInv
  <2>2. CASE c \in Requests
    BY <2>1, <2>2, RequestsAssumption DEF Commands, SrvCommands
  <2>3. CASE c = NoRequest
    BY <2>1, <2>3 DEF NoRequest
  <2> QED
    BY <2>1, <2>2, <2>3
<1>2. /\ HandleCommand(s, c)
      /\ cmdbuf4' = IF c.cmd \in {"RegisterService", "GetServiceHandle", "GetPort"} THEN c.word4
                    ELSE IF c.cmd = "RegisterPort" THEN 0 ELSE cmdbuf4
  BY DEF Command
<1> HIDE DEF c
<1>3. CommandFrame(s)
  <2>1. cmdbuf4 \in Nat
    BY DEF Inv, TypeInv
  <2>2. cmdbuf4' \in Nat
    BY <1>1, <1>2, <2>1
  <2> QED
    BY <2>2 DEF CommandFrame, Command, ReceivingOther, Receiving
<1>4. CASE Refuse(s)
  BY <1>3, <1>4, RefuseStep
<1>5. CASE RegisterClient(s)
  BY <1>3, <1>5, RegisterClientStep
<1>6. CASE c.cmd = "RegisterService" /\ doRegisterServiceOrPort(s, "service", c.name, c.word4)
  BY <1>1, <1>3, <1>6, RegisterStep
<1>7. CASE c.cmd = "RegisterPort" /\ doRegisterServiceOrPort(s, "port", c.name, 1)
  BY <1>1, <1>3, <1>7, RegisterStep
<1>8. CASE \/ UnregisterServiceOrPort(s, "service", c.name)
           \/ UnregisterServiceOrPort(s, "port", c.name)
  BY <1>3, <1>8, UnregisterServiceOrPortStep
<1>9. CASE /\ \/ GetServiceHandle(lists, busyClientPortHandle, s, c.name, c.word4)
              \/ GetPort(lists, busyClientPortHandle, s, c.name, c.word4)
           /\ UNCHANGED resumeSemaphore
  BY <1>1, <1>3, <1>9, GetStep
<1>10. CASE RegisterProcess(s, c.pid)
  BY <1>1, <1>3, <1>10, RegisterProcessStep
<1>11. CASE UnregisterProcess(s, c.pid)
  BY <1>3, <1>11, UnregisterProcessStep
<1> QED
  BY <1>2, <1>4, <1>5, <1>6, <1>7, <1>8, <1>9, <1>10, <1>11 DEF HandleCommand

-----------------------------------------------------------------------------
(* Resumed sessions                                                        *)

(* A session that is taken off its waiting list and served again.          *)
LEMMA ReplayStep ==
  ASSUME Inv, NEW s, NEW list \in {"wakeUp", "waitPort"}, s \in In(list),
         panicked = "no", replyTarget = None,
         NEW busy \in [Sessions -> Ports \cup {NoPort}],
         Replay(Resumed(s), busy, s),
         UNCHANGED <<cmdbuf4, clientVars, panicked>>,
         resumeSemaphore' = IF list = "wakeUp" THEN resumeSemaphore - 1 ELSE resumeSemaphore
  PROVE  Inv'
<1> DEFINE ls == Resumed(s)
<1>1. /\ s \in Sessions /\ s \in Waiting /\ s \notin In("inUse") /\ list \in SessionLists
      /\ "inUse" \in SessionLists /\ "wakeUp" \in SessionLists /\ FALSE \in BOOLEAN
      /\ Partition(lists, SessionLists, Sessions)
      /\ TypeInv /\ client \in [Sessions -> {"closed", "idle", "sent", "served"}]
  BY ListFacts DEF Inv, Waiting, SessionLists, PoolInv, TypeInv
<1>2. /\ Partition(ls, SessionLists, Sessions)
      /\ MovedTo(lists, ls, SessionLists, s, "inUse")
  BY <1>1, MoveNode DEF Resumed
<1>3. ls[list] = Without(lists[list], s)
  <2>1. list # "inUse" /\ s \in Elements(lists[list])
    BY DEF In
  <2> QED
    <3> DEFINE dst == "inUse"
               back == FALSE
    <3>1. dst \in SessionLists /\ list # dst
      BY <1>1, <2>1
    <3> HIDE DEF dst, back
    <3>2. Partition(lists, SessionLists, Sessions) /\ s \in Sessions /\ list \in SessionLists
      BY <1>1
    <3>3. moveNode(lists, s, dst, back)[list] = Without(lists[list], s)
      BY <2>1, <3>1, <3>2, MoveNodeSource
    <3> QED
      BY <3>3 DEF Resumed, dst, back
<1>4. Len(ls["wakeUp"]) = IF list = "wakeUp" THEN Len(lists["wakeUp"]) - 1
                          ELSE Len(lists["wakeUp"])
  <2>1. CASE list = "wakeUp"
    <3>1. lists["wakeUp"] \in Seq(Sessions) /\ Distinct(lists["wakeUp"]) /\ s \in Elements(lists["wakeUp"])
      BY <1>1, <2>1 DEF Partition, In
    <3> QED
      BY <1>3, <2>1, <3>1, WithoutLength
  <2>2. CASE list = "waitPort"
    <3>1. s \notin Elements(lists["wakeUp"])
      BY <1>1, <2>2 DEF Partition, In
    <3> QED
      BY <1>1, <1>2, <2>2, <3>1 DEF MovedTo
  <2> QED
    BY <2>1, <2>2
<1>5. /\ s \in Elements(ls["inUse"])
      /\ WaitingIn(ls) \ {s} = Waiting \ {s}
      /\ Elements(ls["waitRegister"]) \subseteq In("waitRegister")
  BY <1>2 DEF MovedTo, WaitingIn, Waiting, In, SessionLists
<1> HIDE DEF ls
<1> DEFINE name == replayCmdbuf[s].name
<1>6. name \in Names \cup {Garbled}
  BY <1>1 DEF TypeInv, Saved
<1> HIDE DEF name
<1>7. \/ GetServiceHandle(ls, busy, s, name, cmdbuf4)
      \/ GetPort(ls, busy, s, name, cmdbuf4)
  BY DEF Replay, ls, name
<1>8. /\ UNCHANGED <<pid, isSrvPm, servicesInfo, processes, maxSessions, serverAlive, portOpen>>
      /\ busyClientPortHandle' \in [Sessions -> Ports \cup {NoPort}]
      /\ portSessions' \in [Ports -> Nat]
  BY <1>1, <1>7, HandlerFrame
<1>9. Outcome(ls, s)
  BY <1>1, <1>6, <1>7, GetServiceHandleOutcome, GetPortOutcome
<1>10. /\ client' \in [Sessions -> {"closed", "idle", "sent", "served"}]
       /\ client'[s] \in {"served", "closed"}
       /\ \A t \in Sessions : t # s => client'[t] = client[t]
  BY <1>1 DEF clientVars, Inv, BlockedClientsAccounted
<1>11. /\ PoolInv' /\ BlockedClientsAccounted' /\ ReplyListed' /\ NoneAwaits'
       /\ lists'["wakeUp"] = ls["wakeUp"]
       /\ replyTarget' \in Sessions \cup {None}
       /\ replayCmdbuf' \in [Sessions -> Saved]
  BY <1>2, <1>5, <1>8, <1>9, <1>10, OutcomeAccounted
<1>12. resumeSemaphore = Len(lists["wakeUp"])
  BY DEF Inv, SemaphoreCountsWakeUps
<1>13. resumeSemaphore' = Len(lists'["wakeUp"])
  BY <1>4, <1>11, <1>12
<1>14. resumeSemaphore' \in Nat
  <2>1. lists'["wakeUp"] \in Seq(Sessions)
    BY <1>1, <1>11 DEF PoolInv, Partition
  <2> QED
    BY <1>13, <2>1, LenProperties
<1>15. TypeInv'
  BY <1>1, <1>8, <1>11, <1>14 DEF TypeInv, clientVars
<1>16. SemaphoreCountsWakeUps' /\ TableInv'
  BY <1>8, <1>13, SameTable DEF SemaphoreCountsWakeUps
<1> QED
  BY <1>11, <1>15, <1>16 DEF Inv

(* The loop never takes the semaphore and finds nobody to wake.            *)
LEMMA SomebodyToWake ==
  ASSUME Inv, ResumeRegistered
  PROVE  /\ lists["wakeUp"] # <<>> /\ Head(lists["wakeUp"]) \in In("wakeUp")
         /\ Replay(Resumed(Head(lists["wakeUp"])), busyClientPortHandle, Head(lists["wakeUp"]))
         /\ UNCHANGED panicked
<1>1. lists["wakeUp"] \in Seq(Sessions)
  BY ListFacts DEF Inv, SessionLists
<1>2. resumeSemaphore > 0 /\ resumeSemaphore = Len(lists["wakeUp"])
  BY DEF ResumeRegistered, Signalled, Receiving, Inv, SemaphoreCountsWakeUps
<1>3. lists["wakeUp"] # <<>>
  BY <1>2
<1>4. Head(lists["wakeUp"]) \in In("wakeUp")
  BY <1>1, <1>3, HeadAndTail DEF In
<1> QED
  BY <1>3, <1>4 DEF ResumeRegistered

LEMMA ResumeRegisteredStep ==
  ASSUME Inv, ResumeRegistered
  PROVE  Inv'
<1> DEFINE s == Head(lists["wakeUp"])
<1>1. /\ s \in In("wakeUp") /\ Replay(Resumed(s), busyClientPortHandle, s)
      /\ UNCHANGED panicked
  BY SomebodyToWake
<1> HIDE DEF s
<1>2. /\ panicked = "no" /\ replyTarget = None
      /\ resumeSemaphore' = resumeSemaphore - 1
      /\ UNCHANGED <<cmdbuf4, clientVars>>
  BY DEF ResumeRegistered, Receiving
<1>3. busyClientPortHandle \in [Sessions -> Ports \cup {NoPort}]
  BY DEF Inv, TypeInv
<1> QED
  BY <1>1, <1>2, <1>3, ReplayStep

(* The first of the sessions that wait for a port.                         *)
LEMMA FirstWaiter ==
  ASSUME Inv, NEW p, WaitersFor(p) # {}
  PROVE  /\ FirstWaiterFor(p) \in WaitersFor(p)
         /\ FirstWaiterFor(p) \in In("waitPort")
         /\ \E k \in DOMAIN lists["waitPort"] :
              /\ FirstWaiterFor(p) = lists["waitPort"][k]
              /\ \A j \in 1 .. k - 1 : lists["waitPort"][j] \notin WaitersFor(p)
<1> DEFINE q == lists["waitPort"]
           K == {k \in DOMAIN q : q[k] \in WaitersFor(p)}
           IsFirst(k) == /\ q[k] \in WaitersFor(p)
                         /\ \A j \in 1 .. k - 1 : q[j] \notin WaitersFor(p)
<1>1. q \in Seq(Sessions) /\ DOMAIN q = 1 .. Len(q) /\ Len(q) \in Nat
  BY ListFacts, LenProperties DEF Inv, SessionLists
<1>2. K # {}
  BY DEF WaitersFor, In, Elements
<1>3. PICK k \in K : \A j \in K : k <= j
  <2>1. K \subseteq Nat
    BY <1>1
  <2> HIDE DEF K
  <2> QED
    BY <1>2, <2>1, LeastNatural
<1>4. k \in DOMAIN q /\ IsFirst(k)
  BY <1>1, <1>3
<1> DEFINE i == CHOOSE x \in DOMAIN q : IsFirst(x)
<1>5. i \in DOMAIN q /\ IsFirst(i)
  <2> HIDE DEF IsFirst, q
  <2> QED
    BY <1>4
<1>6. FirstWaiterFor(p) = q[i]
  BY DEF FirstWaiterFor
<1> HIDE DEF i
<1> QED
  BY <1>5, <1>6 DEF In, Elements

LEMMA ResumePortReadyStep ==
  ASSUME Inv, NEW p \in Ports, ResumePortReady(p)
  PROVE  Inv'
<1> DEFINE s == FirstWaiterFor(p)
           busy == [busyClientPortHandle EXCEPT ![s] = NoPort]
<1>1. /\ Replay(Resumed(s), busy, s)
      /\ WaitersFor(p) # {} /\ panicked = "no" /\ replyTarget = None
      /\ UNCHANGED <<cmdbuf4, resumeSemaphore, panicked, clientVars>>
  BY DEF ResumePortReady, ReceivingOther, Receiving
<1>2. s \in In("waitPort")
  BY <1>1, FirstWaiter
<1>3. busy \in [Sessions -> Ports \cup {NoPort}]
  BY DEF Inv, TypeInv
<1> HIDE DEF s, busy
<1> QED
  BY <1>1, <1>2, <1>3, ReplayStep

LEMMA PortClosedStep ==
  ASSUME Inv, NEW p \in Ports, PortClosed(p)
  PROVE  Inv'
<1> DEFINE set == WaitersFor(p)
           rest == Sessions \ WaitersFor(p)
           src == "waitPort"
           dst == "waitRegister"
           ls == lists
           new == lists'
<1>1. /\ lists' = [lists EXCEPT !["waitPort"] = Selected(lists["waitPort"], rest),
                                !["waitRegister"] = @ \o Selected(lists["waitPort"], set)]
      /\ replayCmdbuf' = [s \in Sessions |->
           IF s \in set THEN [replayCmdbuf[s] EXCEPT !.name = Garbled] ELSE replayCmdbuf[s]]
      /\ busyClientPortHandle' = [s \in Sessions |->
           IF s \in set THEN NoPort ELSE busyClientPortHandle[s]]
      /\ replyTarget = None
      /\ UNCHANGED <<pid, isSrvPm, tableVars, cmdbuf4, replyTarget, resumeSemaphore,
                     panicked, clientVars, kernelVars>>
  BY DEF PortClosed, ReceivingOther, Receiving
<1>2. /\ lists \in [SessionLists -> Seq(Sessions)] /\ DOMAIN lists = SessionLists
      /\ set \subseteq In("waitPort") /\ In("waitPort") \subseteq Sessions
      /\ In("waitRegister") \subseteq Sessions
      /\ In("waitPort") \cap In("waitRegister") = {}
      /\ TypeInv
  BY ListFacts DEF Inv, SessionLists, WaitersFor, PoolInv, Partition, In
<1>3. MovesSelected(ls, new, src, dst, set, rest)
  <2>1. rest \cap Elements(lists["waitPort"]) = Elements(lists["waitPort"]) \ set
    BY <1>2 DEF In
  <2> HIDE DEF set, rest
  <2> QED
    BY <1>1, <1>2, <2>1 DEF MovesSelected, SessionLists
<1>4. Partition(ls, SessionLists, Sessions) /\ src \in SessionLists /\ dst \in SessionLists
  BY DEF Inv, PoolInv, SessionLists
<1> HIDE DEF set, rest, src, dst, ls, new
<1>5. Partition(new, SessionLists, Sessions) /\ SelectedMoved(ls, new, SessionLists, src, dst, set)
  BY <1>3, <1>4, MoveSelected
<1>6. /\ PoolInv'
      /\ In("waitPort")' = In("waitPort") \ set
      /\ In("waitRegister")' = In("waitRegister") \cup set
      /\ lists'["wakeUp"] = lists["wakeUp"] /\ lists'["inUse"] = lists["inUse"]
  BY <1>2, <1>5 DEF PoolInv, In, SelectedMoved, src, dst, ls, new, SessionLists
<1>7. Waiting' = Waiting
  BY <1>2, <1>6 DEF Waiting, In
<1>8. BlockedClientsAccounted'
  BY <1>1, <1>7 DEF BlockedClientsAccounted, Inv, clientVars
<1>9. SemaphoreCountsWakeUps' /\ ReplyListed'
  BY <1>1, <1>6 DEF SemaphoreCountsWakeUps, ReplyListed, Inv
<1>10. TableInv'
  BY <1>1, SameTable DEF tableVars, kernelVars
<1>11. NoneAwaits'
  <2> SUFFICES ASSUME NEW t \in In("waitRegister")', NEW e \in Elements(servicesInfo)
               PROVE  ~Awaits(replayCmdbuf'[t], e)
    BY <1>1 DEF NoneAwaits, tableVars
  <2>1. CASE t \in set
    <3>1. replayCmdbuf'[t].name = Garbled
      BY <1>1, <1>2, <2>1 DEF TypeInv, Saved
    <3>2. e \in Entries
      BY <1>2, LenProperties, ElementOfSeq DEF TypeInv, Elements
    <3>3. e.name \in Names
      BY <3>2 DEF Entries
    <3> QED
      BY <3>1, <3>3, NamesAssumption DEF Awaits
  <2>2. CASE t \notin set
    <3>1. t \in In("waitRegister") /\ replayCmdbuf'[t] = replayCmdbuf[t]
      BY <1>1, <1>2, <1>6, <2>2
    <3> QED
      BY <3>1 DEF NoneAwaits, Inv
  <2> QED
    BY <2>1, <2>2
<1>12. TypeInv'
  <2>1. replayCmdbuf' \in [Sessions -> Saved]
    BY <1>1, <1>2, ZenonT(60) DEF TypeInv, Saved
  <2>2. busyClientPortHandle' \in [Sessions -> Ports \cup {NoPort}]
    BY <1>1, <1>2 DEF TypeInv
  <2> QED
    BY <1>1, <1>2, <2>1, <2>2 DEF TypeInv, tableVars, clientVars, kernelVars
<1> QED
  BY <1>6, <1>8, <1>9, <1>10, <1>11, <1>12 DEF Inv
-----------------------------------------------------------------------------
(* Safety                                                                  *)

LEMMA StutterStep ==
  ASSUME Inv, UNCHANGED vars
  PROVE  Inv'
<1>1. /\ UNCHANGED <<lists, pid, isSrvPm, replayCmdbuf, busyClientPortHandle>>
      /\ UNCHANGED <<servicesInfo, processes, cmdbuf4, replyTarget, resumeSemaphore, panicked>>
      /\ UNCHANGED <<owner, client, request, maxSessions, portSessions, serverAlive, portOpen>>
  BY DEF vars, sessionVars, tableVars, clientVars, kernelVars
<1>2. PoolInv' /\ NoneAwaits' /\ TableInv' /\ Waiting' = Waiting /\ In("inUse")' = In("inUse")
  BY <1>1, SameLists
<1>3. TypeInv'
  BY <1>1 DEF Inv, TypeInv
<1>4. SemaphoreCountsWakeUps' /\ BlockedClientsAccounted' /\ ReplyListed'
  BY <1>1, <1>2 DEF Inv, SemaphoreCountsWakeUps, BlockedClientsAccounted, ReplyListed
<1> QED
  BY <1>2, <1>3, <1>4 DEF Inv

LEMMA NextInv ==
  ASSUME Inv, [Next]_vars
  PROVE  Inv'
<1>1. CASE InvalidHandle
  BY <1>1, InvalidHandleStep
<1>2. CASE Deliver
  BY <1>2, DeliverStep
<1>3. CASE ReplyFailed
  BY <1>3, ReplyFailedStep
<1>4. CASE ResumeRegistered
  BY <1>4, ResumeRegisteredStep
<1>5. ASSUME NEW s \in Sessions, SessionClosed(s) \/ Command(s)
      PROVE  Inv'
  BY <1>5, SessionClosedStep, CommandStep
<1>6. ASSUME NEW p \in Pids, NewSession(FALSE, p) \/ NewSession(TRUE, p)
      PROVE  Inv'
  BY <1>6, NewSessionStep
<1>7. ASSUME NEW p \in Ports, ResumePortReady(p) \/ PortClosed(p)
      PROVE  Inv'
  BY <1>7, ResumePortReadyStep, PortClosedStep
<1>8. CASE Environment
  BY <1>8, EnvironmentStep
<1>9. CASE UNCHANGED vars
  BY <1>9, StutterStep
<1> QED
  BY <1>1, <1>2, <1>3, <1>4, <1>5, <1>6, <1>7, <1>8, <1>9 DEF Next, Loop

(* The inductive invariant of the loop.                                    *)
THEOREM Invariance == Spec => []Inv
<1>1. Inv /\ [Next]_vars => Inv'
  BY NextInv
<1> QED
  BY InitInv, <1>1, PTL DEF Spec

LEMMA InvIsConsistent ==
  ASSUME Inv
  PROVE  LoopConsistent /\ NoLostWakeup /\ TableMatchesPorts
<1>1. lists \in [SessionLists -> Seq(Sessions)]
  BY ListFacts DEF Inv
<1>2. TypeOK
  BY <1>1 DEF TypeOK, Inv, TypeInv
<1>3. SessionsPartitioned
  BY DEF SessionsPartitioned, Inv, PoolInv, Partition, In, Distinct
<1>4. NoLostWakeup
  BY DEF NoLostWakeup, NoneAwaits, Inv, Elements
<1>5. TableMatchesPorts
  <2>1. TableInv /\ DOMAIN servicesInfo = 1 .. Len(servicesInfo)
    BY LenProperties DEF Inv, TypeInv
  <2>2. \A i, j \in DOMAIN servicesInfo : i # j => servicesInfo[i] # servicesInfo[j]
    BY <2>1 DEF TableInv, Unshared, Distinct
  <2>3. \A i \in DOMAIN servicesInfo : servicesInfo[i] \in Elements(servicesInfo)
    BY DEF Elements
  <2>4. \A i, j \in DOMAIN servicesInfo :
          \/ i = j
          \/ /\ servicesInfo[i].port # servicesInfo[j].port
             /\ \/ servicesInfo[i].kind # servicesInfo[j].kind
                \/ servicesInfo[i].name # servicesInfo[j].name
    BY <2>1, <2>2, <2>3 DEF TableInv, Unshared
  <2>5. {servicesInfo[i].port : i \in DOMAIN servicesInfo} = PortsOf(servicesInfo)
    BY DEF PortsOf, Elements
  <2> QED
    BY <2>1, <2>4, <2>5 DEF TableInv, TableMatchesPorts
<1> QED
  BY <1>2, <1>3, <1>4, <1>5 DEF LoopConsistent, Inv

(* For any pool of sessions and any requests: the five lists of main.c     *)
(* partition the pool, the semaphore counts the wake-up list, so that the  *)
(* loop never wakes nobody, and each client that is blocked in sm is about *)
(* to be answered or on a list an event brings it back from.               *)
THEOREM LoopIsConsistent == Spec => []LoopConsistent
<1>1. Inv => LoopConsistent
  BY InvIsConsistent
<1> QED
  BY Invariance, <1>1, PTL

(* However registrations, withdrawals and replays interleave, no session   *)
(* sleeps in waitRegister for the name and kind of an entry of the table.  *)
THEOREM NobodySleepsForARegisteredName == Spec => []NoLostWakeup
<1>1. Inv => NoLostWakeup
  BY InvIsConsistent
<1> QED
  BY Invariance, <1>1, PTL

(* UnregisterProcess, whose loop reorders the table while it walks it, and *)
(* the other commands leave in the table exactly the ports sm has open,    *)
(* each once, and at most one entry per name and kind.                     *)
THEOREM TableIsThePorts == Spec => []TableMatchesPorts
<1>1. Inv => TableMatchesPorts
  BY InvIsConsistent
<1> QED
  BY Invariance, <1>1, PTL

-----------------------------------------------------------------------------
(* The order of the waiters of a port                                      *)

(* What a step may do to the list of those that wait for a port.           *)
KeepsWaiters == In("waitPort") \subseteq In("waitPort")'

LEMMA OutcomeKeepsWaiters ==
  ASSUME NEW ls, Partition(ls, SessionLists, Sessions), NEW s \in Sessions, Outcome(ls, s),
         s \notin Elements(ls["waitPort"])
  PROVE  Elements(ls["waitPort"]) \subseteq In("waitPort")'
<1>1. CASE lists' = ls
  BY <1>1 DEF In
<1>2. ASSUME NEW list \in {"waitRegister", "waitPort"}, lists' = moveNode(ls, s, list, TRUE)
      PROVE  Elements(ls["waitPort"]) \subseteq In("waitPort")'
  <2>1. list \in SessionLists /\ TRUE \in BOOLEAN
    BY DEF SessionLists
  <2>2. MovedTo(ls, lists', SessionLists, s, list)
    BY <1>2, <2>1, MoveNode
  <2> QED
    BY <2>2 DEF MovedTo, In, SessionLists
<1> QED
  BY <1>1, <1>2 DEF Outcome

LEMMA OthersKeepWaiters ==
  ASSUME Inv, [Next]_vars, \A p \in Ports : ~ResumePortReady(p) /\ ~PortClosed(p)
  PROVE  KeepsWaiters
<1>1. CASE UNCHANGED lists
  BY <1>1 DEF KeepsWaiters, In
<1>2. /\ Partition(lists, SessionLists, Sessions) /\ lists \in [SessionLists -> Seq(Sessions)]
      /\ "waitPort" \in SessionLists /\ "free" \in SessionLists /\ "inUse" \in SessionLists
      /\ \A s : s \in In("inUse") \/ s \in In("free") \/ s \in In("wakeUp") =>
           s \in Sessions /\ s \notin In("waitPort")
  BY ListFacts DEF Inv, PoolInv, Partition, In, SessionLists, Waiting
<1>3. ASSUME NEW s \in In("inUse"), CloseSession(s)
      PROVE  KeepsWaiters
  <2>1. s \in Sessions /\ s \notin In("waitPort") /\ FALSE \in BOOLEAN
    BY <1>2
  <2>2. MovedTo(lists, lists', SessionLists, s, "free")
    BY <1>2, <1>3, <2>1, MoveNode DEF CloseSession
  <2> QED
    BY <1>2, <2>1, <2>2 DEF MovedTo, KeepsWaiters, In
<1>4. CASE ReplyFailed
  BY <1>3, <1>4 DEF ReplyFailed, Inv, ReplyListed
<1>5. ASSUME NEW s \in Sessions, SessionClosed(s)
      PROVE  KeepsWaiters
  BY <1>3, <1>5 DEF SessionClosed
<1>6. ASSUME NEW p \in Pids, NEW srvPm \in BOOLEAN, NewSession(srvPm, p), lists["free"] # <<>>
      PROVE  KeepsWaiters
  <2> DEFINE s == Head(lists["free"])
  <2>1. s \in In("free")
    <3>1. lists["free"] \in Seq(Sessions)
      BY <1>2
    <3> QED
      BY <1>6, <3>1, HeadAndTail DEF In
  <2>2. lists' = moveNode(lists, s, "inUse", FALSE)
    BY <1>6 DEF NewSession
  <2> HIDE DEF s
  <2>3. s \in Sessions /\ s \notin In("waitPort") /\ FALSE \in BOOLEAN
    BY <1>2, <2>1
  <2>4. MovedTo(lists, lists', SessionLists, s, "inUse")
    BY <1>2, <2>2, <2>3, MoveNode
  <2> QED
    BY <1>2, <2>3, <2>4 DEF MovedTo, KeepsWaiters, In
<1>7. CASE ResumeRegistered
  <2> DEFINE s == Head(lists["wakeUp"])
             ls == Resumed(s)
  <2>1. s \in In("wakeUp") /\ Replay(Resumed(s), busyClientPortHandle, s)
    BY <1>7, SomebodyToWake
  <2>2. s \in Sessions /\ s \notin In("waitPort") /\ FALSE \in BOOLEAN
    BY <1>2, <2>1
  <2> HIDE DEF s
  <2>3. Partition(ls, SessionLists, Sessions) /\ MovedTo(lists, ls, SessionLists, s, "inUse")
    BY <1>2, <2>2, MoveNode DEF Resumed
  <2>4. Elements(ls["waitPort"]) = In("waitPort")
    BY <1>2, <2>2, <2>3 DEF MovedTo, In
  <2>5. replayCmdbuf[s].name \in Names \cup {Garbled}
    BY <2>2 DEF Inv, TypeInv, Saved
  <2>6. Outcome(ls, s)
    BY <2>1, <2>2, <2>5, GetServiceHandleOutcome, GetPortOutcome DEF Replay
  <2> HIDE DEF ls
  <2> QED
    BY <2>2, <2>3, <2>4, <2>6, OutcomeKeepsWaiters DEF KeepsWaiters
<1>8. ASSUME NEW s \in Sessions, Command(s)
      PROVE  KeepsWaiters
  <2> DEFINE c == request[s]
  <2>1. s \notin In("waitPort") /\ HandleCommand(s, c)
    BY <1>2, <1>8 DEF Command
  <2>2. c.name \in Names \cup {Garbled}
    BY RequestsAssumption DEF Inv, TypeInv, Commands, NoRequest
  <2> HIDE DEF c
  <2>3. CASE \/ GetServiceHandle(lists, busyClientPortHandle, s, c.name, c.word4)
             \/ GetPort(lists, busyClientPortHandle, s, c.name, c.word4)
    <3>1. Outcome(lists, s)
      BY <2>2, <2>3, GetServiceHandleOutcome, GetPortOutcome
    <3> QED
      BY <1>2, <2>1, <3>1, OutcomeKeepsWaiters DEF KeepsWaiters, In
  <2>4. ASSUME NEW kind, NEW name, NEW p \in Ports, NEW max, AddEntry(s, kind, name, p, max)
        PROVE  KeepsWaiters
    <3>1. lists'["waitPort"] = lists["waitPort"]
      BY <1>2, <2>4 DEF AddEntry
    <3> QED
      BY <3>1 DEF KeepsWaiters, In
  <2>5. CASE UNCHANGED lists
    BY <1>1, <2>5
  <2> QED
    BY <2>1, <2>3, <2>4, <2>5 DEF HandleCommand, Refuse, RegisterClient,
       doRegisterServiceOrPort, UnregisterServiceOrPort, RegisterProcess, UnregisterProcess
<1>9. ASSUME NEW p \in Pids, NewSession(FALSE, p) \/ NewSession(TRUE, p)
      PROVE  KeepsWaiters
  BY <1>1, <1>6, <1>9 DEF NewSession
<1>10. CASE InvalidHandle \/ Deliver \/ Environment \/ UNCHANGED vars
  BY <1>1, <1>10 DEF InvalidHandle, Deliver, Environment, SendRequest, CloseClient, EndSession,
     CloseServer, vars
<1> QED
  BY <1>4, <1>5, <1>7, <1>8, <1>9, <1>10 DEF Next, Loop

(* Two sessions that wait for the same port, the first before the second.  *)
(* When the first still waits after a step, so does the second, unless the *)
(* port was closed.                                                        *)
Ordered ==
  \A i, j \in DOMAIN lists["waitPort"] :
    LET s == lists["waitPort"][i]
        t == lists["waitPort"][j]
    IN i < j /\ busyClientPortHandle[s] = busyClientPortHandle[t]
         /\ s \in Elements(lists'["waitPort"])
         => \/ t \in Elements(lists'["waitPort"])
            \/ \E p \in Ports : busyClientPortHandle[t] = p /\ ~serverAlive[p]

LEMMA ReadyKeepsOrder ==
  ASSUME Inv, NEW p \in Ports, ResumePortReady(p)
  PROVE  Ordered
<1> DEFINE q == lists["waitPort"]
           f == FirstWaiterFor(p)
           ls == Resumed(f)
<1>1. WaitersFor(p) # {}
  BY DEF ResumePortReady
<1>2. /\ f \in In("waitPort") /\ f \in WaitersFor(p)
      /\ \E k \in DOMAIN q :
           f = q[k] /\ \A j \in 1 .. k - 1 : q[j] \notin WaitersFor(p)
  BY <1>1, FirstWaiter
<1>3. /\ Partition(lists, SessionLists, Sessions) /\ f \in Sessions
      /\ q \in Seq(Sessions) /\ DOMAIN q = 1 .. Len(q) /\ Len(q) \in Nat /\ Distinct(q)
      /\ "inUse" \in SessionLists /\ "waitPort" \in SessionLists /\ FALSE \in BOOLEAN
      /\ f \notin In("inUse")
  <2>1. q \in Seq(Sessions)
    BY ListFacts DEF Inv, SessionLists
  <2> QED
    BY <1>2, <2>1, ListFacts, LenProperties
       DEF Inv, PoolInv, Partition, SessionLists, Waiting, In
<1>4. Replay(ls, [busyClientPortHandle EXCEPT ![f] = NoPort], f)
  BY DEF ResumePortReady
<1> HIDE DEF f
<1>5. Partition(ls, SessionLists, Sessions) /\ MovedTo(lists, ls, SessionLists, f, "inUse")
  BY <1>3, MoveNode DEF Resumed
<1>6. replayCmdbuf[f].name \in Names \cup {Garbled}
  BY <1>3 DEF Inv, TypeInv, Saved
<1>7. Outcome(ls, f)
  BY <1>3, <1>4, <1>6, GetServiceHandleOutcome, GetPortOutcome DEF Replay
<1> HIDE DEF ls
<1>8. Elements(ls["waitPort"]) = In("waitPort") \ {f}
  BY <1>3, <1>5 DEF MovedTo, In
<1>9. In("waitPort") \ {f} \subseteq In("waitPort")'
  <2>1. f \notin Elements(ls["waitPort"])
    BY <1>8
  <2> QED
    BY <1>3, <1>5, <1>7, <1>8, <2>1, OutcomeKeepsWaiters
<1>10. ASSUME NEW i \in DOMAIN q, NEW j \in DOMAIN q, i < j,
              busyClientPortHandle[q[i]] = busyClientPortHandle[q[j]]
       PROVE  q[j] # f
  <2> SUFFICES ASSUME q[j] = f
               PROVE  FALSE
    OBVIOUS
  <2>1. PICK k \in DOMAIN q : f = q[k] /\ \A x \in 1 .. k - 1 : q[x] \notin WaitersFor(p)
    BY <1>2
  <2>2. k = j
    BY <1>3, <2>1 DEF Distinct
  <2>3. q[i] \in WaitersFor(p)
    BY <1>2, <1>10 DEF WaitersFor, In, Elements
  <2>4. i \in 1 .. k - 1
    BY <1>3, <1>10, <2>2
  <2> QED
    BY <2>1, <2>3, <2>4
<1>11. \A j \in DOMAIN q : q[j] # f => q[j] \in Elements(lists'["waitPort"])
  BY <1>9 DEF In, Elements
<1> QED
  BY <1>10, <1>11 DEF Ordered

LEMMA ClosedKeepsOrder ==
  ASSUME Inv, NEW p \in Ports, PortClosed(p)
  PROVE  Ordered
<1> DEFINE rest == Sessions \ WaitersFor(p)
<1>1. lists["waitPort"] \in Seq(Sessions) /\ lists \in [SessionLists -> Seq(Sessions)]
  BY ListFacts DEF Inv, SessionLists
<1>2. lists'["waitPort"] = Selected(lists["waitPort"], rest)
  BY <1>1 DEF PortClosed, SessionLists
<1>3. Elements(lists'["waitPort"]) = Elements(lists["waitPort"]) \cap rest
  BY <1>1, <1>2, SelectedProperties
<1>4. In("waitPort") \subseteq Sessions
  BY ListFacts DEF Inv, SessionLists
<1>5. ~serverAlive[p]
  BY DEF PortClosed
<1>6. ASSUME NEW j \in DOMAIN lists["waitPort"],
             lists["waitPort"][j] \notin Elements(lists'["waitPort"])
      PROVE  busyClientPortHandle[lists["waitPort"][j]] = p
  <2>1. lists["waitPort"][j] \in In("waitPort")
    BY DEF In, Elements
  <2> QED
    BY <1>3, <1>4, <1>6, <2>1 DEF WaitersFor, In
<1> QED
  BY <1>5, <1>6 DEF Ordered

LEMMA NextOrdered ==
  ASSUME Inv, [Next]_vars
  PROVE  Ordered
<1>1. CASE \E p \in Ports : ResumePortReady(p)
  BY <1>1, ReadyKeepsOrder
<1>2. CASE \E p \in Ports : PortClosed(p)
  BY <1>2, ClosedKeepsOrder
<1>3. CASE \A p \in Ports : ~ResumePortReady(p) /\ ~PortClosed(p)
  <2>1. KeepsWaiters
    BY <1>3, OthersKeepWaiters
  <2> QED
    BY <2>1 DEF KeepsWaiters, Ordered, In, Elements
<1> QED
  BY <1>1, <1>2, <1>3

(* For any number of clients of a full service: none gets its turn before  *)
(* another that waits for the same port and asked earlier.                 *)
THEOREM WaitersAreServedInOrder == Spec => PortWaitersInOrder
<1>1. Inv /\ [Next]_vars => [Ordered]_vars
  BY NextOrdered
<1>2. Spec => [][Ordered]_vars
  BY Invariance, <1>1, PTL DEF Spec
<1> QED
  BY <1>2 DEF PortWaitersInOrder, Ordered
=============================================================================
