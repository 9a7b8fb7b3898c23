----------------------- MODULE SmNotifications_proofs -----------------------
(***************************************************************************)
(* Proofs about SmNotifications for every pool, set of processes, ring     *)
(* size and subscription table: the ring and the semaphore of a process    *)
(* agree, so that svcReleaseSemaphore never overflows; the table of        *)
(* processes, its nodes, pids and subscriptions, stays whole; and the      *)
(* table, the rings and the semaphores implement the mailboxes of          *)
(* SmMailbox.                                                              *)
(***************************************************************************)
EXTENDS SmNotifications, SmLists_proofs, Integers, FiniteSets, SequenceTheorems,
        FiniteSetTheorems, TLAPS

(* The inductive invariant.  TypeOK alone is not inductive: a semaphore    *)
(* stays within its maximum only because it counts what the ring holds.    *)
Inv ==
  /\ TypeOK
  /\ SemaphoreMatchesRing
  /\ RingIndicesAgree
  /\ SemaphoreNeverOverflows

-----------------------------------------------------------------------------
(* Arithmetic of the ring indices                                          *)

(* A position at most one turn ahead wraps by a subtraction.               *)
LEMMA Wrap ==
  ASSUME NEW x \in 0 .. 2 * RingSize - 1
  PROVE  x % RingSize = IF x < RingSize THEN x ELSE x - RingSize
<1>1. RingSize \in Nat \ {0}
  BY CapacityAssumption
<1> QED
  BY <1>1, SMT

(* Storing a notification keeps the indices one pending count apart.       *)
LEMMA PushIndex ==
  ASSUME NEW received \in Slots, NEW nb \in 0 .. RingSize - 1
  PROVE  /\ (((received + nb) % RingSize) + 1) % RingSize
              = (received + (nb + 1)) % RingSize
         /\ (((received + nb) % RingSize) + 1) % RingSize \in Slots
         /\ ((received + nb) % RingSize) \in Slots
<1>1. RingSize \in Nat \ {0}
  BY CapacityAssumption
<1>2. \A x \in 0 .. 2 * RingSize - 1 :
        x % RingSize = IF x < RingSize THEN x ELSE x - RingSize
  BY Wrap
<1> DEFINE written == (received + nb) % RingSize
<1>3. written = IF received + nb < RingSize THEN received + nb
                                            ELSE received + nb - RingSize
  BY <1>1, <1>2 DEF Slots
<1>4. written \in Slots
  BY <1>1, <1>3 DEF Slots
<1>5. (received + (nb + 1)) % RingSize
        = IF received + (nb + 1) < RingSize THEN received + (nb + 1)
                                            ELSE received + (nb + 1) - RingSize
  BY <1>1, <1>2 DEF Slots
<1> HIDE DEF written
<1>6. (written + 1) % RingSize
        = IF written + 1 < RingSize THEN written + 1 ELSE written + 1 - RingSize
  BY <1>1, <1>2, <1>4 DEF Slots
<1>7. /\ (written + 1) % RingSize = (received + (nb + 1)) % RingSize
      /\ (written + 1) % RingSize \in Slots
  BY <1>1, <1>3, <1>4, <1>5, <1>6 DEF Slots
<1> QED
  BY <1>4, <1>7 DEF written

(* So does receiving one.                                                  *)
LEMMA PopIndex ==
  ASSUME NEW received \in Slots, NEW nb \in 1 .. RingSize
  PROVE  /\ (received + nb) % RingSize
              = (((received + 1) % RingSize) + (nb - 1)) % RingSize
         /\ ((received + 1) % RingSize) \in Slots
<1>1. RingSize \in Nat \ {0}
  BY CapacityAssumption
<1>2. \A x \in 0 .. 2 * RingSize - 1 :
        x % RingSize = IF x < RingSize THEN x ELSE x - RingSize
  BY Wrap
<1> DEFINE next == (received + 1) % RingSize
<1>3. next = IF received + 1 < RingSize THEN received + 1
                                        ELSE received + 1 - RingSize
  BY <1>1, <1>2 DEF Slots
<1>4. next \in Slots
  BY <1>1, <1>3 DEF Slots
<1>5. (received + nb) % RingSize
        = IF received + nb < RingSize THEN received + nb
                                      ELSE received + nb - RingSize
  BY <1>1, <1>2 DEF Slots
<1> HIDE DEF next
<1>6. (next + (nb - 1)) % RingSize
        = IF next + (nb - 1) < RingSize THEN next + (nb - 1)
                                        ELSE next + (nb - 1) - RingSize
  BY <1>1, <1>2, <1>4 DEF Slots
<1>7. (received + nb) % RingSize = (next + (nb - 1)) % RingSize
  BY <1>1, <1>3, <1>4, <1>5, <1>6 DEF Slots
<1> QED
  BY <1>4, <1>7 DEF next

-----------------------------------------------------------------------------
(* Sequences                                                               *)

(* Moving a node out of a list leaves a list.                              *)
LEMMA WithoutIsASeq ==
  ASSUME NEW S, NEW list \in Seq(S), NEW e, \E i \in DOMAIN list : list[i] = e
  PROVE  Without(list, e) \in Seq(S)
<1> DEFINE i == CHOOSE j \in DOMAIN list : list[j] = e
<1>1. i \in 1 .. Len(list)
  BY LenProperties
<1> HIDE DEF i
<1>2. /\ SubSeq(list, 1, i - 1) \in Seq(S)
      /\ SubSeq(list, i + 1, Len(list)) \in Seq(S)
  BY <1>1, SubSeqProperties, LenProperties
<1>3. SubSeq(list, 1, i - 1) \o SubSeq(list, i + 1, Len(list)) \in Seq(S)
  BY <1>2, ConcatProperties
<1> QED
  BY <1>3 DEF Without, i

(* Filling the hole with the last entry leaves a table of the same type.   *)
LEMMA SwapRemoveIsASeq ==
  ASSUME NEW S, NEW s \in Seq(S), NEW i \in DOMAIN s
  PROVE  SwapRemove(s, i) \in Seq(S)
<1>1. Len(s) \in Nat /\ Len(s) >= 1 /\ i \in 1 .. Len(s)
  BY LenProperties
<1>2. s[Len(s)] \in S
  BY <1>1, ElementOfSeq
<1> DEFINE t == [s EXCEPT ![i] = s[Len(s)]]
<1>3. t \in Seq(S) /\ Len(t) = Len(s)
  BY <1>1, <1>2, ExceptSeq
<1> HIDE DEF t
<1>4. \A k \in 1 .. Len(s) - 1 : t[k] \in S
  BY <1>1, <1>3, ElementOfSeq
<1>5. SubSeq(t, 1, Len(s) - 1) \in Seq(S)
  BY <1>1, <1>3, SubSeqProperties
<1> QED
  BY <1>5 DEF SwapRemove, t

-----------------------------------------------------------------------------
(* The nodes of the process table                                          *)

LEMMA InUseAreNodes ==
  ASSUME TypeOK
  PROVE  InUse \subseteq Nodes
  BY ElementOfSeq, LenProperties DEF TypeOK, InUse, Elements

(* findProcessData returns a registered node.                              *)
LEMMA FoundNode ==
  ASSUME TypeOK, NEW p, Found(p)
  PROVE  /\ findProcessData(p) \in Nodes
         /\ \E i \in DOMAIN processDataInUseList :
              processDataInUseList[i] = findProcessData(p)
<1>1. findProcessData(p) \in InUse
  BY DEF Found, findProcessData
<1> QED
  BY <1>1, InUseAreNodes DEF InUse, Elements

(* What a command records is of the right type.                            *)
LEMMA ResultTyped ==
  ASSUME NEW cmd \in Commands, NEW p \in Pids \cup {NoPid},
         NEW n \in NotifIds \cup {NoNotif}, NEW flags \in Flags, NEW reply \in Replies
  PROVE  Result(cmd, p, n, flags, reply) \in Results
  BY DEF Result, Results

LEMMA NoFlagsTyped == NoFlags \in Flags
  BY DEF NoFlags, Flags

LEMMA AboutTyped ==
  ASSUME NEW cmd \in Commands, NEW p \in Pids, NEW reply \in Replies
  PROVE  About(cmd, p, reply) \in Results
  BY ResultTyped, NoFlagsTyped DEF About

(* A fresh node starts with an empty ring and a semaphore at 0.            *)
LEMMA RegisterInv ==
  ASSUME Inv, NEW p \in Pids, NEW enable \in BOOLEAN, NEW r \in Results,
         doRegisterProcess(p, enable, r)
  PROVE  Inv'
<1>1. CASE freeProcessDataList = <<>>
  BY <1>1 DEF doRegisterProcess, Inv, TypeOK, SemaphoreMatchesRing, RingIndicesAgree,
       SemaphoreNeverOverflows, procVars, listVars, ringVars, Slots
<1>2. CASE freeProcessDataList # <<>>
  <2> DEFINE node == Head(freeProcessDataList)
  <2>1. /\ node \in Nodes
        /\ Tail(freeProcessDataList) \in Seq(Nodes)
    BY <1>2, HeadTailProperties DEF Inv, TypeOK
  <2>2. <<node>> \in Seq(Nodes)
    BY <2>1
  <2>3. <<node>> \o processDataInUseList \in Seq(Nodes)
    BY <2>2, ConcatProperties DEF Inv, TypeOK
  <2>4. 0 \in Slots /\ 0 \in 0 .. RingSize
    BY CapacityAssumption DEF Slots
  <2> HIDE DEF node
  <2>5. /\ processDataInUseList' = <<node>> \o processDataInUseList
        /\ freeProcessDataList' = Tail(freeProcessDataList)
        /\ pid' = [pid EXCEPT ![node] = p]
        /\ notificationEnabled' = [notificationEnabled EXCEPT ![node] = enable]
        /\ pendingNotifications' =
             [pendingNotifications EXCEPT ![node] = [i \in Slots |-> NoNotif]]
        /\ receivedNotificationIndex' = [receivedNotificationIndex EXCEPT ![node] = 0]
        /\ pendingNotificationIndex' = [pendingNotificationIndex EXCEPT ![node] = 0]
        /\ nbPendingNotifications' = [nbPendingNotifications EXCEPT ![node] = 0]
        /\ subscribedNotifications' = [subscribedNotifications EXCEPT ![node] = <<>>]
        /\ semaphore' = [semaphore EXCEPT ![node] = 0]
        /\ woken' = [woken EXCEPT ![node] = 0]
        /\ result' = r
        /\ panicked' = panicked
    BY <1>2 DEF doRegisterProcess, node
  <2>6. TypeOK'
    <3>1. /\ processDataInUseList' \in Seq(Nodes)
          /\ freeProcessDataList' \in Seq(Nodes)
          /\ pid' \in [Nodes -> Pids \cup {NoPid}]
          /\ notificationEnabled' \in [Nodes -> BOOLEAN]
      BY <2>1, <2>3, <2>5 DEF Inv, TypeOK
    <3>2. [i \in Slots |-> NoNotif] \in [Slots -> NotifIds \cup {NoNotif}]
      OBVIOUS
    <3>3. pendingNotifications' \in [Nodes -> [Slots -> NotifIds \cup {NoNotif}]]
      BY <2>5, <3>2 DEF Inv, TypeOK
    <3>4. /\ receivedNotificationIndex' \in [Nodes -> Slots]
          /\ pendingNotificationIndex' \in [Nodes -> Slots]
          /\ nbPendingNotifications' \in [Nodes -> 0 .. RingSize]
          /\ semaphore' \in [Nodes -> 0 .. RingSize]
          /\ woken' \in [Nodes -> Nat]
      BY <2>4, <2>5 DEF Inv, TypeOK
    <3>5. subscribedNotifications' \in [Nodes -> Seq(NotifIds)]
      BY <2>5, EmptySeq DEF Inv, TypeOK
    <3>6. result' \in Results /\ panicked' \in {"no", "pool", "semaphore"}
      BY <2>5 DEF Inv, TypeOK
    <3> QED
      BY <3>1, <3>3, <3>4, <3>5, <3>6 DEF TypeOK
  <2>7. SemaphoreMatchesRing'
    BY <2>1, <2>5 DEF Inv, TypeOK, SemaphoreMatchesRing
  <2>8. (0 + 0) % RingSize = 0
    BY Wrap, CapacityAssumption
  <2>9. RingIndicesAgree'
    BY <2>1, <2>5, <2>8 DEF Inv, TypeOK, RingIndicesAgree
  <2> QED
    BY <2>5, <2>6, <2>7, <2>9 DEF Inv, SemaphoreNeverOverflows
<1> QED
  BY <1>1, <1>2

(* A command that changes neither a ring, a semaphore nor a counter.       *)
LEMMA RingsUnchanged ==
  ASSUME Inv, TypeOK',
         UNCHANGED <<receivedNotificationIndex, pendingNotificationIndex,
                     nbPendingNotifications, semaphore, woken, panicked>>
  PROVE  Inv'
  BY DEF Inv, SemaphoreMatchesRing, RingIndicesAgree, SemaphoreNeverOverflows

LEMMA ReplyInv ==
  ASSUME Inv, NEW r \in Results, Reply(r)
  PROVE  Inv'
<1>1. TypeOK'
  BY DEF Inv, TypeOK, Reply, procVars, listVars, ringVars
<1> QED
  BY <1>1, RingsUnchanged DEF Reply, procVars, listVars, ringVars

-----------------------------------------------------------------------------
(* The commands                                                            *)

LEMMA UnregisterInv ==
  ASSUME Inv, NEW p \in Pids, UnregisterProcess(p)
  PROVE  Inv'
<1> DEFINE Is(reply) == About("UnregisterProcess", p, reply)
<1>0. Is("notFound") \in Results /\ Is("ok") \in Results
  BY AboutTyped DEF Commands, Replies
<1> HIDE DEF Is
<1>1. CASE ~Found(p)
  BY <1>0, <1>1, ReplyInv DEF UnregisterProcess, Is
<1>2. CASE Found(p)
  <2> DEFINE node == findProcessData(p)
  <2>1. /\ node \in Nodes
        /\ \E i \in DOMAIN processDataInUseList : processDataInUseList[i] = node
    BY <1>2, FoundNode DEF Inv
  <2>2. /\ processDataInUseList' = Without(processDataInUseList, node)
        /\ freeProcessDataList' = <<node>> \o freeProcessDataList
        /\ result' = Is("ok")
        /\ UNCHANGED <<pid, ringVars, notificationEnabled, subscribedNotifications,
                       semaphore, woken, panicked>>
    BY <1>2 DEF UnregisterProcess, Is
  <2> HIDE DEF node
  <2>3. processDataInUseList' \in Seq(Nodes)
    BY <2>1, <2>2, WithoutIsASeq DEF Inv, TypeOK
  <2>4. <<node>> \in Seq(Nodes)
    BY <2>1
  <2>5. freeProcessDataList' \in Seq(Nodes)
    BY <2>2, <2>4, ConcatProperties DEF Inv, TypeOK
  <2>6. TypeOK'
    BY <1>0, <2>2, <2>3, <2>5 DEF Inv, TypeOK, ringVars
  <2> QED
    BY <2>2, <2>6, RingsUnchanged DEF ringVars
<1> QED
  BY <1>1, <1>2

LEMMA EnableInv ==
  ASSUME Inv, NEW p \in Pids, EnableNotification(p)
  PROVE  Inv'
<1> DEFINE Is(reply) == About("EnableNotification", p, reply)
<1>0. Is("notFound") \in Results /\ Is("ok") \in Results
  BY AboutTyped DEF Commands, Replies
<1> HIDE DEF Is
<1>1. CASE /\ Found(p)
           /\ notificationEnabled' =
                [notificationEnabled EXCEPT ![findProcessData(p)] = TRUE]
           /\ result' = Is("ok")
           /\ UNCHANGED <<listVars, ringVars, subscribedNotifications, semaphore,
                          woken, panicked>>
  <2>1. TypeOK'
    BY <1>0, <1>1 DEF Inv, TypeOK, listVars, ringVars
  <2> QED
    BY <1>1, <2>1, RingsUnchanged DEF ringVars
<1>2. CASE doRegisterProcess(p, TRUE, Is("ok"))
  BY <1>0, <1>2, RegisterInv
<1>3. CASE Reply(Is("notFound"))
  BY <1>0, <1>3, ReplyInv
<1> QED
  BY <1>1, <1>2, <1>3 DEF EnableNotification, Is

(* The two subscription commands only replace one table.                   *)
LEMMA SubscriptionInv ==
  ASSUME Inv, NEW node, NEW subs \in Seq(NotifIds),
         subscribedNotifications' = [subscribedNotifications EXCEPT ![node] = subs],
         result' \in Results,
         UNCHANGED <<listVars, ringVars, notificationEnabled, semaphore, woken, panicked>>
  PROVE  Inv'
<1>1. TypeOK'
  BY DEF Inv, TypeOK, listVars, ringVars
<1> QED
  BY <1>1, RingsUnchanged DEF ringVars

LEMMA SubscribeInv ==
  ASSUME Inv, NEW p \in Pids, NEW n \in NotifIds, Subscribe(p, n)
  PROVE  Inv'
<1> DEFINE Is(reply) == Result("Subscribe", p, n, NoFlags, reply)
           OnlyReplies == \E reply \in Replies : Reply(Is(reply))
<1>0. \A reply \in Replies : Is(reply) \in Results
  BY ResultTyped, NoFlagsTyped DEF Commands
<1> HIDE DEF Is
<1>1. CASE OnlyReplies
  BY <1>0, <1>1, ReplyInv
<1>2. CASE ~OnlyReplies
  <2> DEFINE node == findProcessData(p)
             subs == Append(subscribedNotifications[node], n)
  <2>1. /\ Enabled(p)
        /\ subscribedNotifications' = [subscribedNotifications EXCEPT ![node] = subs]
        /\ result' = Is("ok")
        /\ UNCHANGED <<listVars, ringVars, notificationEnabled, semaphore, woken, panicked>>
    BY <1>2 DEF Subscribe, Is, Replies
  <2>2. node \in Nodes
    BY <2>1, FoundNode DEF Inv, Enabled
  <2>3. subs \in Seq(NotifIds)
    BY <2>2, AppendProperties DEF Inv, TypeOK
  <2>4. Is("ok") \in Results
    BY <1>0 DEF Replies
  <2> HIDE DEF node, subs
  <2> QED
    BY <2>1, <2>3, <2>4, SubscriptionInv
<1> QED
  BY <1>1, <1>2

LEMMA UnsubscribeInv ==
  ASSUME Inv, NEW p \in Pids, NEW n \in NotifIds, Unsubscribe(p, n)
  PROVE  Inv'
<1> DEFINE Is(reply) == Result("Unsubscribe", p, n, NoFlags, reply)
<1>0. Is("notFound") \in Results /\ Is("ok") \in Results
  BY ResultTyped, NoFlagsTyped DEF Commands, Replies
<1> HIDE DEF Is
<1>1. CASE Reply(Is("notFound"))
  BY <1>0, <1>1, ReplyInv
<1>2. CASE ~Reply(Is("notFound"))
  <2> DEFINE node == findProcessData(p)
             subs == subscribedNotifications[node]
  <2>1. Enabled(p)
    BY <1>2 DEF Unsubscribe, Is
  <2>2. PICK i \in DOMAIN subs :
          /\ subscribedNotifications' =
               [subscribedNotifications EXCEPT ![node] = SwapRemove(subs, i)]
          /\ result' = Is("ok")
          /\ UNCHANGED <<listVars, ringVars, notificationEnabled, semaphore, woken, panicked>>
    BY <1>2 DEF Unsubscribe, Is
  <2>3. node \in Nodes
    BY <2>1, FoundNode DEF Inv, Enabled
  <2>4. subs \in Seq(NotifIds)
    BY <2>3 DEF Inv, TypeOK
  <2> HIDE DEF node, subs
  <2>5. SwapRemove(subs, i) \in Seq(NotifIds)
    BY <2>4, SwapRemoveIsASeq
  <2> QED
    BY <1>0, <2>2, <2>5, SubscriptionInv
<1> QED
  BY <1>1, <1>2

(* The nodes a publication stores in, and what it does to them.            *)
StoresIn(targets, n, flags) ==
  {node \in {processDataInUseList[i] : i \in Reached(targets, n, flags)} :
     ~Skipped(node, n, flags) /\ HasRoom(node)}

Stored(nodes, n) ==
  /\ pendingNotifications' = [node \in Nodes |->
       IF node \in nodes
       THEN [pendingNotifications[node] EXCEPT ![pendingNotificationIndex[node]] = n]
       ELSE pendingNotifications[node]]
  /\ pendingNotificationIndex' = [node \in Nodes |->
       IF node \in nodes THEN (pendingNotificationIndex[node] + 1) % RingSize
       ELSE pendingNotificationIndex[node]]
  /\ nbPendingNotifications' = [node \in Nodes |->
       IF node \in nodes THEN nbPendingNotifications[node] + 1
       ELSE nbPendingNotifications[node]]
  /\ semaphore' = [node \in Nodes |->
       IF node \in nodes THEN semaphore[node] + 1 ELSE semaphore[node]]
  /\ UNCHANGED <<listVars, notificationEnabled, subscribedNotifications,
                 receivedNotificationIndex, woken, panicked>>

(* Publication only stores in rings that have room, and the semaphore of   *)
(* such a node is below its maximum: svcReleaseSemaphore succeeds.         *)
LEMMA RoomToStore ==
  ASSUME Inv, NEW targets \in SUBSET DOMAIN processDataInUseList, NEW n, NEW flags,
         NEW node \in StoresIn(targets, n, flags)
  PROVE  /\ node \in InUse /\ node \in Nodes
         /\ nbPendingNotifications[node] \in 0 .. RingSize - 1
         /\ semaphore[node] \in 0 .. RingSize - 1
<1>1. node \in InUse /\ HasRoom(node)
  BY DEF StoresIn, Reached, InUse, Elements
<1>2. node \in Nodes /\ nbPendingNotifications[node] \in 0 .. RingSize - 1
  BY <1>1, InUseAreNodes, CapacityAssumption DEF HasRoom, Inv, TypeOK
<1>3. /\ semaphore[node] \in Nat
      /\ woken[node] \in Nat
      /\ semaphore[node] + woken[node] = nbPendingNotifications[node]
  BY <1>2, CapacityAssumption DEF Inv, TypeOK, SemaphoreMatchesRing
<1> QED
  BY <1>1, <1>2, <1>3, CapacityAssumption

LEMMA PublishEffect ==
  ASSUME Inv, NEW cmd, NEW p, NEW targets \in SUBSET DOMAIN processDataInUseList,
         NEW n, NEW flags, Publish(cmd, p, targets, n, flags)
  PROVE  Stored(StoresIn(targets, n, flags), n)
<1> DEFINE nodes == StoresIn(targets, n, flags)
<1>1. Push(nodes, n)
  BY DEF Publish, StoresIn
<1>2. ~ \E node \in nodes : semaphore[node] >= RingSize
  BY RoomToStore, CapacityAssumption
<1> HIDE DEF nodes
<1>3. Stored(nodes, n)
  BY <1>1, <1>2 DEF Push, Advance, Released, Stored
<1> QED
  BY <1>3 DEF nodes

LEMMA PublishInv ==
  ASSUME Inv, NEW cmd \in Commands, NEW p \in Pids \cup {NoPid},
         NEW targets \in SUBSET DOMAIN processDataInUseList, NEW n \in NotifIds,
         NEW flags \in Flags, Publish(cmd, p, targets, n, flags)
  PROVE  Inv'
<1>1. PICK nodes : nodes = StoresIn(targets, n, flags)
  OBVIOUS
<1>2. \A node \in nodes : node \in Nodes /\ nbPendingNotifications[node] \in 0 .. RingSize - 1
  BY <1>1, RoomToStore
<1>3. \A node \in nodes : semaphore[node] \in 0 .. RingSize - 1
  BY <1>1, RoomToStore
<1>4. result' \in Results
  BY ResultTyped DEF Publish, Replies
<1>5. /\ pendingNotifications' = [node \in Nodes |->
            IF node \in nodes
            THEN [pendingNotifications[node] EXCEPT ![pendingNotificationIndex[node]] = n]
            ELSE pendingNotifications[node]]
      /\ pendingNotificationIndex' = [node \in Nodes |->
            IF node \in nodes THEN (pendingNotificationIndex[node] + 1) % RingSize
            ELSE pendingNotificationIndex[node]]
      /\ nbPendingNotifications' = [node \in Nodes |->
            IF node \in nodes THEN nbPendingNotifications[node] + 1
            ELSE nbPendingNotifications[node]]
      /\ semaphore' = [node \in Nodes |->
            IF node \in nodes THEN semaphore[node] + 1 ELSE semaphore[node]]
      /\ UNCHANGED <<listVars, notificationEnabled, subscribedNotifications,
                     receivedNotificationIndex, woken, panicked>>
  <2>1. Stored(nodes, n)
    BY <1>1, PublishEffect
  <2> QED
    BY <2>1 DEF Stored
<1>6. \A node \in nodes :
        /\ (pendingNotificationIndex[node] + 1) % RingSize
             = (receivedNotificationIndex[node] + (nbPendingNotifications[node] + 1)) % RingSize
        /\ (pendingNotificationIndex[node] + 1) % RingSize \in Slots
  BY <1>2, PushIndex DEF Inv, TypeOK, RingIndicesAgree
<1>7. TypeOK'
  <2>1. pendingNotifications' \in [Nodes -> [Slots -> NotifIds \cup {NoNotif}]]
    BY <1>5 DEF Inv, TypeOK
  <2>2. pendingNotificationIndex' \in [Nodes -> Slots]
    BY <1>5, <1>6 DEF Inv, TypeOK
  <2>3. nbPendingNotifications' \in [Nodes -> 0 .. RingSize]
    BY <1>2, <1>5, CapacityAssumption DEF Inv, TypeOK
  <2>4. semaphore' \in [Nodes -> 0 .. RingSize]
    BY <1>3, <1>5, CapacityAssumption DEF Inv, TypeOK
  <2> QED
    BY <1>4, <1>5, <2>1, <2>2, <2>3, <2>4 DEF Inv, TypeOK, listVars
<1>8. SemaphoreMatchesRing'
  BY <1>3, <1>5, CapacityAssumption DEF Inv, TypeOK, SemaphoreMatchesRing
<1>9. RingIndicesAgree'
  BY <1>5, <1>6 DEF Inv, TypeOK, RingIndicesAgree
<1> QED
  BY <1>5, <1>7, <1>8, <1>9 DEF Inv, SemaphoreNeverOverflows

LEMMA WaitInv ==
  ASSUME Inv, NEW p \in Pids, WaitNotification(p)
  PROVE  Inv'
<1> DEFINE node == findProcessData(p)
<1>1. /\ semaphore[node] > 0
      /\ semaphore' = [semaphore EXCEPT ![node] = @ - 1]
      /\ woken' = [woken EXCEPT ![node] = @ + 1]
      /\ UNCHANGED <<listVars, ringVars, notificationEnabled, subscribedNotifications,
                     result, panicked>>
  BY DEF WaitNotification
<1>2. node \in Nodes
  BY FoundNode DEF WaitNotification, Enabled, Inv
<1> HIDE DEF node
<1>3. TypeOK'
  <2>1. semaphore[node] - 1 \in 0 .. RingSize /\ woken[node] + 1 \in Nat
    BY <1>1, <1>2, CapacityAssumption DEF Inv, TypeOK
  <2>2. semaphore' \in [Nodes -> 0 .. RingSize] /\ woken' \in [Nodes -> Nat]
    BY <1>1, <2>1 DEF Inv, TypeOK
  <2> QED
    BY <1>1, <2>2 DEF Inv, TypeOK, listVars, ringVars
<1>4. SemaphoreMatchesRing'
  BY <1>1, <1>2, CapacityAssumption DEF Inv, TypeOK, SemaphoreMatchesRing, ringVars
<1> QED
  BY <1>1, <1>3, <1>4 DEF Inv, RingIndicesAgree, SemaphoreNeverOverflows, ringVars

(* A woken client finds its notification: the ring is not empty.           *)
LEMMA ReceiveInv ==
  ASSUME Inv, NEW p \in Pids, ReceiveNotification(p)
  PROVE  Inv'
<1> DEFINE notFound == About("ReceiveNotification", p, "notFound")
<1>1. CASE Reply(notFound)
  <2>1. notFound \in Results
    BY AboutTyped DEF Commands, Replies
  <2> QED
    BY <1>1, <2>1, ReplyInv
<1>2. CASE ~Reply(notFound)
  <2> DEFINE node == findProcessData(p)
             n == pendingNotifications[node][receivedNotificationIndex[node]]
  <2>1. Enabled(p) /\ woken[node] > 0 /\ woken' = [woken EXCEPT ![node] = @ - 1]
    BY <1>2 DEF ReceiveNotification
  <2>2. node \in Nodes
    BY <2>1, FoundNode DEF Enabled, Inv
  <2>3. nbPendingNotifications[node] \in 1 .. RingSize
    BY <2>1, <2>2, CapacityAssumption DEF Inv, TypeOK, SemaphoreMatchesRing
  <2>4. /\ nbPendingNotifications' = [nbPendingNotifications EXCEPT ![node] = @ - 1]
        /\ receivedNotificationIndex' =
             [receivedNotificationIndex EXCEPT ![node] = (@ + 1) % RingSize]
        /\ result' = Result("ReceiveNotification", p, n, NoFlags, "ok")
        /\ UNCHANGED <<pendingNotifications, pendingNotificationIndex,
                       listVars, notificationEnabled, subscribedNotifications,
                       semaphore, panicked>>
    BY <1>2, <2>3 DEF ReceiveNotification, Advance
  <2>10. n \in NotifIds \cup {NoNotif}
    BY <2>2 DEF Inv, TypeOK
  <2>11. result' \in Results
    BY <2>4, <2>10, ResultTyped, NoFlagsTyped DEF Commands, Replies
  <2> HIDE DEF node, n
  <2>5. receivedNotificationIndex[node] \in Slots
    BY <2>2 DEF Inv, TypeOK
  <2>6. /\ (receivedNotificationIndex[node] + nbPendingNotifications[node]) % RingSize
             = (((receivedNotificationIndex[node] + 1) % RingSize)
                  + (nbPendingNotifications[node] - 1)) % RingSize
        /\ ((receivedNotificationIndex[node] + 1) % RingSize) \in Slots
    BY <2>3, <2>5, PopIndex
  <2>7. TypeOK'
    <3>1. /\ nbPendingNotifications' \in [Nodes -> 0 .. RingSize]
          /\ woken' \in [Nodes -> Nat]
      BY <2>1, <2>2, <2>3, <2>4, CapacityAssumption DEF Inv, TypeOK
    <3>2. receivedNotificationIndex' \in [Nodes -> Slots]
      BY <2>4, <2>6 DEF Inv, TypeOK
    <3> QED
      BY <2>4, <2>11, <3>1, <3>2 DEF Inv, TypeOK, listVars
  <2>8. SemaphoreMatchesRing'
    BY <2>1, <2>2, <2>3, <2>4, CapacityAssumption DEF Inv, TypeOK, SemaphoreMatchesRing
  <2>9. RingIndicesAgree'
    BY <2>2, <2>4, <2>6 DEF Inv, TypeOK, RingIndicesAgree
  <2> QED
    BY <2>4, <2>7, <2>8, <2>9 DEF Inv, SemaphoreNeverOverflows
<1> QED
  BY <1>1, <1>2

-----------------------------------------------------------------------------
(* The theorems                                                            *)

LEMMA InitInv ==
  ASSUME Init
  PROVE  Inv
<1>1. 0 \in Slots /\ 0 \in 0 .. RingSize /\ (0 + 0) % RingSize = 0
  BY Wrap, CapacityAssumption DEF Slots
<1>2. TypeOK
  <2>1. <<>> \in Seq(Nodes) /\ <<>> \in Seq(NotifIds) /\ FreeOrder \in Seq(Nodes)
    BY EmptySeq, NodesAssumption
  <2>2. [i \in Slots |-> NoNotif] \in [Slots -> NotifIds \cup {NoNotif}]
    OBVIOUS
  <2>3. pendingNotifications \in [Nodes -> [Slots -> NotifIds \cup {NoNotif}]]
    BY <2>2 DEF Init
  <2>4. result \in Results
    BY ResultTyped, NoFlagsTyped DEF Init, Commands, Replies
  <2> QED
    BY <1>1, <2>1, <2>3, <2>4 DEF Init, TypeOK
<1> QED
  BY <1>1, <1>2 DEF Init, Inv, SemaphoreMatchesRing, RingIndicesAgree,
       SemaphoreNeverOverflows

LEMMA NextInv ==
  ASSUME Inv, [Next]_vars
  PROVE  Inv'
<1>1. CASE UNCHANGED vars
  <2>1. TypeOK'
    BY <1>1 DEF Inv, TypeOK, vars, procVars, listVars, ringVars
  <2> QED
    BY <1>1, <2>1, RingsUnchanged DEF vars, procVars, listVars, ringVars
<1>2. ASSUME NEW p \in Pids, RegisterProcess(p)
      PROVE  Inv'
  <2>1. \A reply \in Replies : About("RegisterProcess", p, reply) \in Results
    BY AboutTyped DEF Commands
  <2> QED
    BY <1>2, <2>1, ReplyInv, RegisterInv DEF RegisterProcess, Replies
<1>3. ASSUME NEW p \in Pids, NEW n \in NotifIds, PublishToProcess(p, n)
      PROVE  Inv'
  <2>1. CASE Reply(Result("PublishToProcess", p, n, NoFlags, "notFound"))
    <3>1. Result("PublishToProcess", p, n, NoFlags, "notFound") \in Results
      BY ResultTyped, NoFlagsTyped DEF Commands, Replies
    <3> QED
      BY <2>1, <3>1, ReplyInv
  <2>2. CASE Publish("PublishToProcess", p,
                     {i \in DOMAIN processDataInUseList :
                        processDataInUseList[i] = findProcessData(p)}, n, NoFlags)
    <3> DEFINE targets == {i \in DOMAIN processDataInUseList :
                             processDataInUseList[i] = findProcessData(p)}
    <3>1. targets \in SUBSET DOMAIN processDataInUseList
      OBVIOUS
    <3>2. Publish("PublishToProcess", p, targets, n, NoFlags)
      BY <2>2
    <3> HIDE DEF targets
    <3> QED
      BY <3>1, <3>2, PublishInv, NoFlagsTyped DEF Commands
  <2> QED
    BY <1>3, <2>1, <2>2 DEF PublishToProcess
<1>4. ASSUME NEW n \in NotifIds, NEW flags \in Flags,
             \/ PublishToSubscriber(n, flags)
             \/ PublishAndGetSubscriber(n)
             \/ PublishToAll(n)
      PROVE  Inv'
  <2>1. /\ Subscribers(n) \in SUBSET DOMAIN processDataInUseList
        /\ EnabledPositions \in SUBSET DOMAIN processDataInUseList
    BY DEF Subscribers, EnabledPositions
  <2> QED
    BY <1>4, <2>1, PublishInv, NoFlagsTyped
    DEF PublishToSubscriber, PublishAndGetSubscriber, PublishToAll, Commands
<1>5. CASE Client
  BY <1>5, WaitInv, ReceiveInv DEF Client
<1>6. CASE Command
  BY <1>2, <1>3, <1>4, <1>6, NoFlagsTyped, UnregisterInv, EnableInv, SubscribeInv,
     UnsubscribeInv DEF Command
<1> QED
  BY <1>1, <1>5, <1>6 DEF Next

(* Every reachable state of sm satisfies the inductive invariant.          *)
THEOREM Invariance == Spec => []Inv
<1>1. Init => Inv
  BY InitInv
<1>2. Inv /\ [Next]_vars => Inv'
  BY NextInv
<1> QED
  BY <1>1, <1>2, PTL DEF Spec

(* The tables, rings and semaphores keep their types.                      *)
THEOREM TypeCorrect == Spec => []TypeOK
<1>1. Inv => TypeOK
  BY DEF Inv
<1> QED
  BY <1>1, Invariance, PTL

(* What a client may be woken for is exactly what its ring holds: a client *)
(* that waits on its semaphore before each ReceiveNotification (srv: 11)   *)
(* is never told that nothing is pending.                                  *)
THEOREM WakeupsMatchRing == Spec => []SemaphoreMatchesRing
<1>1. Inv => SemaphoreMatchesRing
  BY DEF Inv
<1> QED
  BY <1>1, Invariance, PTL

(* The ring never overwrites a notification that was not received.         *)
THEOREM RingIndices == Spec => []RingIndicesAgree
<1>1. Inv => RingIndicesAgree
  BY DEF Inv
<1> QED
  BY <1>1, Invariance, PTL

(* assertSuccess(svcReleaseSemaphore) in doPublishNotification never traps.*)
THEOREM NoOverflow == Spec => []SemaphoreNeverOverflows
<1>1. Inv => SemaphoreNeverOverflows
  BY DEF Inv
<1> QED
  BY <1>1, Invariance, PTL
-----------------------------------------------------------------------------
(* The process table: nodes, pids and subscriptions                        *)

(* What the two lists and the subscription tables keep true between them.  *)
TableInv ==
  /\ Distinct(processDataInUseList)
  /\ Distinct(freeProcessDataList)
  /\ InUse \cup Elements(freeProcessDataList) = Nodes
  /\ InUse \cap Elements(freeProcessDataList) = {}
  /\ \A node \in InUse : pid[node] \in Pids
  /\ \A m, node \in InUse : pid[m] = pid[node] => m = node
  /\ SubscriptionsAreASet

(* There is a node for each process.                                       *)
EnoughNodes ==
  /\ IsFiniteSet(Nodes)
  /\ IsFiniteSet(Pids)
  /\ Cardinality(Pids) <= Cardinality(Nodes)

(* The two lists side by side, as NodesPartitioned puts it.                *)
LEMMA PartitionFromTable ==
  ASSUME TypeOK, TableInv
  PROVE  NodesPartitioned
<1> DEFINE all == processDataInUseList \o freeProcessDataList
<1>1. processDataInUseList \in Seq(Nodes) /\ freeProcessDataList \in Seq(Nodes)
  BY DEF TypeOK
<1>2. Elements(all) = Nodes
  <2>1. Elements(all) = Elements(processDataInUseList) \cup Elements(freeProcessDataList)
    BY <1>1, ElementsOfConcat
  <2> QED
    BY <2>1 DEF TableInv, InUse
<1>3. Distinct(all)
  BY <1>1, DistinctConcat DEF TableInv, InUse
<1> QED
  BY <1>2, <1>3 DEF NodesPartitioned, Distinct, TableInv

(* A table without its i-th entry, which the last one replaces.            *)
LEMMA SwapRemoved ==
  ASSUME NEW S, NEW s \in Seq(S), NEW i \in DOMAIN s, Distinct(s)
  PROVE  /\ SwapRemove(s, i) \in Seq(S)
         /\ Len(SwapRemove(s, i)) = Len(s) - 1
         /\ Distinct(SwapRemove(s, i))
         /\ Elements(SwapRemove(s, i)) = Elements(s) \ {s[i]}
<1>1. SwapRemove(s, i) = SwapLast(s, i)
  BY DEF SwapRemove, SwapLast
<1> QED
  BY <1>1, SwapLastProperties

(* A command that leaves the lists and the subscriptions alone.            *)
LEMMA TableUnchanged ==
  ASSUME TableInv, UNCHANGED <<listVars, subscribedNotifications>>
  PROVE  TableInv'
  BY DEF TableInv, listVars, InUse, SubscriptionsAreASet, Elements, Distinct

(* The node a registration takes was in neither list's way: it leaves the  *)
(* free list, and its pid is new to the table.                             *)
LEMMA RegisterTable ==
  ASSUME TypeOK, TableInv, NEW p \in Pids, ~Found(p), NEW enable, NEW r,
         doRegisterProcess(p, enable, r)
  PROVE  TableInv'
<1>1. CASE freeProcessDataList = <<>>
  BY <1>1, TableUnchanged DEF doRegisterProcess, procVars
<1>2. CASE freeProcessDataList # <<>>
  <2> DEFINE node == Head(freeProcessDataList)
             rest == Tail(freeProcessDataList)
             more == <<node>> \o processDataInUseList
  <2>1. /\ processDataInUseList' = more
        /\ freeProcessDataList' = rest
        /\ pid' = [pid EXCEPT ![node] = p]
        /\ subscribedNotifications' = [subscribedNotifications EXCEPT ![node] = <<>>]
    BY <1>2 DEF doRegisterProcess
  <2>2. /\ node \in Nodes
        /\ Elements(freeProcessDataList) = {node} \cup Elements(rest)
        /\ Distinct(rest) /\ node \notin Elements(rest)
    BY <1>2, HeadTailProperties, HeadAndTail DEF TypeOK, TableInv
  <2>3. node \notin InUse
    BY <2>2 DEF TableInv
  <2>4. /\ Elements(more) = InUse \cup {node}
        /\ Distinct(more)
    BY <2>2, <2>3, PrependElement DEF TypeOK, TableInv, InUse
  <2> HIDE DEF node, rest, more
  <2>5. InUse' = InUse \cup {node}
    BY <2>1, <2>4 DEF InUse
  <2>6. /\ Distinct(processDataInUseList)' /\ Distinct(freeProcessDataList)'
    BY <2>1, <2>2, <2>4 DEF Distinct
  <2>7. /\ (InUse \cup Elements(freeProcessDataList))' = Nodes
        /\ (InUse \cap Elements(freeProcessDataList))' = {}
    <3>1. Elements(freeProcessDataList)' = Elements(rest)
      BY <2>1 DEF Elements
    <3> QED
      BY <2>2, <2>3, <2>5, <3>1 DEF TableInv
  <2>8. pid \in [Nodes -> Pids \cup {NoPid}] /\ InUse \subseteq Nodes
    BY InUseAreNodes DEF TypeOK
  <2>9. \A m \in InUse : pid[m] # p
    BY DEF Found
  <2>10. /\ \A m \in InUse' : pid'[m] \in Pids
         /\ \A m, q \in InUse' : pid'[m] = pid'[q] => m = q
    BY <2>1, <2>2, <2>3, <2>5, <2>8, <2>9 DEF TableInv
  <2>11. SubscriptionsAreASet'
    <3>1. Len(<<>>) = 0 /\ 0 <= MaxSubscribed
      BY CapacityAssumption
    <3> QED
      BY <2>1, <2>2, <3>1 DEF TableInv, SubscriptionsAreASet, TypeOK
  <2> QED
    BY <2>6, <2>7, <2>10, <2>11 DEF TableInv
<1> QED
  BY <1>1, <1>2

LEMMA UnregisterTable ==
  ASSUME TypeOK, TableInv, NEW p \in Pids, UnregisterProcess(p)
  PROVE  TableInv'
<1>1. CASE ~Found(p)
  BY <1>1, TableUnchanged DEF UnregisterProcess, Reply, procVars
<1>2. CASE Found(p)
  <2> DEFINE node == findProcessData(p)
             left == Without(processDataInUseList, node)
             more == <<node>> \o freeProcessDataList
  <2>1. /\ processDataInUseList' = left
        /\ freeProcessDataList' = more
        /\ UNCHANGED <<pid, subscribedNotifications>>
    BY <1>2 DEF UnregisterProcess
  <2>2. node \in Nodes /\ node \in InUse
    BY <1>2, InUseAreNodes DEF Found, findProcessData
  <2> HIDE DEF node
  <2>3. /\ Elements(left) = InUse \ {node}
        /\ Distinct(left)
    BY <2>2, WithoutProperties DEF TypeOK, TableInv, InUse
  <2>4. node \notin Elements(freeProcessDataList)
    BY <2>2 DEF TableInv
  <2>5. /\ Elements(more) = Elements(freeProcessDataList) \cup {node}
        /\ Distinct(more)
    BY <2>2, <2>4, PrependElement DEF TypeOK, TableInv
  <2> HIDE DEF left, more
  <2>6. InUse' = InUse \ {node} /\ Elements(freeProcessDataList)' = Elements(more)
    BY <2>1, <2>3 DEF InUse, Elements
  <2>7. /\ Distinct(processDataInUseList)' /\ Distinct(freeProcessDataList)'
    BY <2>1, <2>3, <2>5 DEF Distinct
  <2>8. SubscriptionsAreASet'
    BY <2>1 DEF TableInv, SubscriptionsAreASet
  <2> QED
    BY <2>1, <2>2, <2>5, <2>6, <2>7, <2>8 DEF TableInv
<1> QED
  BY <1>1, <1>2

(* A table that another one replaces.                                      *)
LEMMA SubscriptionTable ==
  ASSUME TypeOK, TableInv, NEW node \in Nodes, NEW subs,
         Len(subs) <= MaxSubscribed, Distinct(subs),
         subscribedNotifications' = [subscribedNotifications EXCEPT ![node] = subs],
         UNCHANGED listVars
  PROVE  TableInv'
<1>1. SubscriptionsAreASet'
  BY DEF TypeOK, TableInv, SubscriptionsAreASet, Distinct
<1> QED
  BY <1>1 DEF TableInv, listVars, InUse, Elements, Distinct

LEMMA SubscribeTable ==
  ASSUME TypeOK, TableInv, NEW p \in Pids, NEW n \in NotifIds, Subscribe(p, n)
  PROVE  TableInv'
<1> DEFINE node == findProcessData(p)
           subs == subscribedNotifications[node]
<1>1. CASE UNCHANGED procVars
  BY <1>1, TableUnchanged DEF procVars
<1>2. CASE /\ Enabled(p)
           /\ n \notin Elements(subs)
           /\ Len(subs) < MaxSubscribed
           /\ subscribedNotifications' =
                [subscribedNotifications EXCEPT ![node] = Append(subs, n)]
           /\ UNCHANGED listVars
  <2>1. node \in Nodes
    BY <1>2, FoundNode DEF Enabled
  <2>2. subs \in Seq(NotifIds) /\ Distinct(subs)
    BY <2>1 DEF TypeOK, TableInv, SubscriptionsAreASet, Distinct
  <2> HIDE DEF node, subs
  <2>3. Distinct(Append(subs, n))
    BY <1>2, <2>2, AppendElement
  <2>4. Len(Append(subs, n)) <= MaxSubscribed
    BY <1>2, <2>2, AppendProperties, LenProperties, CapacityAssumption
  <2> QED
    BY <1>2, <2>1, <2>3, <2>4, SubscriptionTable
<1> QED
  BY <1>1, <1>2 DEF Subscribe, Reply

LEMMA UnsubscribeTable ==
  ASSUME TypeOK, TableInv, NEW p \in Pids, NEW n \in NotifIds, Unsubscribe(p, n)
  PROVE  TableInv'
<1> DEFINE node == findProcessData(p)
           subs == subscribedNotifications[node]
<1>1. CASE UNCHANGED procVars
  BY <1>1, TableUnchanged DEF procVars
<1>2. ASSUME Enabled(p), NEW i \in DOMAIN subs,
             subscribedNotifications' =
               [subscribedNotifications EXCEPT ![node] = SwapRemove(subs, i)],
             UNCHANGED listVars
      PROVE  TableInv'
  <2>1. node \in Nodes
    BY <1>2, FoundNode DEF Enabled
  <2>2. subs \in Seq(NotifIds) /\ Distinct(subs) /\ Len(subs) <= MaxSubscribed
    BY <2>1 DEF TypeOK, TableInv, SubscriptionsAreASet, Distinct
  <2> HIDE DEF node, subs
  <2>3. Distinct(SwapRemove(subs, i)) /\ Len(SwapRemove(subs, i)) = Len(subs) - 1
    BY <1>2, <2>2, SwapRemoved
  <2>4. Len(SwapRemove(subs, i)) <= MaxSubscribed
    BY <2>2, <2>3, LenProperties, CapacityAssumption
  <2> QED
    BY <1>2, <2>1, <2>3, <2>4, SubscriptionTable
<1> QED
  BY <1>1, <1>2 DEF Unsubscribe, Reply

LEMMA PublishTable ==
  ASSUME TableInv, NEW cmd, NEW p, NEW targets, NEW n, NEW flags,
         Publish(cmd, p, targets, n, flags)
  PROVE  TableInv'
<1>1. UNCHANGED <<listVars, subscribedNotifications>>
  BY DEF Publish, Push, procVars
<1> QED
  BY <1>1, TableUnchanged

LEMMA NextTable ==
  ASSUME TypeOK, TableInv, [Next]_vars
  PROVE  TableInv'
<1>1. CASE UNCHANGED vars
  BY <1>1, TableUnchanged DEF vars, procVars
<1>2. ASSUME NEW p \in Pids, RegisterProcess(p) \/ EnableNotification(p)
      PROVE  TableInv'
  <2>1. CASE UNCHANGED <<listVars, subscribedNotifications>>
    BY <2>1, TableUnchanged
  <2>2. ASSUME NEW enable, NEW r, ~Found(p), doRegisterProcess(p, enable, r)
        PROVE  TableInv'
    BY <2>2, RegisterTable
  <2> QED
    BY <1>2, <2>1, <2>2 DEF RegisterProcess, EnableNotification, Reply, procVars
<1>3. ASSUME NEW p \in Pids, NEW n \in NotifIds, PublishToProcess(p, n)
      PROVE  TableInv'
  BY <1>3, PublishTable, TableUnchanged DEF PublishToProcess, Reply, procVars
<1>4. ASSUME NEW n \in NotifIds, NEW flags \in Flags,
             \/ PublishToSubscriber(n, flags)
             \/ PublishAndGetSubscriber(n)
             \/ PublishToAll(n)
      PROVE  TableInv'
  BY <1>4, PublishTable DEF PublishToSubscriber, PublishAndGetSubscriber, PublishToAll
<1>5. CASE Client
  <2>1. UNCHANGED <<listVars, subscribedNotifications>>
    BY <1>5 DEF Client, WaitNotification, ReceiveNotification, Reply, procVars
  <2> QED
    BY <2>1, TableUnchanged
<1>6. CASE Command
  BY <1>2, <1>3, <1>4, <1>6, NoFlagsTyped, UnregisterTable, SubscribeTable,
     UnsubscribeTable DEF Command
<1> QED
  BY <1>1, <1>5, <1>6 DEF Next

LEMMA InitTable ==
  ASSUME Init
  PROVE  TableInv
<1>1. InUse = {} /\ Distinct(processDataInUseList)
  BY DEF Init, InUse, Elements, Distinct
<1>2. Elements(freeProcessDataList) = Nodes
  <2>1. \A i \in DOMAIN FreeOrder : FreeOrder[i] \in Nodes
    BY NodesAssumption, LenProperties, ElementOfSeq
  <2> QED
    BY <2>1, NodesAssumption DEF Init, Elements
<1>3. Distinct(freeProcessDataList)
  BY NodesAssumption DEF Init, Distinct
<1>4. SubscriptionsAreASet
  <2>1. Len(<<>>) = 0 /\ 0 <= MaxSubscribed
    BY CapacityAssumption
  <2> QED
    BY <2>1 DEF Init, SubscriptionsAreASet
<1> QED
  BY <1>1, <1>2, <1>3, <1>4 DEF TableInv

(* With a node for each process, the free list is never empty when a       *)
(* process that has none asks for one.                                     *)
LEMMA FreeNodeLeft ==
  ASSUME EnoughNodes, TypeOK, TableInv, NEW p \in Pids, ~Found(p)
  PROVE  freeProcessDataList # <<>>
<1> SUFFICES ASSUME freeProcessDataList = <<>>
             PROVE  FALSE
  OBVIOUS
<1>1. InUse = Nodes
  BY DEF TableInv, Elements
<1> DEFINE Others == Pids \ {p}
<1>2. pid \in [Nodes -> Others]
  BY <1>1 DEF TypeOK, TableInv, Found
<1>3. IsFiniteSet(Others) /\ Cardinality(Others) < Cardinality(Nodes)
  <2>1. /\ IsFiniteSet(Others)
        /\ Cardinality(Others) = Cardinality(Pids) - 1
    BY FS_RemoveElement DEF EnoughNodes
  <2>2. Cardinality(Pids) \in Nat /\ Cardinality(Nodes) \in Nat
    BY FS_CardinalityType DEF EnoughNodes
  <2> QED
    BY <2>1, <2>2 DEF EnoughNodes
<1> HIDE DEF Others
<1>4. \E x, y \in Nodes : x # y /\ pid[x] = pid[y]
  BY <1>2, <1>3, FS_PigeonHole DEF EnoughNodes
<1> QED
  BY <1>1, <1>4 DEF TableInv

LEMMA NextPool ==
  ASSUME EnoughNodes, TypeOK, TableInv, PoolNeverExhausted, [Next]_vars
  PROVE  PoolNeverExhausted'
<1>1. ASSUME NEW p \in Pids, ~Found(p), NEW enable, NEW r, doRegisterProcess(p, enable, r)
      PROVE  panicked' = panicked
  BY <1>1, FreeNodeLeft DEF doRegisterProcess
<1>2. ASSUME NEW p \in Pids, RegisterProcess(p) \/ EnableNotification(p)
      PROVE  panicked' = panicked
  BY <1>1, <1>2 DEF RegisterProcess, EnableNotification, Reply
<1>3. ASSUME NEW cmd, NEW q, NEW targets, NEW m, NEW how, Publish(cmd, q, targets, m, how)
      PROVE  panicked' \in {panicked, "semaphore"}
  BY <1>3 DEF Publish, Push
<1>4. ASSUME NEW n \in NotifIds, NEW flags \in Flags,
             \/ \E p \in Pids : PublishToProcess(p, n)
             \/ PublishToSubscriber(n, flags)
             \/ PublishAndGetSubscriber(n)
             \/ PublishToAll(n)
      PROVE  panicked' \in {panicked, "semaphore"}
  BY <1>3, <1>4 DEF PublishToProcess, PublishToSubscriber, PublishAndGetSubscriber,
     PublishToAll, Reply
<1>5. ASSUME NEW p \in Pids, NEW n \in NotifIds,
             UnregisterProcess(p) \/ Subscribe(p, n) \/ Unsubscribe(p, n)
      PROVE  panicked' = panicked
  BY <1>5 DEF UnregisterProcess, Subscribe, Unsubscribe, Reply
<1>6. ASSUME NEW p \in Pids, WaitNotification(p) \/ ReceiveNotification(p)
      PROVE  panicked' = panicked
  BY <1>6 DEF WaitNotification, ReceiveNotification, Reply
<1>7. CASE UNCHANGED vars
  BY <1>7 DEF vars, PoolNeverExhausted
<1>8. CASE Client
  BY <1>6, <1>8 DEF Client, PoolNeverExhausted
<1>9. CASE Command
  <2>1. \/ \E p \in Pids : RegisterProcess(p) \/ EnableNotification(p)
        \/ \E n \in NotifIds, flags \in Flags :
             \/ \E p \in Pids : PublishToProcess(p, n)
             \/ PublishToSubscriber(n, flags)
             \/ PublishAndGetSubscriber(n)
             \/ PublishToAll(n)
        \/ \E p \in Pids, n \in NotifIds : Subscribe(p, n) \/ Unsubscribe(p, n)
        \/ \E p \in Pids : UnregisterProcess(p)
    BY <1>9, NoFlagsTyped DEF Command
  <2>2. ASSUME NEW p \in Pids, UnregisterProcess(p)
        PROVE  panicked' = panicked
    BY <2>2 DEF UnregisterProcess, Reply
  <2> QED
    BY <1>2, <1>4, <1>5, <2>1, <2>2 DEF PoolNeverExhausted
<1> QED
  BY <1>7, <1>8, <1>9 DEF Next

(* The lists, pids and subscriptions of every reachable state.             *)
THEOREM TableInvariance == Spec => [](Inv /\ TableInv)
<1>1. Init => Inv /\ TableInv
  BY InitInv, InitTable
<1>2. Inv /\ TableInv /\ [Next]_vars => Inv' /\ TableInv'
  BY NextInv, NextTable DEF Inv
<1> QED
  BY <1>1, <1>2, PTL DEF Spec

(* allocateNode never finds the pool empty, a process has at most one      *)
(* node, a node is on one of the two lists, and a subscription table never *)
(* lists a notification twice.                                             *)
THEOREM TableIsConsistent ==
  ASSUME EnoughNodes
  PROVE  Spec => []TableConsistent
<1>1. Init => PoolNeverExhausted
  BY DEF Init, PoolNeverExhausted
<1>2. (Inv /\ TableInv) /\ PoolNeverExhausted /\ [Next]_vars => PoolNeverExhausted'
  BY NextPool DEF Inv
<1>3. (Inv /\ TableInv) /\ PoolNeverExhausted => TableConsistent
  BY PartitionFromTable DEF TableConsistent, Inv, TableInv
<1> QED
  BY <1>1, <1>2, <1>3, TableInvariance, PTL DEF Spec

-----------------------------------------------------------------------------
(* What a ring holds                                                       *)

(* The nb entries of a ring from an index on, as Pending reads them.       *)
RingFrom(ring, first, nb) == [i \in 1 .. nb |-> ring[(first + i - 1) % RingSize]]

LEMMA RingIsASeq ==
  ASSUME NEW T, NEW ring \in [Slots -> T], NEW first \in Slots, NEW nb \in 0 .. RingSize
  PROVE  /\ RingFrom(ring, first, nb) \in Seq(T)
         /\ Len(RingFrom(ring, first, nb)) = nb
         /\ DOMAIN RingFrom(ring, first, nb) = 1 .. nb
         /\ \A i \in 1 .. nb :
              RingFrom(ring, first, nb)[i] = ring[(first + i - 1) % RingSize]
<1>1. RingSize \in Nat \ {0} /\ first \in 0 .. RingSize - 1 /\ nb \in Nat
  BY CapacityAssumption DEF Slots
<1>2. ASSUME NEW i \in 1 .. nb
      PROVE  (first + i - 1) % RingSize \in Slots
  <2>1. first + i - 1 \in 0 .. 2 * RingSize - 1
    BY <1>1
  <2> QED
    BY <1>1, <2>1, Wrap DEF Slots
<1> DEFINE r == RingFrom(ring, first, nb)
<1>3. r \in [1 .. nb -> T]
  BY <1>2 DEF RingFrom
<1>4. /\ DOMAIN r = 1 .. nb
      /\ \A i \in 1 .. nb : r[i] = ring[(first + i - 1) % RingSize]
  BY DEF RingFrom
<1> HIDE DEF r
<1>5. r \in Seq(T)
  BY <1>1, <1>3, SeqDef
<1>6. Len(r) \in Nat /\ DOMAIN r = 1 .. Len(r)
  BY <1>5, LenProperties
<1>7. Len(r) = nb
  BY <1>1, <1>4, <1>6
<1> QED
  BY <1>4, <1>5, <1>7 DEF r

LEMMA EmptyRing ==
  ASSUME NEW T, NEW ring \in [Slots -> T], NEW first \in Slots
  PROVE  RingFrom(ring, first, 0) = <<>>
<1>1. 0 \in 0 .. RingSize
  BY CapacityAssumption
<1>2. RingFrom(ring, first, 0) \in Seq(T) /\ Len(RingFrom(ring, first, 0)) = 0
  BY <1>1, RingIsASeq
<1> QED
  BY <1>2, EmptySeq

(* Storing an entry behind the last one appends it, and overwrites none.   *)
LEMMA RingPush ==
  ASSUME NEW T, NEW ring \in [Slots -> T], NEW first \in Slots,
         NEW nb \in 0 .. RingSize - 1, NEW n \in T
  PROVE  RingFrom([ring EXCEPT ![(first + nb) % RingSize] = n], first, nb + 1)
           = Append(RingFrom(ring, first, nb), n)
<1>1. /\ RingSize \in Nat \ {0} /\ first \in 0 .. RingSize - 1 /\ nb \in 0 .. RingSize
      /\ nb + 1 \in 0 .. RingSize
  BY CapacityAssumption DEF Slots
<1> DEFINE w == (first + nb) % RingSize
           more == [ring EXCEPT ![w] = n]
           old == RingFrom(ring, first, nb)
           new == RingFrom(more, first, nb + 1)
<1>2. w \in Slots
  BY PushIndex
<1>3. more \in [Slots -> T]
  OBVIOUS
<1>4. ASSUME NEW i \in 1 .. nb
      PROVE  (first + i - 1) % RingSize # w /\ (first + i - 1) % RingSize \in Slots
  <2>1. first + i - 1 \in 0 .. 2 * RingSize - 1 /\ first + nb \in 0 .. 2 * RingSize - 1
    BY <1>1
  <2>2. (first + i - 1) % RingSize = IF first + i - 1 < RingSize THEN first + i - 1
                                     ELSE first + i - 1 - RingSize
    BY <1>1, <2>1, Wrap
  <2>3. w = IF first + nb < RingSize THEN first + nb ELSE first + nb - RingSize
    BY <1>1, <2>1, Wrap
  <2> HIDE DEF w
  <2> QED
    BY <1>1, <2>2, <2>3 DEF Slots
<1>5. /\ old \in Seq(T) /\ Len(old) = nb
      /\ \A i \in 1 .. nb : old[i] = ring[(first + i - 1) % RingSize]
  <2>1. nb \in 0 .. RingSize
    BY <1>1
  <2>2. old \in Seq(T)
    BY <2>1, RingIsASeq
  <2>3. Len(old) = nb
    BY <2>1, RingIsASeq, ZenonT(60)
  <2>4. \A i \in 1 .. nb : old[i] = ring[(first + i - 1) % RingSize]
    BY DEF RingFrom
  <2> QED
    BY <2>2, <2>3, <2>4
<1> HIDE DEF more
<1>6. /\ new \in Seq(T) /\ Len(new) = nb + 1
      /\ \A i \in 1 .. nb + 1 : new[i] = more[(first + i - 1) % RingSize]
  <2>1. nb + 1 \in 0 .. RingSize
    BY <1>1
  <2>2. new \in Seq(T)
    BY <2>1, <1>3, RingIsASeq
  <2>3. Len(new) = nb + 1
    BY <2>1, <1>3, RingIsASeq
  <2>4. \A i \in 1 .. nb + 1 : new[i] = more[(first + i - 1) % RingSize]
    BY DEF RingFrom
  <2> QED
    BY <2>2, <2>3, <2>4
<1> HIDE DEF old, new
<1> DEFINE a == Append(old, n)
<1>7. /\ a \in Seq(T) /\ Len(a) = Len(old) + 1
      /\ \A i \in 1 .. Len(old) : a[i] = old[i]
      /\ a[Len(old) + 1] = n
  BY <1>5, AppendProperties
<1> HIDE DEF a
<1>8. ASSUME NEW i \in 1 .. nb
      PROVE  new[i] = a[i]
  <2>1. new[i] = more[(first + i - 1) % RingSize]
    BY <1>1, <1>6
  <2>2. more[(first + i - 1) % RingSize] = ring[(first + i - 1) % RingSize]
    BY <1>4 DEF more
  <2> QED
    BY <1>5, <1>7, <2>1, <2>2
<1>9. new[nb + 1] = n
  <2>1. new[nb + 1] = more[(first + (nb + 1) - 1) % RingSize]
    BY <1>1, <1>6
  <2>2. first + (nb + 1) - 1 = first + nb
    BY <1>1
  <2>3. more[w] = n
    BY <1>2 DEF more
  <2> QED
    BY <2>1, <2>2, <2>3
<1>10. \A i \in 1 .. nb + 1 : i \in 1 .. nb \/ i = nb + 1
  BY <1>1
<1>11. \A i \in 1 .. nb + 1 : new[i] = a[i]
  BY <1>5, <1>7, <1>8, <1>9, <1>10
<1>12. new = a
  BY <1>5, <1>6, <1>7, <1>11, SeqEqual
<1> QED
  BY <1>12 DEF new, a, old, more

(* Advancing the read index takes the oldest entry off.                    *)
LEMMA RingPop ==
  ASSUME NEW T, NEW ring \in [Slots -> T], NEW first \in Slots, NEW nb \in 1 .. RingSize
  PROVE  /\ RingFrom(ring, (first + 1) % RingSize, nb - 1) = Tail(RingFrom(ring, first, nb))
         /\ RingFrom(ring, first, nb) # <<>>
         /\ Head(RingFrom(ring, first, nb)) = ring[first]
<1>1. /\ RingSize \in Nat \ {0} /\ first \in 0 .. RingSize - 1 /\ nb \in 0 .. RingSize
      /\ nb - 1 \in 0 .. RingSize
  BY CapacityAssumption DEF Slots
<1> DEFINE next == (first + 1) % RingSize
           old == RingFrom(ring, first, nb)
           new == RingFrom(ring, next, nb - 1)
<1>2. next \in Slots
  BY PopIndex
<1>3. next = IF first + 1 < RingSize THEN first + 1 ELSE first + 1 - RingSize
  BY <1>1, Wrap
<1> HIDE DEF next
<1>4. ASSUME NEW i \in 1 .. nb - 1
      PROVE  (next + i - 1) % RingSize = (first + i) % RingSize
  <2> DEFINE x == next + i - 1
             y == first + i
  <2>1. x \in 0 .. 2 * RingSize - 1 /\ y \in 0 .. 2 * RingSize - 1
    BY <1>1, <1>2 DEF Slots
  <2>2. \/ x = y /\ first + 1 < RingSize
        \/ x = y - RingSize /\ x < RingSize /\ y >= RingSize
    BY <1>1, <1>3
  <2> HIDE DEF x, y
  <2>3. /\ x % RingSize = IF x < RingSize THEN x ELSE x - RingSize
        /\ y % RingSize = IF y < RingSize THEN y ELSE y - RingSize
    BY <2>1, Wrap
  <2>4. x % RingSize = y % RingSize
    BY <1>1, <2>1, <2>2, <2>3
  <2> QED
    BY <2>4 DEF x, y
<1>5. /\ old \in Seq(T) /\ Len(old) = nb
      /\ \A i \in 1 .. nb : old[i] = ring[(first + i - 1) % RingSize]
  <2>1. nb \in 0 .. RingSize
    BY <1>1
  <2>2. old \in Seq(T)
    BY <2>1, RingIsASeq
  <2>3. Len(old) = nb
    BY <2>1, RingIsASeq
  <2>4. \A i \in 1 .. nb : old[i] = ring[(first + i - 1) % RingSize]
    BY DEF RingFrom
  <2> QED
    BY <2>2, <2>3, <2>4
<1>6. /\ new \in Seq(T) /\ Len(new) = nb - 1
      /\ \A i \in 1 .. nb - 1 : new[i] = ring[(next + i - 1) % RingSize]
  <2>1. nb - 1 \in 0 .. RingSize
    BY <1>1
  <2>2. new \in Seq(T)
    BY <2>1, <1>2, RingIsASeq
  <2>3. Len(new) = nb - 1
    BY <2>1, <1>2, RingIsASeq
  <2>4. \A i \in 1 .. nb - 1 : new[i] = ring[(next + i - 1) % RingSize]
    BY DEF RingFrom
  <2> QED
    BY <2>2, <2>3, <2>4
<1> HIDE DEF old, new
<1>7. old # <<>>
  BY <1>5
<1>8. /\ Tail(old) \in Seq(T) /\ Len(Tail(old)) = nb - 1
      /\ \A i \in 1 .. nb - 1 : Tail(old)[i] = old[i + 1]
  BY <1>1, <1>5, <1>7, HeadTailProperties
<1>9. ASSUME NEW i \in 1 .. nb - 1
      PROVE  new[i] = Tail(old)[i]
  <2>1. i + 1 \in 1 .. nb /\ first + (i + 1) - 1 = first + i
    BY <1>1
  <2>2. old[i + 1] = ring[(first + (i + 1) - 1) % RingSize]
    BY <1>5, <2>1
  <2> QED
    BY <1>4, <1>6, <1>8, <2>1, <2>2
<1>10. new = Tail(old)
  BY <1>6, <1>8, <1>9, SeqEqual
<1>11. Head(old) = ring[first]
  <2>1. old[1] = ring[(first + 1 - 1) % RingSize]
    BY <1>1, <1>5
  <2>2. first + 1 - 1 = first /\ first % RingSize = first
    BY <1>1, Wrap
  <2>3. Head(old) = old[1]
    BY <1>5, <1>7
  <2> QED
    BY <2>1, <2>2, <2>3
<1> QED
  BY <1>7, <1>10, <1>11 DEF new, old, next

-----------------------------------------------------------------------------
(* The mailboxes a state of sm stands for                                  *)

KnownNow == {p \in Pids : Found(p)}
ListeningNow == {p \in Pids : Enabled(p)}
WantedNow ==
  [p \in Pids |->
     IF Found(p) THEN Elements(subscribedNotifications[findProcessData(p)]) ELSE {}]
BoxNow == [p \in Pids |-> IF Found(p) THEN Pending(findProcessData(p)) ELSE <<>>]

(* What Inv and TableInv leave to say about one process.                   *)
LEMMA TheNode ==
  ASSUME TypeOK, TableInv, NEW p, Found(p)
  PROVE  /\ findProcessData(p) \in InUse /\ findProcessData(p) \in Nodes
         /\ pid[findProcessData(p)] = p
         /\ \A node \in InUse : pid[node] = p => node = findProcessData(p)
<1>1. findProcessData(p) \in InUse /\ pid[findProcessData(p)] = p
  BY DEF Found, findProcessData
<1> QED
  BY <1>1, InUseAreNodes DEF TableInv

LEMMA TheNodeNext ==
  ASSUME TableInv', NEW p, Found(p)'
  PROVE  /\ findProcessData(p)' \in InUse'
         /\ pid'[findProcessData(p)'] = p
         /\ \A node \in InUse' : pid'[node] = p => node = findProcessData(p)'
<1>1. findProcessData(p)' \in InUse' /\ pid'[findProcessData(p)'] = p
  BY DEF Found, findProcessData
<1> QED
  BY <1>1 DEF TableInv

(* The lists stay: every process keeps its node.                           *)
LEMMA SameNodes ==
  ASSUME TypeOK, TableInv, TableInv', UNCHANGED listVars, NEW p
  PROVE  /\ Found(p)' <=> Found(p)
         /\ Found(p) => findProcessData(p)' = findProcessData(p)
<1>1. InUse' = InUse /\ pid' = pid
  BY DEF listVars, InUse, Elements
<1>2. Found(p)' <=> Found(p)
  BY <1>1 DEF Found
<1>3. ASSUME Found(p)
      PROVE  findProcessData(p)' = findProcessData(p)
  <2>1. findProcessData(p)' \in InUse /\ pid[findProcessData(p)'] = p
    BY <1>1, <1>2, <1>3, TheNodeNext
  <2> QED
    BY <1>3, <2>1, TheNode
<1> QED
  BY <1>2, <1>3

LEMMA PendingIsRing ==
  ASSUME NEW node
  PROVE  Pending(node) = RingFrom(pendingNotifications[node],
                           receivedNotificationIndex[node], nbPendingNotifications[node])
  BY DEF Pending, RingFrom

LEMMA PendingIsRingNext ==
  ASSUME NEW node
  PROVE  Pending(node)' = RingFrom(pendingNotifications'[node],
                            receivedNotificationIndex'[node], nbPendingNotifications'[node])
  BY DEF Pending, RingFrom

(* Nothing that the mailboxes show has changed.                            *)
LEMMA SameMailboxes ==
  ASSUME TypeOK, TableInv, TableInv',
         UNCHANGED <<listVars, ringVars, notificationEnabled, subscribedNotifications>>
  PROVE  UNCHANGED <<KnownNow, ListeningNow, WantedNow, BoxNow>>
<1>1. \A p \in Pids : /\ Found(p)' <=> Found(p)
                      /\ Found(p) => findProcessData(p)' = findProcessData(p)
  BY SameNodes
<1>2. \A node : Pending(node)' = Pending(node)
  BY PendingIsRing, PendingIsRingNext DEF ringVars
<1>3. KnownNow' = KnownNow
  BY <1>1 DEF KnownNow
<1>4. ListeningNow' = ListeningNow
  BY <1>1 DEF ListeningNow, Enabled
<1>5. WantedNow' = WantedNow
  BY <1>1 DEF WantedNow, Elements
<1>6. BoxNow' = BoxNow
  BY <1>1, <1>2 DEF BoxNow
<1> QED
  BY <1>3, <1>4, <1>5, <1>6

(* The variables of SmMailbox under the mapping.                           *)
LEMMA ReplyMaps ==
  ASSUME TypeOK, TableInv, TableInv', NEW r, Reply(r)
  PROVE  UNCHANGED <<KnownNow, ListeningNow, WantedNow, BoxNow>> /\ result' = r
  BY SameMailboxes DEF Reply, procVars

LEMMA StutterMaps ==
  ASSUME UNCHANGED <<KnownNow, ListeningNow, WantedNow, BoxNow>>, UNCHANGED result
  PROVE  UNCHANGED Mailbox!vars
  BY DEF Mailbox!vars, KnownNow, ListeningNow, WantedNow, BoxNow

(* A node is taken for a process.                                          *)
LEMMA TakeMaps ==
  ASSUME TypeOK, TableInv, TableInv', NEW p \in Pids, ~Found(p), NEW enable \in BOOLEAN,
         NEW r, freeProcessDataList # <<>>, doRegisterProcess(p, enable, r)
  PROVE  /\ KnownNow' = KnownNow \cup {p}
         /\ ListeningNow' = IF enable THEN ListeningNow \cup {p} ELSE ListeningNow
         /\ UNCHANGED <<WantedNow, BoxNow>>
         /\ result' = r
<1>14. Head(freeProcessDataList) \in Nodes /\ Head(freeProcessDataList) \notin InUse
  BY HeadTailProperties, HeadAndTail DEF TypeOK, TableInv
<1>2. PICK node \in Nodes : node = Head(freeProcessDataList) /\ node \notin InUse
  BY <1>14
<1>1. /\ processDataInUseList' = <<node>> \o processDataInUseList
      /\ pid' = [pid EXCEPT ![node] = p]
      /\ notificationEnabled' = [notificationEnabled EXCEPT ![node] = enable]
      /\ pendingNotifications' =
           [pendingNotifications EXCEPT ![node] = [i \in Slots |-> NoNotif]]
      /\ receivedNotificationIndex' = [receivedNotificationIndex EXCEPT ![node] = 0]
      /\ nbPendingNotifications' = [nbPendingNotifications EXCEPT ![node] = 0]
      /\ subscribedNotifications' = [subscribedNotifications EXCEPT ![node] = <<>>]
      /\ result' = r
  BY <1>2 DEF doRegisterProcess
<1>3. InUse' = InUse \cup {node}
  <2>1. Elements(<<node>> \o processDataInUseList) = InUse \cup {node}
    BY <1>2, PrependElement DEF TypeOK, InUse
  <2> QED
    BY <1>1, <2>1 DEF InUse
<1>4. InUse \subseteq Nodes
  BY InUseAreNodes
<1>5. \A m \in InUse : m # node /\ pid'[m] = pid[m]
  BY <1>1, <1>2, <1>4 DEF TypeOK
<1>6. pid'[node] = p
  BY <1>1, <1>2 DEF TypeOK
<1>7. \A q \in Pids : Found(q)' <=> Found(q) \/ q = p
  BY <1>3, <1>5, <1>6 DEF Found
<1>8. findProcessData(p)' = node
  BY <1>3, <1>6, <1>7, TheNodeNext
<1>9. ASSUME NEW q \in Pids, Found(q)
      PROVE  /\ findProcessData(q)' = findProcessData(q)
             /\ findProcessData(q) \in InUse
  BY <1>3, <1>5, <1>7, <1>9, TheNode, TheNodeNext
<1>10. KnownNow' = KnownNow \cup {p}
  BY <1>7 DEF KnownNow
<1>11. ListeningNow' = IF enable THEN ListeningNow \cup {p} ELSE ListeningNow
  <2>1. notificationEnabled'[node] = enable
    BY <1>1, <1>2 DEF TypeOK
  <2>2. \A q \in Pids : Found(q) =>
          notificationEnabled'[findProcessData(q)] = notificationEnabled[findProcessData(q)]
    BY <1>1, <1>4, <1>5, <1>9 DEF TypeOK
  <2>3. \A q \in Pids : Enabled(q)' <=> Enabled(q) \/ (q = p /\ enable)
    BY <1>7, <1>8, <1>9, <2>1, <2>2 DEF Enabled
  <2> QED
    BY <2>3 DEF ListeningNow
<1>12. WantedNow' = WantedNow
  <2>1. Elements(subscribedNotifications'[node]) = {}
    BY <1>1, <1>2 DEF TypeOK, Elements
  <2>2. \A q \in Pids : Found(q) =>
          subscribedNotifications'[findProcessData(q)] = subscribedNotifications[findProcessData(q)]
    BY <1>1, <1>4, <1>5, <1>9 DEF TypeOK
  <2> DEFINE W(q) == IF Found(q) THEN Elements(subscribedNotifications[findProcessData(q)])
                                 ELSE {}
  <2>3. ASSUME NEW q \in Pids
        PROVE  W(q)' = W(q)
    <3>1. CASE q = p
      <4>1. W(q)' = Elements(subscribedNotifications'[node])
        BY <1>7, <1>8, <3>1 DEF Elements
      <4> QED
        BY <2>1, <3>1, <4>1
    <3>2. CASE q # p /\ Found(q)
      BY <1>7, <1>9, <2>2, <3>2 DEF Elements
    <3>3. CASE q # p /\ ~Found(q)
      BY <1>7, <3>3
    <3> QED
      BY <3>1, <3>2, <3>3
  <2> QED
    BY <2>3 DEF WantedNow
<1>13. BoxNow' = BoxNow
  <2>1. Pending(node)' = <<>>
    <3>1. /\ nbPendingNotifications'[node] = 0
          /\ receivedNotificationIndex'[node] = 0
          /\ pendingNotifications'[node] = [i \in Slots |-> NoNotif]
      BY <1>1, <1>2 DEF TypeOK
    <3>2. [i \in Slots |-> NoNotif] \in [Slots -> {NoNotif}] /\ 0 \in Slots
      BY CapacityAssumption DEF Slots
    <3> QED
      BY <3>1, <3>2, PendingIsRingNext, EmptyRing
  <2>2. \A q \in Pids : Found(q) => Pending(findProcessData(q))' = Pending(findProcessData(q))
    <3> SUFFICES ASSUME NEW q \in Pids, Found(q)
                 PROVE  Pending(findProcessData(q))' = Pending(findProcessData(q))
      OBVIOUS
    <3> DEFINE m == findProcessData(q)
    <3>1. m \in Nodes /\ m # node /\ m' = m
      BY <1>4, <1>5, <1>9
    <3>2. /\ pendingNotifications'[m] = pendingNotifications[m]
          /\ receivedNotificationIndex'[m] = receivedNotificationIndex[m]
          /\ nbPendingNotifications'[m] = nbPendingNotifications[m]
      BY <1>1, <3>1 DEF TypeOK
    <3> QED
      BY <3>1, <3>2 DEF Pending
  <2> DEFINE B(q) == IF Found(q) THEN Pending(findProcessData(q)) ELSE <<>>
  <2>3. ASSUME NEW q \in Pids
        PROVE  B(q)' = B(q)
    <3>1. CASE q = p
      <4>1. B(q)' = Pending(node)'
        BY <1>7, <1>8, <3>1 DEF Pending
      <4> QED
        BY <2>1, <3>1, <4>1
    <3>2. CASE q # p
      BY <1>7, <2>2, <3>2
    <3> QED
      BY <3>1, <3>2
  <2> QED
    BY <2>3 DEF BoxNow
<1> QED
  BY <1>1, <1>10, <1>11, <1>12, <1>13

-----------------------------------------------------------------------------
(* Each command is the command of SmMailbox                                *)

LEMMA RegisterMaps ==
  ASSUME TypeOK, TableInv, TableInv', NEW p \in Pids, RegisterProcess(p)
  PROVE  Mailbox!RegisterProcess(p) \/ UNCHANGED Mailbox!vars
<1>1. CASE Found(p)
  <2>1. /\ UNCHANGED <<KnownNow, ListeningNow, WantedNow, BoxNow>>
        /\ result' = About("RegisterProcess", p, "already")
    BY <1>1, ReplyMaps DEF RegisterProcess
  <2>2. p \in KnownNow
    BY <1>1 DEF KnownNow
  <2> QED
    BY <2>1, <2>2 DEF Mailbox!RegisterProcess, Mailbox!Told, Mailbox!Answer, Mailbox!state,
       Mailbox!NoFlags, NoFlags, About, Result, KnownNow, ListeningNow, WantedNow, BoxNow
<1>2. CASE ~Found(p) /\ freeProcessDataList # <<>>
  <2>1. /\ KnownNow' = KnownNow \cup {p}
        /\ UNCHANGED <<ListeningNow, WantedNow, BoxNow>>
        /\ result' = About("RegisterProcess", p, "ok")
    BY <1>2, TakeMaps DEF RegisterProcess
  <2>2. p \notin KnownNow
    BY <1>2 DEF KnownNow
  <2> QED
    BY <2>1, <2>2 DEF Mailbox!RegisterProcess, Mailbox!Told, Mailbox!Answer, Mailbox!state,
       Mailbox!NoFlags, NoFlags, About, Result, KnownNow, ListeningNow, WantedNow, BoxNow
<1>3. CASE ~Found(p) /\ freeProcessDataList = <<>>
  <2>1. UNCHANGED <<procVars, result>>
    BY <1>3 DEF RegisterProcess, doRegisterProcess
  <2> QED
    BY <2>1, SameMailboxes, StutterMaps DEF procVars
<1> QED
  BY <1>1, <1>2, <1>3

LEMMA UnregisterMaps ==
  ASSUME TypeOK, TableInv, TableInv', NEW p \in Pids, UnregisterProcess(p)
  PROVE  Mailbox!UnregisterProcess(p)
<1>1. CASE ~Found(p)
  <2>1. /\ UNCHANGED <<KnownNow, ListeningNow, WantedNow, BoxNow>>
        /\ result' = About("UnregisterProcess", p, "notFound")
    BY <1>1, ReplyMaps DEF UnregisterProcess
  <2>2. p \notin KnownNow
    BY <1>1 DEF KnownNow
  <2> QED
    BY <2>1, <2>2 DEF Mailbox!UnregisterProcess, Mailbox!Told, Mailbox!Answer, Mailbox!state,
       Mailbox!NoFlags, NoFlags, About, Result, KnownNow, ListeningNow, WantedNow, BoxNow
<1>2. CASE Found(p)
  <2>1. PICK node \in Nodes : /\ node = findProcessData(p) /\ node \in InUse
                              /\ pid[node] = p
    BY <1>2, TheNode
  <2>2. /\ processDataInUseList' = Without(processDataInUseList, node)
        /\ UNCHANGED <<pid, ringVars, notificationEnabled, subscribedNotifications>>
        /\ result' = About("UnregisterProcess", p, "ok")
    BY <1>2, <2>1 DEF UnregisterProcess
  <2>3. InUse' = InUse \ {node}
    <3>1. Elements(Without(processDataInUseList, node)) = InUse \ {node}
      BY <2>1, WithoutProperties DEF TypeOK, TableInv, InUse
    <3> QED
      BY <2>2, <3>1 DEF InUse
  <2>4. \A q \in Pids : Found(q)' <=> Found(q) /\ q # p
    <3>1. \A m \in InUse : pid[m] = p => m = node
      BY <1>2, <2>1, TheNode
    <3> QED
      BY <2>1, <2>2, <2>3, <3>1 DEF Found
  <2>5. ASSUME NEW q \in Pids, Found(q), q # p
        PROVE  findProcessData(q)' = findProcessData(q)
    <3>1. findProcessData(q)' \in InUse /\ pid[findProcessData(q)'] = q
      BY <2>2, <2>3, <2>4, <2>5, TheNodeNext
    <3> QED
      BY <2>5, <3>1, TheNode
  <2>6. KnownNow' = KnownNow \ {p}
    BY <2>4 DEF KnownNow
  <2>7. ListeningNow' = ListeningNow \ {p}
    BY <2>2, <2>4, <2>5 DEF ListeningNow, Enabled
  <2>8. WantedNow' = [WantedNow EXCEPT ![p] = {}]
    BY <2>2, <2>4, <2>5 DEF WantedNow, Elements
  <2>9. BoxNow' = [BoxNow EXCEPT ![p] = <<>>]
    <3>1. \A m : Pending(m)' = Pending(m)
      BY <2>2, PendingIsRing, PendingIsRingNext DEF ringVars
    <3> QED
      BY <2>4, <2>5, <3>1 DEF BoxNow
  <2>10. p \in KnownNow
    BY <1>2 DEF KnownNow
  <2> QED
    BY <2>2, <2>6, <2>7, <2>8, <2>9, <2>10
    DEF Mailbox!UnregisterProcess, Mailbox!Told, Mailbox!Answer,
        Mailbox!NoFlags, NoFlags, About, Result, KnownNow, ListeningNow, WantedNow, BoxNow
<1> QED
  BY <1>1, <1>2

LEMMA EnableMaps ==
  ASSUME TypeOK, TableInv, TableInv', NEW p \in Pids, EnableNotification(p)
  PROVE  Mailbox!EnableNotification(p) \/ UNCHANGED Mailbox!vars
<1>1. CASE Found(p)
  <2>1. PICK node \in Nodes : node = findProcessData(p) /\ node \in InUse
    BY <1>1, TheNode
  <2>2. /\ notificationEnabled' = [notificationEnabled EXCEPT ![node] = TRUE]
        /\ result' = About("EnableNotification", p, "ok")
        /\ UNCHANGED <<listVars, ringVars, subscribedNotifications>>
    BY <1>1, <2>1 DEF EnableNotification, Reply
  <2>3. \A q \in Pids : /\ Found(q)' <=> Found(q)
                        /\ Found(q) => findProcessData(q)' = findProcessData(q)
    BY <2>2, SameNodes
  <2>4. KnownNow' = KnownNow \cup {p}
    BY <1>1, <2>3 DEF KnownNow
  <2>5. ListeningNow' = ListeningNow \cup {p}
    <3>1. \A q \in Pids : Found(q) => /\ findProcessData(q) \in Nodes
                                      /\ q # p => findProcessData(q) # node
      BY <1>1, <2>1, TheNode
    <3>2. \A q \in Pids : Enabled(q)' <=> Enabled(q) \/ q = p
      BY <1>1, <2>1, <2>2, <2>3, <3>1 DEF Enabled, TypeOK
    <3> QED
      BY <3>2 DEF ListeningNow
  <2>6. WantedNow' = WantedNow
    BY <2>2, <2>3 DEF WantedNow, Elements
  <2>7. BoxNow' = BoxNow
    <3>1. \A m : Pending(m)' = Pending(m)
      BY <2>2, PendingIsRing, PendingIsRingNext DEF ringVars
    <3> QED
      BY <2>3, <3>1 DEF BoxNow
  <2>8. p \in KnownNow
    BY <1>1 DEF KnownNow
  <2> QED
    BY <2>2, <2>4, <2>5, <2>6, <2>7, <2>8
    DEF Mailbox!EnableNotification, Mailbox!Told, Mailbox!Answer,
        Mailbox!NoFlags, NoFlags, About, Result, KnownNow, ListeningNow, WantedNow, BoxNow
<1>2. CASE ~Found(p) /\ p \in Section0 /\ freeProcessDataList # <<>>
  <2>1. /\ KnownNow' = KnownNow \cup {p}
        /\ ListeningNow' = ListeningNow \cup {p}
        /\ UNCHANGED <<WantedNow, BoxNow>>
        /\ result' = About("EnableNotification", p, "ok")
    BY <1>2, TakeMaps DEF EnableNotification
  <2> QED
    BY <1>2, <2>1
    DEF Mailbox!EnableNotification, Mailbox!Told, Mailbox!Answer,
        Mailbox!NoFlags, NoFlags, About, Result, KnownNow, ListeningNow, WantedNow, BoxNow
<1>3. CASE ~Found(p) /\ p \in Section0 /\ freeProcessDataList = <<>>
  <2>1. UNCHANGED <<procVars, result>>
    BY <1>3 DEF EnableNotification, doRegisterProcess
  <2> QED
    BY <2>1, SameMailboxes, StutterMaps DEF procVars
<1>4. CASE ~Found(p) /\ p \notin Section0
  <2>1. /\ UNCHANGED <<KnownNow, ListeningNow, WantedNow, BoxNow>>
        /\ result' = About("EnableNotification", p, "notFound")
    BY <1>4, ReplyMaps DEF EnableNotification
  <2>2. p \notin KnownNow
    BY <1>4 DEF KnownNow
  <2> QED
    BY <1>4, <2>1, <2>2
    DEF Mailbox!EnableNotification, Mailbox!Told, Mailbox!Answer, Mailbox!state,
        Mailbox!NoFlags, NoFlags, About, Result, KnownNow, ListeningNow, WantedNow, BoxNow
<1> QED
  BY <1>1, <1>2, <1>3, <1>4

(* One table is replaced: the wishes of its process are, and no other's.   *)
LEMMA TableMaps ==
  ASSUME TypeOK, TableInv, TableInv', NEW p \in Pids, Found(p), NEW subs,
         subscribedNotifications' =
           [subscribedNotifications EXCEPT ![findProcessData(p)] = subs],
         UNCHANGED <<listVars, ringVars, notificationEnabled>>
  PROVE  /\ UNCHANGED <<KnownNow, ListeningNow, BoxNow>>
         /\ WantedNow' = [WantedNow EXCEPT ![p] = Elements(subs)]
<1>1. \A q \in Pids : /\ Found(q)' <=> Found(q)
                      /\ Found(q) => findProcessData(q)' = findProcessData(q)
  BY SameNodes
<1>2. \A q \in Pids : Found(q) => /\ findProcessData(q) \in Nodes
                                  /\ q # p => findProcessData(q) # findProcessData(p)
  BY TheNode
<1>3. KnownNow' = KnownNow
  BY <1>1 DEF KnownNow
<1>4. ListeningNow' = ListeningNow
  BY <1>1 DEF ListeningNow, Enabled
<1>5. BoxNow' = BoxNow
  <2>1. \A m : Pending(m)' = Pending(m)
    BY PendingIsRing, PendingIsRingNext DEF ringVars
  <2> QED
    BY <1>1, <2>1 DEF BoxNow
<1>6. WantedNow' = [WantedNow EXCEPT ![p] = Elements(subs)]
  <2>1. \A q \in Pids : Found(q) =>
          subscribedNotifications'[findProcessData(q)] =
            IF q = p THEN subs ELSE subscribedNotifications[findProcessData(q)]
    BY <1>2 DEF TypeOK
  <2> QED
    BY <1>1, <2>1 DEF WantedNow, Elements
<1> QED
  BY <1>3, <1>4, <1>5, <1>6

(* The two modules count alike.                                            *)
LEMMA SameCount == \A S : Mailbox!Cardinality(S) = Cardinality(S)
  BY DEF Mailbox!Cardinality, Cardinality

LEMMA SubscribeMaps ==
  ASSUME TypeOK, TableInv, TableInv', NEW p \in Pids, NEW n \in NotifIds, Subscribe(p, n)
  PROVE  Mailbox!Subscribe(p, n)
<1> DEFINE Is(reply) == Result("Subscribe", p, n, NoFlags, reply)
           subs == subscribedNotifications[findProcessData(p)]
<1>1. CASE ~Enabled(p)
  <2>1. /\ UNCHANGED <<KnownNow, ListeningNow, WantedNow, BoxNow>>
        /\ result' = Is("notFound")
    BY <1>1, ReplyMaps DEF Subscribe
  <2>2. p \notin ListeningNow
    BY <1>1 DEF ListeningNow
  <2> QED
    BY <2>1, <2>2 DEF Mailbox!Subscribe, Mailbox!Answer, Mailbox!state,
       Mailbox!NoFlags, NoFlags, Result, KnownNow, ListeningNow, WantedNow, BoxNow
<1>2. CASE Enabled(p)
  <2>1. /\ p \in ListeningNow /\ Found(p)
        /\ WantedNow[p] = Elements(subs)
    BY <1>2 DEF ListeningNow, WantedNow, Enabled
  <2>2. /\ subs \in Seq(NotifIds) /\ Distinct(subs) /\ Len(subs) <= MaxSubscribed
    <3>1. findProcessData(p) \in Nodes
      BY <2>1, TheNode
    <3> QED
      BY <3>1 DEF TypeOK, TableInv, SubscriptionsAreASet, Distinct
  <2>3. Mailbox!Cardinality(WantedNow[p]) = Len(subs) /\ Len(subs) \in Nat
    BY <2>1, <2>2, SameCount, CountDistinct, LenProperties
  <2>4. CASE n \in Elements(subs)
    <3>1. /\ UNCHANGED <<KnownNow, ListeningNow, WantedNow, BoxNow>>
          /\ result' = Is("already")
      BY <1>2, <2>4, ReplyMaps DEF Subscribe
    <3> QED
      BY <2>1, <2>4, <3>1 DEF Mailbox!Subscribe, Mailbox!Answer, Mailbox!state,
         Mailbox!NoFlags, NoFlags, Result, KnownNow, ListeningNow, WantedNow, BoxNow
  <2>5. CASE n \notin Elements(subs) /\ Len(subs) < MaxSubscribed
    <3>1. /\ subscribedNotifications' =
               [subscribedNotifications EXCEPT ![findProcessData(p)] = Append(subs, n)]
          /\ UNCHANGED <<listVars, ringVars, notificationEnabled>>
          /\ result' = Is("ok")
      BY <1>2, <2>2, <2>3, <2>5, CapacityAssumption DEF Subscribe
    <3>2. Elements(Append(subs, n)) = WantedNow[p] \cup {n}
      BY <2>1, <2>2, AppendElement
    <3>3. /\ UNCHANGED <<KnownNow, ListeningNow, BoxNow>>
          /\ WantedNow' = [WantedNow EXCEPT ![p] = WantedNow[p] \cup {n}]
      BY <2>1, <3>1, <3>2, TableMaps
    <3>4. n \notin WantedNow[p] /\ Mailbox!Cardinality(WantedNow[p]) < MaxSubscribed
      BY <2>1, <2>3, <2>5
    <3> QED
      BY <2>1, <3>1, <3>3, <3>4 DEF Mailbox!Subscribe, Mailbox!Answer,
         Mailbox!NoFlags, NoFlags, Result, KnownNow, ListeningNow, WantedNow, BoxNow
  <2>6. CASE n \notin Elements(subs) /\ Len(subs) >= MaxSubscribed
    <3>1. /\ UNCHANGED <<KnownNow, ListeningNow, WantedNow, BoxNow>>
          /\ result' = Is("outOfRange")
      <4>1. ~(Len(subs) < MaxSubscribed)
        BY <2>3, <2>6, CapacityAssumption
      <4> QED
        BY <1>2, <2>6, <4>1, ReplyMaps DEF Subscribe
    <3>2. n \notin WantedNow[p] /\ Mailbox!Cardinality(WantedNow[p]) = MaxSubscribed
      BY <2>1, <2>2, <2>3, <2>6, CapacityAssumption
    <3> QED
      BY <2>1, <3>1, <3>2 DEF Mailbox!Subscribe, Mailbox!Answer, Mailbox!state,
         Mailbox!NoFlags, NoFlags, Result, KnownNow, ListeningNow, WantedNow, BoxNow
  <2> QED
    BY <2>3, <2>4, <2>5, <2>6, CapacityAssumption
<1> QED
  BY <1>1, <1>2

LEMMA UnsubscribeMaps ==
  ASSUME TypeOK, TableInv, TableInv', NEW p \in Pids, NEW n \in NotifIds, Unsubscribe(p, n)
  PROVE  Mailbox!Unsubscribe(p, n)
<1> DEFINE Is(reply) == Result("Unsubscribe", p, n, NoFlags, reply)
           subs == subscribedNotifications[findProcessData(p)]
<1>1. CASE Enabled(p) /\ n \in Elements(subs)
  <2>1. /\ p \in ListeningNow /\ Found(p)
        /\ WantedNow[p] = Elements(subs)
    BY <1>1 DEF ListeningNow, WantedNow, Enabled
  <2>2. subs \in Seq(NotifIds) /\ Distinct(subs)
    <3>1. findProcessData(p) \in Nodes
      BY <2>1, TheNode
    <3> QED
      BY <3>1 DEF TypeOK, TableInv, SubscriptionsAreASet, Distinct
  <2>3. PICK i \in DOMAIN subs :
          /\ subs[i] = n
          /\ subscribedNotifications' =
               [subscribedNotifications EXCEPT ![findProcessData(p)] = SwapRemove(subs, i)]
          /\ UNCHANGED <<listVars, ringVars, notificationEnabled>>
          /\ result' = Is("ok")
    BY <1>1 DEF Unsubscribe
  <2>4. Elements(SwapRemove(subs, i)) = WantedNow[p] \ {n}
    BY <2>1, <2>2, <2>3, SwapRemoved
  <2>5. /\ UNCHANGED <<KnownNow, ListeningNow, BoxNow>>
        /\ WantedNow' = [WantedNow EXCEPT ![p] = WantedNow[p] \ {n}]
    BY <2>1, <2>3, <2>4, TableMaps
  <2> QED
    BY <1>1, <2>1, <2>3, <2>5 DEF Mailbox!Unsubscribe, Mailbox!Answer,
       Mailbox!NoFlags, NoFlags, Result, KnownNow, ListeningNow, WantedNow, BoxNow
<1>2. CASE ~Enabled(p) \/ n \notin Elements(subs)
  <2>1. /\ UNCHANGED <<KnownNow, ListeningNow, WantedNow, BoxNow>>
        /\ result' = Is("notFound")
    BY <1>2, ReplyMaps DEF Unsubscribe, Elements
  <2>2. p \notin ListeningNow \/ n \notin WantedNow[p]
    BY <1>2 DEF ListeningNow, WantedNow, Enabled
  <2> QED
    BY <2>1, <2>2 DEF Mailbox!Unsubscribe, Mailbox!Answer, Mailbox!state,
       Mailbox!NoFlags, NoFlags, Result, KnownNow, ListeningNow, WantedNow, BoxNow
<1> QED
  BY <1>1, <1>2

(* A step that appends a notification to the rings of some nodes, and      *)
(* changes nothing else that the mailboxes show.                           *)
Appends(nodes, n) ==
  /\ \A node \in nodes : node \in InUse /\ node \in Nodes
  /\ \A node \in Nodes : Pending(node)' = IF node \in nodes
                                         THEN Append(Pending(node), n)
                                         ELSE Pending(node)
  /\ UNCHANGED <<listVars, notificationEnabled, subscribedNotifications>>

(* Publication: what the loop over a set of positions does to the rings.   *)
LEMMA PublishStores ==
  ASSUME Inv, NEW cmd, NEW p, NEW n \in NotifIds, NEW flags,
         NEW targets \in SUBSET DOMAIN processDataInUseList,
         Publish(cmd, p, targets, n, flags),
         NEW nodes, nodes = StoresIn(targets, n, flags)
  PROVE  Appends(nodes, n)
<1>1. /\ \A node \in nodes : /\ node \in InUse /\ node \in Nodes
                             /\ nbPendingNotifications[node] \in 0 .. RingSize - 1
      /\ pendingNotifications' = [node \in Nodes |->
           IF node \in nodes
           THEN [pendingNotifications[node] EXCEPT ![pendingNotificationIndex[node]] = n]
           ELSE pendingNotifications[node]]
      /\ nbPendingNotifications' = [node \in Nodes |->
           IF node \in nodes THEN nbPendingNotifications[node] + 1
           ELSE nbPendingNotifications[node]]
      /\ UNCHANGED <<listVars, notificationEnabled, subscribedNotifications,
                     receivedNotificationIndex>>
  <2>1. Stored(nodes, n)
    BY PublishEffect
  <2> QED
    BY <2>1, RoomToStore DEF Stored
<1>2. ASSUME NEW node \in Nodes, node \notin nodes
      PROVE  Pending(node)' = Pending(node)
  BY <1>1, <1>2, PendingIsRing, PendingIsRingNext
<1>3. ASSUME NEW node \in Nodes, node \in nodes
      PROVE  Pending(node)' = Append(Pending(node), n)
  <2> DEFINE nb == nbPendingNotifications[node]
             first == receivedNotificationIndex[node]
             ring == pendingNotifications[node]
             w == (first + nb) % RingSize
  <2>1. /\ nb \in 0 .. RingSize - 1 /\ first \in Slots
        /\ ring \in [Slots -> NotifIds \cup {NoNotif}]
    BY <1>1, <1>3 DEF Inv, TypeOK
  <2>2. pendingNotificationIndex[node] = w
    BY DEF Inv, RingIndicesAgree
  <2>3. /\ pendingNotifications'[node] = [ring EXCEPT ![w] = n]
        /\ nbPendingNotifications'[node] = nb + 1
        /\ receivedNotificationIndex'[node] = first
    BY <1>1, <1>3, <2>2
  <2> HIDE DEF nb, first, ring
  <2>4. RingFrom([ring EXCEPT ![w] = n], first, nb + 1) = Append(RingFrom(ring, first, nb), n)
    <3>1. n \in NotifIds \cup {NoNotif}
      OBVIOUS
    <3> QED
      BY <2>1, <3>1, RingPush
  <2>5. Pending(node)' = RingFrom([ring EXCEPT ![w] = n], first, nb + 1)
    BY <2>3, PendingIsRingNext DEF nb, first, ring
  <2>6. Pending(node) = RingFrom(ring, first, nb)
    BY PendingIsRing DEF nb, first, ring
  <2> QED
    BY <2>4, <2>5, <2>6
<1> QED
  BY <1>1, <1>2, <1>3 DEF Appends

(* A process is passed over as its node is.                                *)
LEMMA SameFlags ==
  ASSUME Inv, TableInv, NEW p \in Pids, Found(p), NEW n \in NotifIds, NEW flags \in Flags,
         NEW node, node = findProcessData(p)
  PROVE  /\ Mailbox!Full(p) <=> ~HasRoom(node)
         /\ Mailbox!Has(p, n) <=> IsPending(node, n)
         /\ Mailbox!PassedOver(p, n, flags) <=>
              (Skipped(node, n, flags) \/ (flags.ignoreFull /\ ~HasRoom(node)))
<1>1. node \in Nodes
  BY TheNode DEF Inv
<1>2. BoxNow[p] = Pending(node)
  BY DEF BoxNow
<1> DEFINE nb == nbPendingNotifications[node]
           first == receivedNotificationIndex[node]
           ring == pendingNotifications[node]
<1>3. /\ nb \in 0 .. RingSize /\ first \in Slots
      /\ ring \in [Slots -> NotifIds \cup {NoNotif}]
  BY <1>1 DEF Inv, TypeOK
<1> HIDE DEF nb, first, ring
<1>4. /\ Len(Pending(node)) = nb /\ DOMAIN Pending(node) = 1 .. nb
      /\ \A i \in 1 .. nb : Pending(node)[i] = ring[(first + i - 1) % RingSize]
  <2>1. Pending(node) = RingFrom(ring, first, nb)
    BY PendingIsRing DEF ring, first, nb
  <2>2. Len(RingFrom(ring, first, nb)) = nb
    BY <1>3, RingIsASeq, ZenonT(60)
  <2>4. DOMAIN RingFrom(ring, first, nb) = 1 .. nb
    BY DEF RingFrom
  <2>3. \A i \in 1 .. nb :
          RingFrom(ring, first, nb)[i] = ring[(first + i - 1) % RingSize]
    BY DEF RingFrom
  <2> QED
    BY <2>1, <2>2, <2>3, <2>4
<1>5. Len(BoxNow[p]) = RingSize <=> ~HasRoom(node)
  BY <1>2, <1>3, <1>4, CapacityAssumption DEF HasRoom, nb
<1>6. (\E i \in DOMAIN BoxNow[p] : BoxNow[p][i] = n) <=> IsPending(node, n)
  <2>1. IsPending(node, n) <=> \E i \in 0 .. nb - 1 : ring[(first + i) % RingSize] = n
    BY DEF IsPending, ring, first, nb
  <2>2. ASSUME NEW i \in 1 .. nb, Pending(node)[i] = n
        PROVE  \E j \in 0 .. nb - 1 : ring[(first + j) % RingSize] = n
    <3>1. i - 1 \in 0 .. nb - 1 /\ first + (i - 1) = first + i - 1
      BY <1>3 DEF Slots
    <3>2. ring[(first + (i - 1)) % RingSize] = n
      BY <1>4, <2>2, <3>1
    <3> QED
      BY <3>1, <3>2
  <2>3. ASSUME NEW j \in 0 .. nb - 1, ring[(first + j) % RingSize] = n
        PROVE  \E i \in 1 .. nb : Pending(node)[i] = n
    <3>1. j + 1 \in 1 .. nb /\ first + (j + 1) - 1 = first + j
      BY <1>3 DEF Slots
    <3>2. Pending(node)[j + 1] = n
      BY <1>4, <2>3, <3>1
    <3> QED
      BY <3>1, <3>2
  <2> QED
    BY <1>2, <1>4, <2>1, <2>2, <2>3
<1>7. Mailbox!Full(p) <=> ~HasRoom(node)
  BY <1>5 DEF Mailbox!Full, BoxNow
<1>8. Mailbox!Has(p, n) <=> IsPending(node, n)
  BY <1>6 DEF Mailbox!Has, BoxNow
<1> QED
  BY <1>7, <1>8 DEF Mailbox!PassedOver, Skipped

(* When no position of the loop fails, it gets to all of them.             *)
LEMMA AllReached ==
  ASSUME NEW targets \in SUBSET Nat, NEW n, NEW flags,
         \A i \in Reached(targets, n, flags) : ~Fails(processDataInUseList[i], n, flags)
  PROVE  Reached(targets, n, flags) = targets
<1> DEFINE bad == {i \in targets : Fails(processDataInUseList[i], n, flags)}
<1>1. bad = {}
  <2> SUFFICES ASSUME bad # {}
               PROVE  FALSE
    OBVIOUS
  <2>1. PICK i \in bad : \A j \in bad : i <= j
    BY LeastNatural
  <2>2. \A j \in targets : j < i => j \notin bad
    BY <2>1
  <2>3. i \in Reached(targets, n, flags)
    BY <2>1, <2>2 DEF Reached
  <2> QED
    BY <2>1, <2>3
<1> QED
  BY <1>1 DEF Reached

(* Publication to the processes of any set of positions.                   *)
LEMMA PublishMaps ==
  ASSUME Inv, TableInv, TypeOK', TableInv', NEW cmd, NEW p, NEW n \in NotifIds,
         NEW flags \in Flags, NEW targets \in SUBSET DOMAIN processDataInUseList,
         Publish(cmd, p, targets, n, flags),
         NEW T, T = {pid[processDataInUseList[i]] : i \in targets}
  PROVE  Mailbox!Publish(cmd, p, T, n, flags)
<1>1. PICK nodes : nodes = StoresIn(targets, n, flags)
  OBVIOUS
<1> DEFINE receivers == {pid[node] : node \in nodes}
           fits(node) == ~Skipped(node, n, flags) /\ (HasRoom(node) \/ ~flags.ignoreFull)
           addressed == {q \in T : ~Mailbox!PassedOver(q, n, flags)}
<1>2. /\ \A node \in nodes : node \in InUse /\ node \in Nodes
      /\ \A node \in Nodes : Pending(node)' = IF node \in nodes THEN Append(Pending(node), n)
                                                                ELSE Pending(node)
      /\ UNCHANGED <<listVars, notificationEnabled, subscribedNotifications>>
  <2>1. Appends(nodes, n)
    BY <1>1, PublishStores
  <2> QED
    BY <2>1 DEF Appends
<1>3. \A q \in Pids : /\ Found(q)' <=> Found(q)
                      /\ Found(q) => findProcessData(q)' = findProcessData(q)
  BY <1>2, SameNodes DEF Inv
<1>4. UNCHANGED <<KnownNow, ListeningNow, WantedNow>>
  BY <1>2, <1>3 DEF KnownNow, ListeningNow, WantedNow, Enabled, Elements
<1>5. ASSUME NEW node \in InUse
      PROVE  pid[node] \in Pids /\ Found(pid[node]) /\ findProcessData(pid[node]) = node
  <2>1. pid[node] \in Pids /\ Found(pid[node])
    BY DEF TableInv, Found
  <2> QED
    BY <2>1, TheNode DEF Inv
<1>6. ASSUME NEW q \in Pids, Found(q)
      PROVE  q \in receivers <=> findProcessData(q) \in nodes
  BY <1>2, <1>5, <1>6, TheNode DEF Inv
<1>7. receivers \subseteq KnownNow
  BY <1>2, <1>5 DEF KnownNow
<1>8. BoxNow' = [q \in Pids |-> IF q \in receivers THEN Append(BoxNow[q], n) ELSE BoxNow[q]]
  <2>1. \A q \in Pids : Found(q) =>
          Pending(findProcessData(q))' = IF q \in receivers
                                         THEN Append(Pending(findProcessData(q)), n)
                                         ELSE Pending(findProcessData(q))
    <3> SUFFICES ASSUME NEW q \in Pids, Found(q)
                 PROVE  Pending(findProcessData(q))' = IF q \in receivers
                                                       THEN Append(Pending(findProcessData(q)), n)
                                                       ELSE Pending(findProcessData(q))
      OBVIOUS
    <3>1. PICK node \in Nodes : node = findProcessData(q)
      BY TheNode DEF Inv
    <3>2. findProcessData(q)' = node
      BY <1>3, <3>1
    <3>3. Pending(findProcessData(q))' = Pending(node)'
      BY <3>2 DEF Pending
    <3>4. Pending(node)' = IF node \in nodes THEN Append(Pending(node), n) ELSE Pending(node)
      BY <1>2
    <3> QED
      BY <1>6, <3>1, <3>3, <3>4
  <2>2. \A q \in Pids : ~Found(q) => q \notin receivers
    BY <1>7 DEF KnownNow
  <2> HIDE DEF receivers
  <2> QED
    BY <1>3, <2>1, <2>2 DEF BoxNow
<1>9. ASSUME NEW i \in targets
      PROVE  /\ processDataInUseList[i] \in InUse
             /\ pid[processDataInUseList[i]] \in T
             /\ pid[processDataInUseList[i]] \in addressed <=> fits(processDataInUseList[i])
             /\ Mailbox!Full(pid[processDataInUseList[i]]) <=> ~HasRoom(processDataInUseList[i])
  <2>1. PICK node : node = processDataInUseList[i]
    OBVIOUS
  <2>2. node \in InUse
    BY <2>1 DEF InUse, Elements
  <2>3. PICK q \in Pids : q = pid[node] /\ Found(q) /\ node = findProcessData(q)
    BY <1>5, <2>2
  <2>4. q \in T
    BY <2>1, <2>3
  <2>5. /\ Mailbox!Full(q) <=> ~HasRoom(node)
        /\ Mailbox!PassedOver(q, n, flags) <=>
              (Skipped(node, n, flags) \/ (flags.ignoreFull /\ ~HasRoom(node)))
    BY <2>3, SameFlags
  <2> QED
    BY <2>1, <2>2, <2>3, <2>4, <2>5
<1>10. /\ receivers \subseteq addressed
       /\ \A q \in receivers : ~Mailbox!Full(q)
  <2> SUFFICES ASSUME NEW node \in nodes
               PROVE  pid[node] \in addressed /\ ~Mailbox!Full(pid[node])
    OBVIOUS
  <2>1. PICK i \in targets : node = processDataInUseList[i] /\ HasRoom(node)
                             /\ ~Skipped(node, n, flags)
    BY <1>1 DEF StoresIn, Reached
  <2> QED
    BY <1>9, <2>1
<1>11. Mailbox!Deliver(receivers, n)
  <2> HIDE DEF receivers
  <2> QED
    BY <1>4, <1>8, <1>10 DEF Mailbox!Deliver, KnownNow, ListeningNow, WantedNow, BoxNow
<1> DEFINE reached == {processDataInUseList[i] : i \in Reached(targets, n, flags)}
<1>12. result' = Result(cmd, p, n, flags,
                   IF \E node \in reached : Fails(node, n, flags) THEN "full" ELSE "ok")
  BY DEF Publish
<1>13. CASE \E node \in reached : Fails(node, n, flags)
  <2>1. PICK i \in targets : Fails(processDataInUseList[i], n, flags)
    BY <1>13 DEF Reached
  <2>2. pid[processDataInUseList[i]] \in addressed /\ Mailbox!Full(pid[processDataInUseList[i]])
    BY <1>9, <2>1 DEF Fails
  <2>3. result' = Result(cmd, p, n, flags, "full")
    BY <1>12, <1>13
  <2> HIDE DEF receivers
  <2> QED
    BY <1>10, <1>11, <2>2, <2>3 DEF Mailbox!Publish, Mailbox!Answer, Result
<1>14. CASE ~ \E node \in reached : Fails(node, n, flags)
  <2>1. Reached(targets, n, flags) = targets
    <3>1. targets \in SUBSET Nat
      <4>1. processDataInUseList \in Seq(Nodes)
        BY DEF Inv, TypeOK
      <4>2. DOMAIN processDataInUseList = 1 .. Len(processDataInUseList)
        BY <4>1, LenProperties
      <4> QED
        BY <4>2
    <3> QED
      BY <1>14, <3>1, AllReached
  <2>2. addressed \subseteq receivers
    <3> SUFFICES ASSUME NEW q \in addressed
                 PROVE  q \in receivers
      OBVIOUS
    <3>1. PICK i \in targets : q = pid[processDataInUseList[i]]
      OBVIOUS
    <3>2. fits(processDataInUseList[i])
      BY <1>9, <3>1
    <3>3. ~Fails(processDataInUseList[i], n, flags)
      BY <1>14, <2>1
    <3>4. processDataInUseList[i] \in nodes
      BY <1>1, <2>1, <3>2, <3>3 DEF StoresIn, Fails
    <3> QED
      BY <3>1, <3>4
  <2>3. addressed = receivers
    BY <1>10, <2>2
  <2>4. result' = Result(cmd, p, n, flags, "ok")
    BY <1>12, <1>14
  <2>5. Mailbox!Deliver(addressed, n)
    BY <1>11, <2>3
  <2> QED
    BY <2>4, <2>5 DEF Mailbox!Publish, Mailbox!Answer, Result
<1> QED
  BY <1>13, <1>14

(* The loops publish to the processes SmMailbox names.                     *)
LEMMA TargetsMap ==
  ASSUME TypeOK, TableInv, NEW n
  PROVE  /\ {pid[processDataInUseList[i]] : i \in EnabledPositions} = ListeningNow
         /\ {pid[processDataInUseList[i]] : i \in Subscribers(n)}
              = {p \in ListeningNow : n \in WantedNow[p]}
<1>1. ASSUME NEW i \in DOMAIN processDataInUseList
      PROVE  /\ pid[processDataInUseList[i]] \in Pids
             /\ Found(pid[processDataInUseList[i]])
             /\ findProcessData(pid[processDataInUseList[i]]) = processDataInUseList[i]
  <2>1. processDataInUseList[i] \in InUse
    BY DEF InUse, Elements
  <2>2. pid[processDataInUseList[i]] \in Pids /\ Found(pid[processDataInUseList[i]])
    BY <2>1 DEF TableInv, Found
  <2> QED
    BY <2>1, <2>2, TheNode
<1>2. ASSUME NEW p \in Pids, Found(p)
      PROVE  \E i \in DOMAIN processDataInUseList :
               processDataInUseList[i] = findProcessData(p) /\ pid[processDataInUseList[i]] = p
  BY <1>2, TheNode DEF InUse, Elements
<1>3. {pid[processDataInUseList[i]] : i \in EnabledPositions} = ListeningNow
  BY <1>1, <1>2 DEF EnabledPositions, ListeningNow, Enabled
<1>4. {pid[processDataInUseList[i]] : i \in Subscribers(n)}
        = {p \in ListeningNow : n \in WantedNow[p]}
  BY <1>1, <1>2 DEF Subscribers, EnabledPositions, ListeningNow, WantedNow, Enabled
<1> QED
  BY <1>3, <1>4

LEMMA PublishToAllMaps ==
  ASSUME Inv, TableInv, TypeOK', TableInv', NEW n \in NotifIds, PublishToAll(n)
  PROVE  Mailbox!PublishToAll(n)
<1>1. /\ Publish("PublishToAll", NoPid, EnabledPositions, n, NoFlags)
      /\ EnabledPositions \in SUBSET DOMAIN processDataInUseList
      /\ NoFlags \in Flags
      /\ ListeningNow = {pid[processDataInUseList[i]] : i \in EnabledPositions}
  BY NoFlagsTyped, TargetsMap DEF PublishToAll, EnabledPositions, Inv
<1>2. Mailbox!Publish("PublishToAll", NoPid, ListeningNow, n, NoFlags)
  BY <1>1, PublishMaps
<1> QED
  BY <1>2 DEF Mailbox!PublishToAll, Mailbox!NoFlags, NoFlags, ListeningNow

LEMMA PublishToSubscriberMaps ==
  ASSUME Inv, TableInv, TypeOK', TableInv', NEW n \in NotifIds, NEW flags \in Flags,
         PublishToSubscriber(n, flags)
  PROVE  Mailbox!PublishToSubscriber(n, flags)
<1> DEFINE receivers == {p \in ListeningNow : n \in WantedNow[p]}
<1>1. /\ Publish("PublishToSubscriber", NoPid, Subscribers(n), n, flags)
      /\ Subscribers(n) \in SUBSET DOMAIN processDataInUseList
      /\ receivers = {pid[processDataInUseList[i]] : i \in Subscribers(n)}
  BY TargetsMap DEF PublishToSubscriber, Subscribers, EnabledPositions, Inv
<1>2. Mailbox!Publish("PublishToSubscriber", NoPid, receivers, n, flags)
  BY <1>1, PublishMaps
<1> QED
  BY <1>2 DEF Mailbox!PublishToSubscriber, Mailbox!Subscribers, ListeningNow, WantedNow

LEMMA PublishAndGetSubscriberMaps ==
  ASSUME Inv, TableInv, TypeOK', TableInv', NEW n \in NotifIds, PublishAndGetSubscriber(n)
  PROVE  Mailbox!PublishAndGetSubscriber(n)
<1> DEFINE receivers == {p \in ListeningNow : n \in WantedNow[p]}
<1>1. /\ Publish("PublishAndGetSubscriber", NoPid, Subscribers(n), n, NoFlags)
      /\ Subscribers(n) \in SUBSET DOMAIN processDataInUseList
      /\ NoFlags \in Flags
      /\ receivers = {pid[processDataInUseList[i]] : i \in Subscribers(n)}
  BY NoFlagsTyped, TargetsMap
  DEF PublishAndGetSubscriber, Subscribers, EnabledPositions, Inv
<1>2. Mailbox!Publish("PublishAndGetSubscriber", NoPid, receivers, n, NoFlags)
  BY <1>1, PublishMaps
<1> QED
  BY <1>2 DEF Mailbox!PublishAndGetSubscriber, Mailbox!Subscribers, Mailbox!NoFlags, NoFlags,
     ListeningNow, WantedNow

LEMMA PublishToProcessMaps ==
  ASSUME Inv, TableInv, TypeOK', TableInv', NEW p \in Pids, NEW n \in NotifIds,
         PublishToProcess(p, n)
  PROVE  Mailbox!PublishToProcess(p, n)
<1>1. CASE ~Enabled(p)
  <2>1. /\ UNCHANGED <<KnownNow, ListeningNow, WantedNow, BoxNow>>
        /\ result' = Result("PublishToProcess", p, n, NoFlags, "notFound")
    BY <1>1, ReplyMaps DEF PublishToProcess, Inv
  <2>2. p \notin ListeningNow
    BY <1>1 DEF ListeningNow
  <2> QED
    BY <2>1, <2>2 DEF Mailbox!PublishToProcess, Mailbox!Answer, Mailbox!state,
       Mailbox!NoFlags, NoFlags, Result, KnownNow, ListeningNow, WantedNow, BoxNow
<1>2. CASE Enabled(p)
  <2>1. Found(p) /\ p \in ListeningNow
    BY <1>2 DEF Enabled, ListeningNow
  <2>2. PICK targets \in SUBSET DOMAIN processDataInUseList :
          targets = {i \in DOMAIN processDataInUseList :
                       processDataInUseList[i] = findProcessData(p)}
    OBVIOUS
  <2>3. Publish("PublishToProcess", p, targets, n, NoFlags)
    BY <1>2, <2>2 DEF PublishToProcess
  <2>4. {p} = {pid[processDataInUseList[i]] : i \in targets}
    <3>1. findProcessData(p) \in InUse /\ pid[findProcessData(p)] = p
      BY <2>1, TheNode DEF Inv
    <3>2. PICK i \in DOMAIN processDataInUseList :
            processDataInUseList[i] = findProcessData(p)
      BY <3>1 DEF InUse, Elements
    <3> QED
      BY <2>2, <3>1, <3>2
  <2>5. Mailbox!Publish("PublishToProcess", p, {p}, n, NoFlags)
    BY <2>3, <2>4, NoFlagsTyped, PublishMaps
  <2> QED
    BY <2>1, <2>5 DEF Mailbox!PublishToProcess, Mailbox!NoFlags, NoFlags, ListeningNow
<1> QED
  BY <1>1, <1>2

(* The oldest entry of the ring is the head of the mailbox; a client that  *)
(* was woken finds one, by SemaphoreMatchesRing.                           *)
LEMMA ReceiveMaps ==
  ASSUME Inv, TableInv, TableInv', NEW p \in Pids, ReceiveNotification(p)
  PROVE  Mailbox!ReceiveNotification(p)
<1>1. CASE ~Enabled(p)
  <2>1. /\ UNCHANGED <<KnownNow, ListeningNow, WantedNow, BoxNow>>
        /\ result' = About("ReceiveNotification", p, "notFound")
    BY <1>1, ReplyMaps DEF ReceiveNotification, Inv
  <2>2. p \notin ListeningNow
    BY <1>1 DEF ListeningNow
  <2> QED
    BY <2>1, <2>2 DEF Mailbox!ReceiveNotification, Mailbox!Told, Mailbox!Answer, Mailbox!state,
       Mailbox!NoFlags, NoFlags, About, Result, KnownNow, ListeningNow, WantedNow, BoxNow
<1>2. CASE Enabled(p)
  <2>1. Found(p)
    BY <1>2 DEF Enabled
  <2>2. PICK node \in Nodes : node = findProcessData(p) /\ node \in InUse
    BY <2>1, TheNode DEF Inv
  <2> DEFINE nb == nbPendingNotifications[node]
             first == receivedNotificationIndex[node]
             ring == pendingNotifications[node]
  <2>3. nb \in 0 .. RingSize /\ first \in Slots /\ ring \in [Slots -> NotifIds \cup {NoNotif}]
    BY DEF Inv, TypeOK
  <2>4. nb \in 1 .. RingSize
    <3>1. woken[node] > 0 /\ woken[node] \in Nat /\ semaphore[node] \in Nat
          /\ semaphore[node] + woken[node] = nb
      BY <1>2, <2>2 DEF ReceiveNotification, Reply, Inv, TypeOK, SemaphoreMatchesRing
    <3> QED
      BY <2>3, <3>1
  <2>5. /\ nbPendingNotifications' = [nbPendingNotifications EXCEPT ![node] = nb - 1]
        /\ receivedNotificationIndex' =
             [receivedNotificationIndex EXCEPT ![node] = Advance(first)]
        /\ result' = Result("ReceiveNotification", p, ring[first], NoFlags, "ok")
        /\ UNCHANGED <<listVars, notificationEnabled, subscribedNotifications,
                       pendingNotifications>>
    <3>1. nb # 0
      BY <2>4
    <3> QED
      BY <1>2, <2>2, <3>1 DEF ReceiveNotification, Reply
  <2>6. /\ nbPendingNotifications'[node] = nb - 1
        /\ receivedNotificationIndex'[node] = (first + 1) % RingSize
        /\ pendingNotifications'[node] = ring
    BY <2>5 DEF Inv, TypeOK, Advance
  <2> HIDE DEF nb, first, ring
  <2>7. Pending(node) = RingFrom(ring, first, nb)
    BY PendingIsRing DEF nb, first, ring
  <2>8. Pending(node)' = RingFrom(ring, (first + 1) % RingSize, nb - 1)
    BY <2>6, PendingIsRingNext
  <2>9. /\ Pending(node)' = Tail(Pending(node))
        /\ Pending(node) # <<>>
        /\ Head(Pending(node)) = ring[first]
    BY <2>3, <2>4, <2>7, <2>8, RingPop
  <2>10. \A m \in Nodes : m # node => Pending(m)' = Pending(m)
    BY <2>5, PendingIsRing, PendingIsRingNext DEF Inv, TypeOK
  <2>11. \A q \in Pids : /\ Found(q)' <=> Found(q)
                         /\ Found(q) => findProcessData(q)' = findProcessData(q)
    BY <2>5, SameNodes DEF Inv
  <2>12. UNCHANGED <<KnownNow, ListeningNow, WantedNow>>
    BY <2>5, <2>11 DEF KnownNow, ListeningNow, WantedNow, Enabled, Elements
  <2>13. BoxNow[p] = Pending(node)
    BY <2>1, <2>2 DEF BoxNow
  <2>14. BoxNow' = [BoxNow EXCEPT ![p] = Tail(BoxNow[p])]
    <3>1. ASSUME NEW q \in Pids, Found(q)
          PROVE  Pending(findProcessData(q))' = IF q = p THEN Tail(Pending(node))
                                                ELSE Pending(findProcessData(q))
      <4>1. PICK m \in Nodes : m = findProcessData(q) /\ (q # p => m # node)
                               /\ (q = p => m = node)
        BY <2>1, <2>2, <3>1, TheNode DEF Inv
      <4>2. Pending(findProcessData(q))' = Pending(m)'
        BY <2>11, <3>1, <4>1 DEF Pending
      <4> QED
        BY <2>9, <2>10, <4>1, <4>2
    <3> DEFINE B(q) == IF Found(q) THEN Pending(findProcessData(q)) ELSE <<>>
    <3>2. BoxNow = [q \in Pids |-> B(q)] /\ BoxNow' = [q \in Pids |-> B(q)']
      BY DEF BoxNow
    <3>3. \A q \in Pids : B(q)' = IF q = p THEN Tail(BoxNow[p]) ELSE B(q)
      BY <2>1, <2>11, <2>13, <3>1
    <3> HIDE DEF B
    <3> QED
      BY <3>2, <3>3
  <2> QED
    BY <2>5, <2>9, <2>12, <2>13, <2>14 DEF Mailbox!ReceiveNotification, Mailbox!Answer,
       Mailbox!NoFlags, NoFlags, Result, KnownNow, ListeningNow, WantedNow, BoxNow,
       ring, first
<1> QED
  BY <1>1, <1>2

-----------------------------------------------------------------------------
(* The refinement                                                          *)

LEMMA InitMaps == Init => Mailbox!Init
<1> SUFFICES ASSUME Init
             PROVE  Mailbox!Init
  OBVIOUS
<1>1. InUse = {}
  BY DEF Init, InUse, Elements
<1>2. \A p \in Pids : ~Found(p) /\ ~Enabled(p)
  BY <1>1 DEF Found, Enabled
<1> QED
  BY <1>2 DEF Init, Mailbox!Init, Mailbox!NoFlags, NoFlags, Result

LEMMA NextMaps ==
  Inv /\ TableInv /\ Inv' /\ TableInv' /\ [Next]_vars => [Mailbox!Next]_(Mailbox!vars)
<1> SUFFICES ASSUME Inv, TableInv, Inv', TableInv', [Next]_vars
             PROVE  Mailbox!Next \/ UNCHANGED Mailbox!vars
  OBVIOUS
<1>1. TypeOK /\ TypeOK'
  BY DEF Inv
<1>2. CASE UNCHANGED vars
  BY <1>1, <1>2, SameMailboxes, StutterMaps DEF vars, procVars
<1>3. ASSUME NEW p \in Pids, WaitNotification(p)
      PROVE  UNCHANGED Mailbox!vars
  BY <1>1, <1>3, SameMailboxes, StutterMaps DEF WaitNotification
<1>4. ASSUME NEW p \in Pids,
             \/ RegisterProcess(p) \/ UnregisterProcess(p) \/ EnableNotification(p)
             \/ ReceiveNotification(p)
      PROVE  Mailbox!Next \/ UNCHANGED Mailbox!vars
  BY <1>1, <1>4, RegisterMaps, UnregisterMaps, EnableMaps, ReceiveMaps DEF Mailbox!Next
<1>5. ASSUME NEW p \in Pids, NEW n \in NotifIds,
             Subscribe(p, n) \/ Unsubscribe(p, n) \/ PublishToProcess(p, n)
      PROVE  Mailbox!Next
  BY <1>1, <1>5, SubscribeMaps, UnsubscribeMaps, PublishToProcessMaps DEF Mailbox!Next
<1>6. ASSUME NEW n \in NotifIds, NEW flags \in Flags, PublishToSubscriber(n, flags)
      PROVE  Mailbox!Next
  BY <1>1, <1>6, PublishToSubscriberMaps DEF Mailbox!Next, Mailbox!Flags, Flags
<1>7. ASSUME NEW n \in NotifIds, PublishAndGetSubscriber(n) \/ PublishToAll(n)
      PROVE  Mailbox!Next
  BY <1>1, <1>7, PublishAndGetSubscriberMaps, PublishToAllMaps DEF Mailbox!Next
<1>8. CASE Client
  BY <1>3, <1>4, <1>8 DEF Client
<1>9. CASE Command
  BY <1>4, <1>5, <1>6, <1>7, <1>9 DEF Command
<1> QED
  BY <1>2, <1>8, <1>9 DEF Next

(* The process table, rings and semaphores of sm implement mailboxes: in   *)
(* every pool, for every number of processes and every capacity, what a    *)
(* command replies and changes is what SmMailbox allows.                   *)
THEOREM Refinement == Spec => ImplementsMailbox
<1>1. (Inv /\ TableInv) /\ (Inv /\ TableInv)' /\ [Next]_vars => [Mailbox!Next]_(Mailbox!vars)
  BY NextMaps
<1> QED
  BY <1>1, InitMaps, TableInvariance, PTL DEF Spec, ImplementsMailbox, Mailbox!Spec
=============================================================================
