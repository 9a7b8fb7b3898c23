----------------------------- MODULE SmMailbox -----------------------------
(***************************************************************************)
(* What the notification commands of sm promise, without its nodes, rings  *)
(* and semaphores: a known process may listen, has a set of wanted         *)
(* notifications and a first-in first-out mailbox of bounded capacity.  A  *)
(* publisher that is told "ok" knows that every process it addressed was   *)
(* delivered the notification, except those its flags allow to be passed   *)
(* over; one that is told "full" knows that a mailbox was full.            *)
(* SmNotifications implements this module.                                 *)
(***************************************************************************)
EXTENDS Naturals, Sequences, FiniteSets

CONSTANTS Pids, NotifIds, NoPid, NoNotif, Section0, Capacity, MaxWanted

VARIABLES
  known,      \* the registered processes
  listening,  \* those whose notifications are enabled
  wanted,     \* their subscriptions
  box,        \* what was published to them and not yet received
  answer      \* the last command and what it was told

vars == <<known, listening, wanted, box, answer>>
state == <<known, listening, wanted, box>>

Flags == [onlyIfNotPending : BOOLEAN, ignoreFull : BOOLEAN]
NoFlags == [onlyIfNotPending |-> FALSE, ignoreFull |-> FALSE]

Answer(cmd, p, n, flags, reply) ==
  answer' = [cmd |-> cmd, p |-> p, n |-> n, flags |-> flags, reply |-> reply]

Init ==
  /\ known = {}
  /\ listening = {}
  /\ wanted = [p \in Pids |-> {}]
  /\ box = [p \in Pids |-> <<>>]
  /\ answer = [cmd |-> "none", p |-> NoPid, n |-> NoNotif, flags |-> NoFlags,
               reply |-> "none"]

-----------------------------------------------------------------------------
Told(cmd, p, reply) == Answer(cmd, p, NoNotif, NoFlags, reply)

RegisterProcess(p) ==
  \/ Told("RegisterProcess", p, "already") /\ p \in known /\ UNCHANGED state
  \/ /\ Told("RegisterProcess", p, "ok")
     /\ p \notin known
     /\ known' = known \cup {p}
     /\ UNCHANGED <<listening, wanted, box>>

\* What was wanted or pending goes with the process.
UnregisterProcess(p) ==
  \/ Told("UnregisterProcess", p, "notFound") /\ p \notin known /\ UNCHANGED state
  \/ /\ Told("UnregisterProcess", p, "ok")
     /\ p \in known
     /\ known' = known \ {p}
     /\ listening' = listening \ {p}
     /\ wanted' = [wanted EXCEPT ![p] = {}]
     /\ box' = [box EXCEPT ![p] = <<>>]

EnableNotification(p) ==
  \/ /\ Told("EnableNotification", p, "ok")
     /\ p \in known \cup Section0
     /\ known' = known \cup {p}
     /\ listening' = listening \cup {p}
     /\ UNCHANGED <<wanted, box>>
  \/ /\ Told("EnableNotification", p, "notFound")
     /\ p \notin known \cup Section0
     /\ UNCHANGED state

Subscribe(p, n) ==
  LET Is(reply) == Answer("Subscribe", p, n, NoFlags, reply) IN
  \/ Is("notFound") /\ p \notin listening /\ UNCHANGED state
  \/ Is("already") /\ p \in listening /\ n \in wanted[p] /\ UNCHANGED state
  \/ /\ Is("ok")
     /\ p \in listening /\ n \notin wanted[p]
     /\ Cardinality(wanted[p]) < MaxWanted
     /\ wanted' = [wanted EXCEPT ![p] = @ \cup {n}]
     /\ UNCHANGED <<known, listening, box>>
  \/ /\ Is("outOfRange")
     /\ p \in listening /\ n \notin wanted[p]
     /\ Cardinality(wanted[p]) = MaxWanted
     /\ UNCHANGED state

Unsubscribe(p, n) ==
  LET Is(reply) == Answer("Unsubscribe", p, n, NoFlags, reply) IN
  \/ /\ Is("ok")
     /\ p \in listening /\ n \in wanted[p]
     /\ wanted' = [wanted EXCEPT ![p] = @ \ {n}]
     /\ UNCHANGED <<known, listening, box>>
  \/ /\ Is("notFound")
     /\ p \notin listening \/ n \notin wanted[p]
     /\ UNCHANGED state

-----------------------------------------------------------------------------
Full(p) == Len(box[p]) = Capacity
Has(p, n) == \E i \in DOMAIN box[p] : box[p][i] = n

PassedOver(p, n, flags) ==
  \/ flags.onlyIfNotPending /\ Has(p, n)
  \/ flags.ignoreFull /\ Full(p)

\* Every process of the set is delivered the notification.
Deliver(receivers, n) ==
  /\ \A p \in receivers : ~Full(p)
  /\ box' = [p \in Pids |->
               IF p \in receivers THEN Append(box[p], n) ELSE box[p]]
  /\ UNCHANGED <<known, listening, wanted>>

\* A publisher that meets a full mailbox may have reached only some of the
\* processes.
Publish(cmd, q, targets, n, flags) ==
  LET Addressed == {p \in targets : ~PassedOver(p, n, flags)}
      Is(reply) == Answer(cmd, q, n, flags, reply)
  IN \/ Is("ok") /\ Deliver(Addressed, n)
     \/ /\ Is("full")
        /\ \E p \in Addressed : Full(p)
        /\ \E receivers \in SUBSET Addressed : Deliver(receivers, n)

Subscribers(n) == {p \in listening : n \in wanted[p]}

PublishToSubscriber(n, flags) ==
  Publish("PublishToSubscriber", NoPid, Subscribers(n), n, flags)

PublishAndGetSubscriber(n) ==
  Publish("PublishAndGetSubscriber", NoPid, Subscribers(n), n, NoFlags)

PublishToAll(n) == Publish("PublishToAll", NoPid, listening, n, NoFlags)

PublishToProcess(p, n) ==
  \/ p \in listening /\ Publish("PublishToProcess", p, {p}, n, NoFlags)
  \/ /\ Answer("PublishToProcess", p, n, NoFlags, "notFound")
     /\ p \notin listening
     /\ UNCHANGED state

\* The oldest notification.
ReceiveNotification(p) ==
  \/ /\ box[p] # <<>>
     /\ Answer("ReceiveNotification", p, Head(box[p]), NoFlags, "ok")
     /\ box' = [box EXCEPT ![p] = Tail(@)]
     /\ UNCHANGED <<known, listening, wanted>>
  \/ /\ Told("ReceiveNotification", p, "notFound")
     /\ p \notin listening \/ box[p] = <<>>
     /\ UNCHANGED state

Next ==
  \/ \E p \in Pids : \/ RegisterProcess(p) \/ UnregisterProcess(p)
                     \/ EnableNotification(p) \/ ReceiveNotification(p)
  \/ \E p \in Pids, n \in NotifIds :
       Subscribe(p, n) \/ Unsubscribe(p, n) \/ PublishToProcess(p, n)
  \/ \E n \in NotifIds, flags \in Flags : PublishToSubscriber(n, flags)
  \/ \E n \in NotifIds : PublishAndGetSubscriber(n) \/ PublishToAll(n)

Spec == Init /\ [][Next]_vars
=============================================================================
