--------------------------- MODULE Sessions_proofs ---------------------------
(***************************************************************************)
(* Proofs about the two parts that keep lists of IPC sessions:             *)
(*  - ServiceManager_Run answers every client from its own session, for    *)
(*    any number of services, sessions and clients;                        *)
(*  - the table of the k11 extension (K11Sessions, below as K11) is sorted *)
(*    and holds what it should, for any sessions, names and threads and    *)
(*    any size of the table.                                               *)
(***************************************************************************)
EXTENDS ServiceManager, SequenceTheorems, FiniteSetTheorems, FunctionTheorems,
        WellFoundedInduction, TLAPS

-----------------------------------------------------------------------------
(* The invariant                                                           *)

(* The sessions of a service, as the kernel counts them and as the arrays  *)
(* list them.                                                              *)
Counted(kernel, s) == {c \in Clients : kernel[c] = s}
Listed(handles, ids, s) == {i \in 1 .. Len(handles) : ids[i] = s}

(* The arrays list sessions the kernel has, and none of them twice.        *)
Lists(handles, ids, kernel) ==
  /\ handles \in Seq(Clients)
  /\ \A i, j \in 1 .. Len(handles) : handles[i] = handles[j] => i = j
  /\ \A i \in 1 .. Len(handles) : ids[i] = kernel[handles[i]]

SessionsOf(s) == Counted(service, s)
ListedFor(s) == Listed(waitHandles, handlerIds, s)

(* What the kernel keeps of a session goes with it.                        *)
KernelConsistent ==
  /\ \A c \in Clients : session[c] # "none" => service[c] # Null
  /\ \A c \in Clients : session[c] = "none" => answer[c] = Null
  /\ pc = "receive" =>
       \A s \in Services : /\ IsFiniteSet(SessionsOf(s))
                           /\ Cardinality(SessionsOf(s)) <= MaxSessions[s]

AnswersRight ==
  \A c \in Clients : answer[c] # Null => answer[c] = <<service[c], CtxOf(c)>>

NoneLost ==
  pc = "receive" =>
    \A c \in Clients : session[c] \in {"open", "ended"} =>
      \E i \in 1 .. numActiveSessions : waitHandles[i] = c

ArraysFit == \A s \in Services : Cardinality(ListedFor(s)) <= MaxSessions[s]

Inv ==
  /\ TypeOK
  /\ ArraysAgree
  /\ TargetIsActive
  /\ KernelConsistent
  /\ AnswersRight
  /\ NoneLost
  /\ ArraysFit

-----------------------------------------------------------------------------
(* Arrays                                                                  *)

(* The place of the session that ends is taken by the last one.            *)
IsClosedUp(up, array, off, T) ==
  /\ up \in Seq(T)
  /\ Len(up) = Len(array) - 1
  /\ \A i \in 1 .. Len(array) - 1 : up[i] = IF i = off THEN array[Len(array)] ELSE array[i]

LEMMA CloseUpProperties ==
  ASSUME NEW T, NEW array \in Seq(T), NEW off \in 1 .. Len(array)
  PROVE  IsClosedUp(CloseUp(array, off), array, off, T)
<1> DEFINE n == Len(array) - 1
           up == CloseUp(array, off)
<1>1. Len(array) \in Nat /\ n \in Nat /\ array \in [1 .. Len(array) -> T]
  BY LenProperties
<1>2. up \in [1 .. n -> T]
  BY <1>1 DEF CloseUp
<1>3. DOMAIN up = 1 .. n
  BY DEF CloseUp
<1>4. \A i \in 1 .. n : up[i] = IF i = off THEN array[Len(array)] ELSE array[i]
  BY DEF CloseUp
<1> HIDE DEF n, up
<1>5. up \in Seq(T)
  BY <1>1, <1>2, SeqDef
<1>6. Len(up) = n
  BY <1>1, <1>3, <1>5, LenProperties
<1> QED
  BY <1>4, <1>5, <1>6 DEF n, up, IsClosedUp

(* As many sessions are listed for a service as the kernel counts for it,  *)
(* at most: the arrays list no session twice.                              *)
LEMMA ListedAreCounted ==
  ASSUME NEW handles, NEW ids, NEW kernel, NEW s, Lists(handles, ids, kernel),
         IsFiniteSet(Counted(kernel, s))
  PROVE  Cardinality(Listed(handles, ids, s)) <= Cardinality(Counted(kernel, s))
<1> DEFINE f == [i \in Listed(handles, ids, s) |-> handles[i]]
<1>1. f \in [Listed(handles, ids, s) -> Counted(kernel, s)]
  BY LenProperties DEF Lists, Listed, Counted
<1>2. f \in Injection(Listed(handles, ids, s), Counted(kernel, s))
  <2>1. \A i, j \in Listed(handles, ids, s) : f[i] = f[j] => i = j
    BY DEF Lists, Listed
  <2> HIDE DEF f
  <2> QED
    BY <1>1, <2>1, Fun_IsInj
<1> QED
  BY <1>2, FS_Injection

(* A state whose arrays agree with a kernel that refuses what is too much. *)
LEMMA CountsFitNext ==
  ASSUME TypeOK', ArraysAgree', KernelConsistent', pc' = "receive"
  PROVE  ArraysFit'
<1> SUFFICES ASSUME NEW s \in Services
             PROVE  Cardinality(Listed(waitHandles', handlerIds', s)) <= MaxSessions[s]
  BY DEF ArraysFit, ListedFor
<1>1. Lists(waitHandles', handlerIds', service')
  BY DEF Lists, TypeOK, ArraysAgree, numActiveSessions
<1>2. /\ IsFiniteSet(Counted(service', s))
      /\ Cardinality(Counted(service', s)) <= MaxSessions[s]
  BY DEF KernelConsistent, SessionsOf
<1>3. Cardinality(Listed(waitHandles', handlerIds', s)) <= Cardinality(Counted(service', s))
  BY <1>1, <1>2, ListedAreCounted
<1>4. IsFiniteSet(Listed(waitHandles', handlerIds', s))
  <2>1. IsFiniteSet(1 .. Len(waitHandles'))
    <3>1. Len(waitHandles') \in Int /\ 1 \in Int
      BY <1>1, LenProperties DEF Lists
    <3> QED
      BY <3>1, FS_Interval
  <2> QED
    BY <2>1, FS_Subset DEF Listed
<1>5. /\ Cardinality(Listed(waitHandles', handlerIds', s)) \in Nat
      /\ Cardinality(Counted(service', s)) \in Nat
      /\ MaxSessions[s] \in Nat
  BY ManagerAssumption, <1>2, <1>4, FS_CardinalityType
<1> QED
  BY <1>2, <1>3, <1>5

-----------------------------------------------------------------------------
(* The steps of the clients                                                *)

LEMMA ConnectInv ==
  ASSUME Inv, NEW c \in Clients, NEW s \in Services, Connect(c, s)
  PROVE  Inv'
<1>1. TypeOK'
  BY DEF Inv, TypeOK, Connect, serverVars
<1>2. service[c] # s \/ service[c] = s
  OBVIOUS
<1>3. ArraysAgree' /\ TargetIsActive'
  BY DEF Inv, TypeOK, Connect, serverVars, ArraysAgree, TargetIsActive, numActiveSessions, CtxOf
<1>4. KernelConsistent'
  <2>1. ASSUME NEW t \in Services
        PROVE  IsFiniteSet(SessionsOf(t)') /\ Cardinality(SessionsOf(t)') <= MaxSessions[t]
    <3>1. /\ IsFiniteSet(SessionsOf(t)) /\ Cardinality(SessionsOf(t)) <= MaxSessions[t]
          /\ MaxSessions[t] \in Nat
          /\ t = s => Cardinality(SessionsOf(t)) < MaxSessions[t]
      BY ManagerAssumption DEF Inv, KernelConsistent, Connect, SessionsOf, Counted
    <3>2. Cardinality(SessionsOf(t)) \in Nat
      BY <3>1, FS_CardinalityType
    <3>3. CASE t = s
      <4>1. SessionsOf(t)' = SessionsOf(t) \cup {c}
        BY <3>3 DEF SessionsOf, Counted, Connect, Inv, TypeOK
      <4>2. /\ IsFiniteSet(SessionsOf(t) \cup {c})
            /\ Cardinality(SessionsOf(t) \cup {c}) <= Cardinality(SessionsOf(t)) + 1
        <5> DEFINE S == SessionsOf(t)
        <5>1. IsFiniteSet(S) /\ Cardinality(S) \in Nat
          BY <3>1, <3>2
        <5> HIDE DEF S
        <5>2. /\ IsFiniteSet(S \cup {c})
              /\ Cardinality(S \cup {c}) = Cardinality(S)
                   \/ Cardinality(S \cup {c}) = Cardinality(S) + 1
          BY <5>1, FS_AddElement
        <5>3. IsFiniteSet(S \cup {c}) /\ Cardinality(S \cup {c}) <= Cardinality(S) + 1
          BY <5>1, <5>2
        <5> QED
          BY <5>3 DEF S
      <4>3. Cardinality(SessionsOf(t) \cup {c}) \in Nat
        BY <4>2, FS_CardinalityType
      <4> QED
        BY <3>1, <3>2, <3>3, <4>1, <4>2, <4>3
    <3>4. CASE t # s
      <4>1. SessionsOf(t)' \in SUBSET SessionsOf(t)
        BY <3>4 DEF SessionsOf, Counted, Connect, Inv, TypeOK
      <4>2. /\ IsFiniteSet(SessionsOf(t)')
            /\ Cardinality(SessionsOf(t)') <= Cardinality(SessionsOf(t))
        BY <3>1, <4>1, FS_Subset
      <4> QED
        BY <3>1, <3>2, <4>2, FS_CardinalityType
    <3> QED
      BY <3>3, <3>4
  <2>2. \A d \in Clients : /\ session'[d] # "none" => service'[d] # Null
                           /\ session'[d] = "none" => answer'[d] = Null
    BY ManagerAssumption DEF Inv, TypeOK, KernelConsistent, Connect
  <2> QED
    BY <2>1, <2>2 DEF KernelConsistent
<1>5. AnswersRight'
  BY DEF Inv, TypeOK, Connect, AnswersRight, KernelConsistent, CtxOf
<1>6. NoneLost' /\ ArraysFit'
  BY DEF Inv, TypeOK, Connect, serverVars, NoneLost, ArraysFit, ListedFor, numActiveSessions
<1> QED
  BY <1>1, <1>3, <1>4, <1>5, <1>6 DEF Inv

(* What a step of a client that keeps its session preserves.               *)
LEMMA RequestInv ==
  ASSUME Inv, NEW c \in Clients, SendRequest(c)
  PROVE  Inv'
<1>1. TypeOK' /\ ArraysAgree' /\ TargetIsActive'
  BY DEF Inv, TypeOK, SendRequest, serverVars, ArraysAgree, TargetIsActive,
     numActiveSessions, CtxOf
<1>2. KernelConsistent' /\ AnswersRight'
  BY DEF Inv, SendRequest, serverVars, KernelConsistent, SessionsOf, AnswersRight, CtxOf
<1>3. NoneLost' /\ ArraysFit'
  BY DEF Inv, SendRequest, serverVars, NoneLost, ArraysFit, ListedFor, numActiveSessions
<1> QED
  BY <1>1, <1>2, <1>3 DEF Inv

LEMMA CloseClientInv ==
  ASSUME Inv, NEW c \in Clients, CloseClient(c)
  PROVE  Inv'
<1>1. TypeOK' /\ ArraysAgree' /\ TargetIsActive'
  BY DEF Inv, TypeOK, CloseClient, serverVars, ArraysAgree, TargetIsActive,
     numActiveSessions, CtxOf
<1>2. KernelConsistent' /\ AnswersRight'
  BY DEF Inv, TypeOK, CloseClient, serverVars, KernelConsistent, SessionsOf, AnswersRight, CtxOf
<1>3. NoneLost' /\ ArraysFit'
  BY DEF Inv, TypeOK, CloseClient, serverVars, NoneLost, ArraysFit, ListedFor, numActiveSessions
<1> QED
  BY <1>1, <1>2, <1>3 DEF Inv

(* The steps that leave the arrays and the sessions as they are.           *)
LEMMA QuietInv ==
  ASSUME Inv, TypeOK', UNCHANGED <<waitHandles, handlerIds, ctxs, session, service, answer>>,
         \/ UNCHANGED <<pc, replyTarget, cmdbuf>>
         \/ pc' # "receive" /\ replyTarget' = Null
  PROVE  Inv'
<1>1. ArraysAgree' /\ TargetIsActive'
  BY DEF Inv, ArraysAgree, TargetIsActive, numActiveSessions, CtxOf
<1>2. KernelConsistent' /\ AnswersRight'
  BY DEF Inv, KernelConsistent, SessionsOf, AnswersRight, CtxOf
<1>3. NoneLost' /\ ArraysFit'
  BY DEF Inv, NoneLost, ArraysFit, ListedFor, numActiveSessions
<1> QED
  BY <1>1, <1>2, <1>3 DEF Inv

-----------------------------------------------------------------------------
(* The steps of the server                                                 *)

(* A session leaves the arrays and the kernel's count.                     *)
LEMMA SessionEndsInv ==
  ASSUME Inv, pc = "receive", NEW off \in 1 .. numActiveSessions,
         SessionEnds(off)
  PROVE  Inv'
<1> DEFINE n == Len(waitHandles)
           gone == waitHandles[off]
<1>1. /\ waitHandles \in Seq(Clients) /\ handlerIds \in Seq(Services)
      /\ ctxs \in Seq(Clients \cup {Null})
      /\ n \in Nat /\ Len(handlerIds) = n /\ Len(ctxs) = n /\ off \in 1 .. n
      /\ \A i \in 1 .. n : waitHandles[i] \in Clients
      /\ \A i, j \in 1 .. n : waitHandles[i] = waitHandles[j] => i = j
      /\ \A i \in 1 .. n : /\ session[waitHandles[i]] \in {"open", "ended"}
                           /\ handlerIds[i] = service[waitHandles[i]]
                           /\ ctxs[i] = CtxOf(waitHandles[i])
  BY LenProperties DEF Inv, TypeOK, ArraysAgree, numActiveSessions
<1>2. /\ waitHandles' \in Seq(Clients) /\ Len(waitHandles') = n - 1
      /\ \A i \in 1 .. n - 1 :
           waitHandles'[i] = IF i = off THEN waitHandles[n] ELSE waitHandles[i]
  <2>1. IsClosedUp(CloseUp(waitHandles, off), waitHandles, off, Clients)
    BY <1>1, CloseUpProperties
  <2> QED
    BY <1>1, <2>1 DEF IsClosedUp, SessionEnds
<1>3. /\ handlerIds' \in Seq(Services) /\ Len(handlerIds') = n - 1
      /\ \A i \in 1 .. n - 1 :
           handlerIds'[i] = IF i = off THEN handlerIds[n] ELSE handlerIds[i]
  <2>1. IsClosedUp(CloseUp(handlerIds, off), handlerIds, off, Services)
    BY <1>1, CloseUpProperties
  <2> QED
    BY <1>1, <2>1 DEF IsClosedUp, SessionEnds
<1>4. /\ ctxs' \in Seq(Clients \cup {Null}) /\ Len(ctxs') = n - 1
      /\ \A i \in 1 .. n - 1 : ctxs'[i] = IF i = off THEN ctxs[n] ELSE ctxs[i]
  <2>1. IsClosedUp(CloseUp(ctxs, off), ctxs, off, Clients \cup {Null})
    BY <1>1, CloseUpProperties
  <2> QED
    BY <1>1, <2>1 DEF IsClosedUp, SessionEnds
<1>5. /\ answer' = [c \in Clients |-> IF c = gone THEN Null ELSE answer[c]]
      /\ session' = [c \in Clients |-> IF c = gone THEN "none" ELSE session[c]]
      /\ service' = [c \in Clients |-> IF c = gone THEN Null ELSE service[c]]
      /\ request' = [c \in Clients |-> c # gone /\ request[c]]
      /\ replyTarget' = Null /\ UNCHANGED <<cmdbuf, pc, published>>
  BY DEF SessionEnds, Closed
<1>6. TypeOK'
  BY <1>2, <1>3, <1>4, <1>5 DEF Inv, TypeOK
<1>7. /\ \A i \in 1 .. n - 1 : /\ waitHandles'[i] \in Clients /\ waitHandles'[i] # gone
                               /\ handlerIds'[i] = service[waitHandles'[i]]
                               /\ ctxs'[i] = CtxOf(waitHandles'[i])
                               /\ session[waitHandles'[i]] \in {"open", "ended"}
      /\ \A i, j \in 1 .. n - 1 : waitHandles'[i] = waitHandles'[j] => i = j
  <2> DEFINE from(i) == IF i = off THEN n ELSE i
  <2>1. \A i \in 1 .. n - 1 : from(i) \in 1 .. n /\ from(i) # off
    BY <1>1
  <2>2. \A i, j \in 1 .. n - 1 : from(i) = from(j) => i = j
    BY <1>1
  <2>3. \A i \in 1 .. n - 1 : /\ waitHandles'[i] = waitHandles[from(i)]
                             /\ handlerIds'[i] = handlerIds[from(i)]
                             /\ ctxs'[i] = ctxs[from(i)]
    BY <1>2, <1>3, <1>4
  <2> HIDE DEF from
  <2>4. ASSUME NEW i \in 1 .. n - 1
        PROVE  /\ waitHandles'[i] \in Clients /\ waitHandles'[i] # gone
               /\ handlerIds'[i] = service[waitHandles'[i]]
               /\ ctxs'[i] = CtxOf(waitHandles'[i])
               /\ session[waitHandles'[i]] \in {"open", "ended"}
    <3>1. from(i) \in 1 .. n /\ from(i) # off
      BY <2>1
    <3> QED
      BY <1>1, <2>3, <3>1
  <2>5. ASSUME NEW i \in 1 .. n - 1, NEW j \in 1 .. n - 1, waitHandles'[i] = waitHandles'[j]
        PROVE  i = j
    <3>1. /\ from(i) \in 1 .. n /\ from(j) \in 1 .. n
          /\ waitHandles[from(i)] = waitHandles[from(j)]
      BY <2>1, <2>3, <2>5
    <3>2. from(i) = from(j)
      BY <1>1, <3>1
    <3> QED
      BY <2>2, <3>2
  <2> QED
    BY <2>4, <2>5
<1>8. ArraysAgree' /\ TargetIsActive'
  BY <1>2, <1>3, <1>4, <1>5, <1>7 DEF ArraysAgree, TargetIsActive, numActiveSessions, CtxOf
<1>9. KernelConsistent'
  <2>1. ASSUME NEW t \in Services
        PROVE  IsFiniteSet(SessionsOf(t)') /\ Cardinality(SessionsOf(t)') <= MaxSessions[t]
    <3>1. /\ IsFiniteSet(SessionsOf(t)) /\ Cardinality(SessionsOf(t)) <= MaxSessions[t]
          /\ MaxSessions[t] \in Nat
      BY ManagerAssumption DEF Inv, KernelConsistent
    <3>2. SessionsOf(t)' \in SUBSET SessionsOf(t)
      BY ManagerAssumption, <1>5 DEF SessionsOf, Counted
    <3>3. /\ IsFiniteSet(SessionsOf(t)')
          /\ Cardinality(SessionsOf(t)') <= Cardinality(SessionsOf(t))
      BY <3>1, <3>2, FS_Subset
    <3> QED
      BY <3>1, <3>3, FS_CardinalityType
  <2>2. \A d \in Clients : /\ session'[d] # "none" => service'[d] # Null
                           /\ session'[d] = "none" => answer'[d] = Null
    BY <1>5 DEF Inv, KernelConsistent
  <2> QED
    BY <2>1, <2>2 DEF KernelConsistent
<1>10. AnswersRight'
  BY <1>5 DEF Inv, AnswersRight, CtxOf
<1>11. NoneLost'
  <2> SUFFICES ASSUME NEW c \in Clients, session'[c] \in {"open", "ended"}
               PROVE  \E i \in 1 .. n - 1 : waitHandles'[i] = c
    BY <1>2 DEF NoneLost, numActiveSessions
  <2>1. c # gone /\ session[c] \in {"open", "ended"}
    BY <1>5
  <2>2. PICK i \in 1 .. n : waitHandles[i] = c
    BY <2>1 DEF Inv, NoneLost, numActiveSessions
  <2>3. i # off
    BY <2>1, <2>2
  <2> QED
    BY <1>1, <1>2, <2>2, <2>3
<1>12. ArraysFit'
  BY <1>2, <1>5, <1>6, <1>8, <1>9, CountsFitNext
<1> QED
  BY <1>6, <1>8, <1>9, <1>10, <1>11, <1>12 DEF Inv

(* All sessions are closed, and the server serves no more.                 *)
LEMMA CleanupInv ==
  ASSUME Inv, Cleanup
  PROVE  Inv'
<1>1. /\ answer' = [c \in Clients |-> Null] /\ session' = [c \in Clients |-> "none"]
      /\ service' = [c \in Clients |-> Null] /\ request' = [c \in Clients |-> FALSE]
      /\ pc' = "unsubscribe"
      /\ UNCHANGED <<waitHandles, handlerIds, ctxs, replyTarget, cmdbuf, published>>
  BY DEF Cleanup, Closed
<1>2. TypeOK' /\ ArraysAgree' /\ TargetIsActive'
  BY <1>1 DEF Inv, TypeOK, ArraysAgree, TargetIsActive, numActiveSessions, Cleanup
<1>3. KernelConsistent' /\ AnswersRight'
  BY <1>1 DEF KernelConsistent, AnswersRight
<1>4. NoneLost' /\ ArraysFit'
  BY <1>1 DEF Inv, NoneLost, ArraysFit, ListedFor
<1> QED
  BY <1>2, <1>3, <1>4 DEF Inv

(* A connection that gets no context: the server returns as it stands.     *)
LEMMA NoContextInv ==
  ASSUME Inv, NEW c \in Clients, NoContext(c)
  PROVE  Inv'
<1>1. /\ answer' = [d \in Clients |-> IF d = c THEN Null ELSE answer[d]]
      /\ session' = [d \in Clients |-> IF d = c THEN "none" ELSE session[d]]
      /\ service' = [d \in Clients |-> IF d = c THEN Null ELSE service[d]]
      /\ request' = [d \in Clients |-> d # c /\ request[d]]
      /\ pc' = "returned" /\ replyTarget = Null
      /\ UNCHANGED <<waitHandles, handlerIds, ctxs, replyTarget, cmdbuf, published>>
  BY DEF NoContext, Closed, Receives
<1>2. TypeOK' /\ ArraysAgree' /\ TargetIsActive'
  BY <1>1 DEF Inv, TypeOK, ArraysAgree, TargetIsActive, numActiveSessions
<1>3. KernelConsistent' /\ AnswersRight'
  BY <1>1 DEF Inv, KernelConsistent, AnswersRight, CtxOf
<1>4. NoneLost' /\ ArraysFit'
  BY <1>1 DEF Inv, NoneLost, ArraysFit, ListedFor
<1> QED
  BY <1>2, <1>3, <1>4 DEF Inv

(* The answer goes to the session it was computed for.                     *)
LEMMA DeliverInv ==
  ASSUME Inv, Deliver
  PROVE  Inv'
<1>1. TypeOK' /\ ArraysAgree' /\ TargetIsActive'
  BY DEF Inv, TypeOK, Deliver, ArraysAgree, TargetIsActive, numActiveSessions, CtxOf
<1>2. KernelConsistent'
  BY DEF Inv, TypeOK, Deliver, KernelConsistent, SessionsOf
<1>3. AnswersRight'
  BY DEF Inv, TypeOK, Deliver, AnswersRight, TargetIsActive, CtxOf
<1>4. NoneLost' /\ ArraysFit'
  BY DEF Inv, Deliver, NoneLost, ArraysFit, ListedFor, numActiveSessions
<1> QED
  BY <1>1, <1>2, <1>3, <1>4 DEF Inv

(* The session of an answer that failed is found, so that the server goes  *)
(* on without it.                                                          *)
LEMMA ReplyFailedInv ==
  ASSUME Inv, ReplyFailed
  PROVE  Inv'
<1> DEFINE found == {i \in 1 .. numActiveSessions : waitHandles[i] = replyTarget}
<1>1. found # {} /\ pc = "receive"
  BY DEF Inv, TargetIsActive, ReplyFailed
<1>2. SessionEnds(CHOOSE i \in found : \A j \in found : i <= j)
  BY <1>1 DEF ReplyFailed
<1>3. PICK off : off = CHOOSE i \in found : \A j \in found : i <= j
  OBVIOUS
<1>4. off \in found
  <2>1. \E i \in found : \A j \in found : i <= j
    <3>1. PICK i \in found : TRUE
      BY <1>1
    <3>2. \A j \in found : j = i
      BY <3>1 DEF Inv, ArraysAgree
    <3>3. i <= i
      BY LenProperties DEF Inv, TypeOK, numActiveSessions
    <3> QED
      BY <3>1, <3>2, <3>3
  <2> HIDE DEF found
  <2> QED
    BY <1>3, <2>1
<1>5. off \in 1 .. numActiveSessions /\ SessionEnds(off)
  BY <1>2, <1>3, <1>4
<1> QED
  BY <1>1, <1>5, SessionEndsInv

(* A session is added to the three arrays.                                 *)
LEMMA NewSessionInv ==
  ASSUME Inv, NEW c \in Clients, NewSession(c)
  PROVE  Inv'
<1> DEFINE n == Len(waitHandles)
<1>1. /\ waitHandles \in Seq(Clients) /\ handlerIds \in Seq(Services)
      /\ ctxs \in Seq(Clients \cup {Null})
      /\ n \in Nat /\ Len(handlerIds) = n /\ Len(ctxs) = n
      /\ \A i \in 1 .. n : waitHandles[i] \in Clients
      /\ \A i, j \in 1 .. n : waitHandles[i] = waitHandles[j] => i = j
      /\ \A i \in 1 .. n : /\ session[waitHandles[i]] \in {"open", "ended"}
                           /\ handlerIds[i] = service[waitHandles[i]]
                           /\ ctxs[i] = CtxOf(waitHandles[i])
  BY LenProperties DEF Inv, TypeOK, ArraysAgree, numActiveSessions, NewSession, Receives
<1>2. service[c] \in Services /\ session[c] = "queued" /\ CtxOf(c) \in Clients \cup {Null}
  BY DEF Inv, TypeOK, KernelConsistent, NewSession, CtxOf
<1>3. /\ waitHandles' \in Seq(Clients) /\ Len(waitHandles') = n + 1
      /\ \A i \in 1 .. n : waitHandles'[i] = waitHandles[i]
      /\ waitHandles'[n + 1] = c
  BY <1>1, AppendProperties DEF NewSession
<1>4. /\ handlerIds' \in Seq(Services) /\ Len(handlerIds') = n + 1
      /\ \A i \in 1 .. n : handlerIds'[i] = handlerIds[i]
      /\ handlerIds'[n + 1] = service[c]
  BY <1>1, <1>2, AppendProperties DEF NewSession
<1>5. /\ ctxs' \in Seq(Clients \cup {Null}) /\ Len(ctxs') = n + 1
      /\ \A i \in 1 .. n : ctxs'[i] = ctxs[i]
      /\ ctxs'[n + 1] = CtxOf(c)
  BY <1>1, <1>2, AppendProperties DEF NewSession, CtxOf
<1>6. /\ session' = [session EXCEPT ![c] = "open"]
      /\ pc = "receive" /\ replyTarget = Null
      /\ UNCHANGED <<replyTarget, cmdbuf, pc, service, request, answer, published>>
  BY DEF NewSession, Receives
<1>7. TypeOK'
  BY <1>3, <1>4, <1>5, <1>6 DEF Inv, TypeOK
<1>8. \A i \in 1 .. n + 1 : i \in 1 .. n \/ i = n + 1
  BY <1>1
<1>9. ArraysAgree' /\ TargetIsActive'
  <2>1. \A i \in 1 .. n : waitHandles[i] # c
    BY <1>1, <1>2
  <2>2. \A i, j \in 1 .. n + 1 : waitHandles'[i] = waitHandles'[j] => i = j
    BY <1>1, <1>3, <1>8, <2>1
  <2>3. ASSUME NEW i \in 1 .. n + 1
        PROVE  /\ session'[waitHandles'[i]] \in {"open", "ended"}
               /\ handlerIds'[i] = service'[waitHandles'[i]]
               /\ ctxs'[i] = CtxOf(waitHandles'[i])
    <3>1. CASE i \in 1 .. n
      BY <1>1, <1>3, <1>4, <1>5, <1>6, <3>1 DEF Inv, TypeOK
    <3>2. CASE i = n + 1
      BY <1>3, <1>4, <1>5, <1>6, <3>2 DEF Inv, TypeOK
    <3> QED
      BY <1>8, <3>1, <3>2
  <2> QED
    BY <1>3, <1>4, <1>5, <1>6, <2>2, <2>3
    DEF ArraysAgree, TargetIsActive, numActiveSessions, CtxOf
<1>10. KernelConsistent' /\ AnswersRight'
  BY <1>2, <1>6 DEF Inv, TypeOK, KernelConsistent, SessionsOf, AnswersRight, CtxOf
<1>11. NoneLost'
  <2> SUFFICES ASSUME NEW d \in Clients, session'[d] \in {"open", "ended"}
               PROVE  \E i \in 1 .. n + 1 : waitHandles'[i] = d
    BY <1>3 DEF NoneLost, numActiveSessions
  <2>1. CASE d = c
    BY <1>1, <1>3, <2>1
  <2>2. CASE d # c
    <3>1. PICK i \in 1 .. n : waitHandles[i] = d
      BY <1>6, <2>2 DEF Inv, TypeOK, NoneLost, numActiveSessions
    <3> QED
      BY <1>1, <1>3, <3>1
  <2> QED
    BY <2>1, <2>2
<1>12. ArraysFit'
  BY <1>6, <1>7, <1>9, <1>10, CountsFitNext
<1> QED
  BY <1>7, <1>9, <1>10, <1>11, <1>12 DEF Inv

(* A request is handled by the service of its session.                     *)
LEMMA CommandInv ==
  ASSUME Inv, NEW i \in 1 .. numActiveSessions, Command(i)
  PROVE  Inv'
<1>1. /\ waitHandles[i] \in Clients /\ handlerIds[i] \in Services
      /\ ctxs[i] \in Clients \cup {Null}
      /\ handlerIds[i] = service[waitHandles[i]] /\ ctxs[i] = CtxOf(waitHandles[i])
  BY LenProperties DEF Inv, TypeOK, ArraysAgree, numActiveSessions, Command, Receives
<1>2. TypeOK' /\ ArraysAgree'
  BY <1>1 DEF Inv, TypeOK, Command, kernelVars, ArraysAgree, numActiveSessions, CtxOf
<1>3. TargetIsActive'
  BY <1>1 DEF Inv, Command, Receives, kernelVars, TargetIsActive, numActiveSessions, CtxOf
<1>4. KernelConsistent' /\ AnswersRight'
  BY DEF Inv, Command, kernelVars, KernelConsistent, SessionsOf, AnswersRight, CtxOf
<1>5. NoneLost' /\ ArraysFit'
  BY DEF Inv, Command, kernelVars, NoneLost, ArraysFit, ListedFor, numActiveSessions
<1> QED
  BY <1>2, <1>3, <1>4, <1>5 DEF Inv

-----------------------------------------------------------------------------
LEMMA InitInv == Init => Inv
<1> SUFFICES ASSUME Init
             PROVE  Inv
  OBVIOUS
<1>1. TypeOK /\ ArraysAgree /\ TargetIsActive
  BY DEF Init, TypeOK, ArraysAgree, TargetIsActive, numActiveSessions
<1>2. KernelConsistent
  <2>1. \A s \in Services : SessionsOf(s) = {}
    BY ManagerAssumption DEF Init, SessionsOf, Counted
  <2>2. \A s \in Services : /\ IsFiniteSet(SessionsOf(s))
                             /\ Cardinality(SessionsOf(s)) <= MaxSessions[s]
    BY ManagerAssumption, <2>1, FS_EmptySet
  <2>3. \A c \in Clients : session[c] = "none" /\ answer[c] = Null
    BY DEF Init
  <2> QED
    BY <2>2, <2>3 DEF KernelConsistent
<1>3. AnswersRight /\ NoneLost
  BY DEF Init, AnswersRight, NoneLost
<1>4. ArraysFit
  <2>1. \A s \in Services : ListedFor(s) = {}
    BY DEF Init, ListedFor, Listed
  <2> QED
    BY ManagerAssumption, <2>1, FS_EmptySet DEF ArraysFit
<1> QED
  BY <1>1, <1>2, <1>3, <1>4 DEF Inv

LEMMA NextInv == Inv /\ [Next]_vars => Inv'
<1> SUFFICES ASSUME Inv, [Next]_vars
             PROVE  Inv'
  OBVIOUS
<1>1. ASSUME NEW n \in Notifications, PublishNotification(n)
      PROVE  Inv'
  BY <1>1, QuietInv DEF PublishNotification, serverVars, Inv, TypeOK
<1>2. ASSUME NEW n \in Notifications, Notification(n)
      PROVE  Inv'
  BY <1>2, QuietInv DEF Notification, Receives, Inv, TypeOK
<1>3. CASE CallFails
  BY <1>3, QuietInv DEF CallFails, Receives, kernelVars, Inv, TypeOK
<1>4. CASE UnsubscribeFails \/ Return
  BY <1>4, QuietInv DEF UnsubscribeFails, Return, kernelVars, Inv, TypeOK, TargetIsActive
<1>5. ASSUME NEW i \in 1 .. numActiveSessions, SessionClosed(i)
      PROVE  Inv'
  BY <1>5, SessionEndsInv DEF SessionClosed, Receives
<1>6. CASE UNCHANGED vars
  BY <1>6, QuietInv DEF vars, serverVars, kernelVars, Inv, TypeOK
<1> QED
  BY <1>1, <1>2, <1>3, <1>4, <1>5, <1>6, ConnectInv, RequestInv, CloseClientInv, DeliverInv,
     ReplyFailedInv, NewSessionInv, NoContextInv, CommandInv, CleanupInv DEF Next

(* The arrays of the server and the kernel's view of its sessions agree in *)
(* every reachable state.                                                  *)
THEOREM Invariance == Spec => []Inv
<1>1. Init => Inv
  BY InitInv
<1>2. Inv /\ [Next]_vars => Inv'
  BY NextInv
<1> QED
  BY <1>1, <1>2, PTL DEF Spec

(* Every client is answered by the service it connected to, with its own   *)
(* context; no session is lost from the arrays, in them twice, or beyond   *)
(* what its service admits.                                                *)
THEOREM EverySessionServed == Spec => []SessionsServed
<1>1. Inv => SessionsServed
  BY DEF Inv, SessionsServed, AnswersRight, NoneLost, ArraysFit, ListedFor, Listed,
     numActiveSessions
<1> QED
  BY <1>1, Invariance, PTL

-----------------------------------------------------------------------------
(* The table of sessions of the k11 extension.  Its binary search is a     *)
(* recursive function: that one with its equation exists is proved first,  *)
(* from the least element of a set of naturals.                            *)

CONSTANTS Sessions, Names, Headers, Threads, MAX_SESSION, PromptReuse, NoName
VARIABLES sessionInfos, live, custom, opened, thread, outcome

K11 == INSTANCE K11Sessions

\* A set of naturals that is not empty has a least element.
LEMMA LeastNatural ==
  ASSUME NEW S \in SUBSET Nat, S # {}
  PROVE  \E n \in S : \A m \in S : n <= m
<1> DEFINE R == OpToRel(<, Nat)
<1>1. \E x \in S : \A y \in S : ~ (<<y, x>> \in R)
  BY NatLessThanWellFounded, WFMin, Zenon
<1>2. ASSUME NEW x \in Nat, NEW y \in Nat, y < x PROVE <<y, x>> \in R
  BY <1>2 DEF OpToRel
<1> HIDE DEF R
<1>3. PICK x \in S : \A y \in S : ~ (<<y, x>> \in R)
  BY <1>1
<1>4. ASSUME NEW y \in S PROVE x <= y
  <2>1. x \in Nat /\ y \in Nat /\ ~ (y < x)
    BY <1>2, <1>3
  <2> QED BY <2>1
<1> QED BY <1>4

\* Where a function of S does not stop, it goes on with an argument N[x] of a
\* smaller measure M[x].
Descends(S, Stop, N, M) ==
  /\ Stop \in SUBSET S
  /\ M \in [S -> Nat]
  /\ \A x \in S \ Stop : N[x] \in S /\ M[N[x]] < M[x]

\* It then is what it is there, and V[x] where it stops.
Loops(f, S, Stop, V, N) ==
  /\ f = [x \in S |-> f[x]]
  /\ \A x \in S : f[x] = IF x \in Stop THEN V[x] ELSE f[N[x]]

\* A function that is called again only for an argument of a smaller measure
\* exists.
LEMMA LoopEnds ==
  ASSUME NEW S, NEW Stop, NEW V, NEW N, NEW M, Descends(S, Stop, N, M)
  PROVE  \E f : Loops(f, S, Stop, V, N)
<1>0. /\ Stop \in SUBSET S
      /\ M \in [S -> Nat]
      /\ \A x \in S \ Stop : N[x] \in S /\ M[N[x]] < M[x]
  BY DEF Descends
<1> DEFINE Body(g, x) == IF x \in Stop THEN V[x] ELSE g[N[x]]
           Vals == {V[x] : x \in S}
           G(n) == {g \in [S -> Vals] : \A x \in S : M[x] < n => g[x] = Body(g, x)}
<1>1. \A n \in Nat : G(n) # {}
  <2> DEFINE Bad == {n \in Nat : G(n) = {}}
  <2>1. SUFFICES ASSUME Bad # {} PROVE FALSE
    OBVIOUS
  <2>2. PICK n \in Bad : \A m \in Bad : n <= m
    BY <2>1, LeastNatural
  <2>3. n \in Nat /\ G(n) = {}
    OBVIOUS
  <2>4. n # 0
    <3>1. SUFFICES ASSUME n = 0 PROVE FALSE
      OBVIOUS
    <3>2. [x \in S |-> V[x]] \in [S -> Vals]
      OBVIOUS
    <3>3. [x \in S |-> V[x]] \in G(0)
      BY <1>0, <3>2
    <3> QED BY <2>3, <3>1, <3>3
  <2>5. n - 1 \in Nat /\ n - 1 \notin Bad
    <3>1. n - 1 \in Nat /\ ~ (n <= n - 1)
      BY <2>3, <2>4
    <3> HIDE DEF Bad
    <3> QED BY <2>2, <3>1
  <2>6. PICK g \in [S -> Vals] : \A x \in S : M[x] < n - 1 => g[x] = Body(g, x)
    BY <2>5
  <2> DEFINE h == [x \in S |-> Body(g, x)]
  <2>7. h \in [S -> Vals]
    <3>1. ASSUME NEW x \in S PROVE Body(g, x) \in Vals
      BY <1>0, <2>6
    <3> QED BY <3>1
  <2>8. ASSUME NEW x \in S, M[x] < n PROVE h[x] = Body(h, x)
    <3>1. CASE x \in Stop
      BY <3>1
    <3>2. CASE x \notin Stop
      <4>1. N[x] \in S /\ M[N[x]] < n - 1
        <5>1. N[x] \in S /\ M[N[x]] < M[x]
          BY <1>0, <3>2
        <5>2. M[x] \in Nat /\ M[N[x]] \in Nat
          BY <1>0, <5>1
        <5> QED BY <2>3, <2>8, <5>1, <5>2
      <4>2. h[N[x]] = g[N[x]]
        BY <2>6, <4>1
      <4>3. h[x] = g[N[x]] /\ Body(h, x) = h[N[x]]
        BY <3>2
      <4> QED BY <4>2, <4>3
    <3> QED BY <3>1, <3>2
  <2>9. h \in G(n)
    BY <2>7, <2>8
  <2> QED BY <2>3, <2>9
<1>2. ASSUME NEW n \in Nat, NEW k \in Nat, NEW g \in G(n), NEW h \in G(k),
             NEW x \in S, M[x] < n, M[x] < k
      PROVE  g[x] = h[x]
  <2> DEFINE Bad == {m \in Nat : \E y \in S : m = M[y] /\ m < n /\ m < k /\ g[y] # h[y]}
  <2>1. SUFFICES ASSUME Bad # {} PROVE FALSE
    BY <1>0, <1>2
  <2>2. PICK m \in Bad : \A o \in Bad : m <= o
    <3>1. Bad \in SUBSET Nat
      OBVIOUS
    <3> QED BY <2>1, <3>1, LeastNatural
  <2>3. PICK y \in S : m = M[y] /\ m < n /\ m < k /\ g[y] # h[y]
    OBVIOUS
  <2>4. g[y] = Body(g, y) /\ h[y] = Body(h, y)
    BY <2>3
  <2>5. y \notin Stop /\ g[N[y]] # h[N[y]]
    BY <2>3, <2>4
  <2>6. N[y] \in S /\ M[N[y]] < M[y] /\ M[N[y]] \in Nat
    BY <1>0, <2>5
  <2>7. M[N[y]] < n /\ M[N[y]] < k
    BY <2>3, <2>6
  <2>8. M[N[y]] \in Bad
    BY <2>5, <2>6, <2>7
  <2>9. m \in Nat /\ ~ (m <= M[N[y]])
    BY <2>3, <2>6
  <2> HIDE DEF Bad
  <2> QED BY <2>2, <2>8, <2>9
<1> DEFINE g(n) == CHOOSE h : h \in G(n)
           f == [x \in S |-> g(M[x] + 1)[x]]
<1>3. \A n \in Nat : g(n) \in G(n)
  BY <1>1
<1>4. ASSUME NEW x \in S PROVE f[x] = Body(f, x)
  <2>1. M[x] + 1 \in Nat /\ M[x] < M[x] + 1
    BY <1>0
  <2>2. f[x] = g(M[x] + 1)[x] /\ g(M[x] + 1)[x] = Body(g(M[x] + 1), x)
    <3>1. g(M[x] + 1) \in G(M[x] + 1)
      BY <1>3, <2>1
    <3> HIDE DEF g
    <3>2. g(M[x] + 1)[x] = Body(g(M[x] + 1), x)
      BY <2>1, <3>1
    <3> QED BY <3>2
  <2> HIDE DEF g
  <2>3. CASE x \in Stop
    BY <2>2, <2>3
  <2>4. CASE x \notin Stop
    <3>1. N[x] \in S /\ M[N[x]] < M[x] /\ M[N[x]] \in Nat /\ M[x] \in Nat
      BY <1>0, <2>4
    <3>2. f[N[x]] = g(M[N[x]] + 1)[N[x]]
      BY <3>1
    <3>3. g(M[N[x]] + 1) \in G(M[N[x]] + 1) /\ g(M[x] + 1) \in G(M[x] + 1)
      <4>1. M[N[x]] + 1 \in Nat
        BY <3>1
      <4> HIDE DEF G
      <4> QED BY <1>3, <2>1, <4>1
    <3>4. M[N[x]] < M[N[x]] + 1 /\ M[N[x]] < M[x] + 1 /\ M[N[x]] + 1 \in Nat
      BY <3>1
    <3> HIDE DEF G
    <3>5. g(M[N[x]] + 1)[N[x]] = g(M[x] + 1)[N[x]]
      BY <1>2, <2>1, <3>1, <3>3, <3>4
    <3> QED BY <2>2, <2>4, <3>2, <3>5
  <2> QED BY <2>3, <2>4
<1>5. f = [x \in S |-> f[x]]
  OBVIOUS
<1> HIDE DEF f
<1>6. \A x \in S : f[x] = Body(f, x)
  BY <1>4
<1> QED BY <1>5, <1>6 DEF Loops

\* One round of the loop leaves a search, and a smaller one if it goes on.
LEMMA MiddleSteps ==
  ASSUME NEW x \in K11!Searches
  PROVE  /\ K11!Middle(x) \in Nat
         /\ K11!Halved(x) \in K11!Searches
         /\ K11!Halved(x).b - K11!Halved(x).a > 1
              => K11!Halved(x).b - K11!Halved(x).a < x.b - x.a
<1>1. x.a \in Nat /\ x.b \in Nat /\ x.table \in Seq(K11!Entries) /\ x.s \in Sessions
  BY DEF K11!Searches
<1>2. K11!Middle(x) \in Nat
  BY <1>1 DEF K11!Middle
<1>3. CASE x.table[K11!Middle(x)].session < x.s
  <2>1. K11!Halved(x) = [x EXCEPT !.a = K11!Middle(x)]
    BY <1>3 DEF K11!Halved
  <2>2. /\ K11!Halved(x) \in K11!Searches
        /\ K11!Halved(x).a = K11!Middle(x) /\ K11!Halved(x).b = x.b
    BY <1>2, <2>1 DEF K11!Searches
  <2> QED BY <1>1, <2>2 DEF K11!Middle
<1>4. CASE ~ (x.table[K11!Middle(x)].session < x.s)
  <2>1. K11!Halved(x) = [x EXCEPT !.b = K11!Middle(x)]
    BY <1>4 DEF K11!Halved
  <2>2. /\ K11!Halved(x) \in K11!Searches
        /\ K11!Halved(x).b = K11!Middle(x) /\ K11!Halved(x).a = x.a
    BY <1>2, <2>1 DEF K11!Searches
  <2> QED BY <1>1, <2>2 DEF K11!Middle
<1> QED BY <1>2, <1>3, <1>4

\* The loop of SessionInfo_FindClosestSlot (ipc.c:46): what one round returns,
\* or what the rest of them do.
LEMMA BisectGoes ==
  ASSUME NEW x \in K11!Searches
  PROVE  K11!Bisect[x] = IF x.table[K11!Middle(x)].session = x.s THEN K11!Middle(x)
                         ELSE IF K11!Halved(x).b - K11!Halved(x).a <= 1 THEN K11!Halved(x).b
                         ELSE K11!Bisect[K11!Halved(x)]
<1> DEFINE Stop == {y \in K11!Searches : \/ y.table[K11!Middle(y)].session = y.s
                                         \/ K11!Halved(y).b - K11!Halved(y).a <= 1}
           V == [y \in K11!Searches |->
                  IF y.table[K11!Middle(y)].session = y.s THEN K11!Middle(y)
                  ELSE K11!Halved(y).b]
           N == [y \in K11!Searches |-> K11!Halved(y)]
           M == [y \in K11!Searches |-> IF y.b > y.a THEN y.b - y.a ELSE 0]
           Loop(f) == [y \in K11!Searches |->
                         IF y.table[K11!Middle(y)].session = y.s THEN K11!Middle(y)
                         ELSE IF K11!Halved(y).b - K11!Halved(y).a <= 1 THEN K11!Halved(y).b
                         ELSE f[K11!Halved(y)]]
<1>1. M \in [K11!Searches -> Nat]
  <2>1. ASSUME NEW y \in K11!Searches PROVE (IF y.b > y.a THEN y.b - y.a ELSE 0) \in Nat
    BY DEF K11!Searches
  <2> QED BY <2>1
<1>2. ASSUME NEW y \in K11!Searches \ Stop PROVE N[y] \in K11!Searches /\ M[N[y]] < M[y]
  <2>1. K11!Halved(y) \in K11!Searches /\ K11!Halved(y).b - K11!Halved(y).a < y.b - y.a
        /\ K11!Halved(y).b - K11!Halved(y).a > 1
    <3>1. K11!Halved(y) \in K11!Searches
      BY MiddleSteps
    <3>2. K11!Halved(y).b \in Nat /\ K11!Halved(y).a \in Nat
      BY <3>1 DEF K11!Searches
    <3> QED BY <3>2, MiddleSteps
  <2>2. y.a \in Nat /\ y.b \in Nat /\ K11!Halved(y).b \in Nat /\ K11!Halved(y).a \in Nat
    BY <2>1 DEF K11!Searches
  <2>3. M[y] = y.b - y.a /\ M[N[y]] = K11!Halved(y).b - K11!Halved(y).a
    BY <2>1, <2>2
  <2> QED BY <2>1, <2>3
<1>3. \E f : Loops(f, K11!Searches, Stop, V, N)
  <2>1. Stop \in SUBSET K11!Searches
    OBVIOUS
  <2>2. \A y \in K11!Searches \ Stop : N[y] \in K11!Searches /\ M[N[y]] < M[y]
    BY <1>2
  <2> HIDE DEF Stop, V, N, M
  <2>3. Descends(K11!Searches, Stop, N, M)
    BY <1>1, <2>1, <2>2 DEF Descends
  <2> QED BY <2>3, LoopEnds
<1>4. \E f : f = Loop(f)
  <2>1. PICK f : Loops(f, K11!Searches, Stop, V, N)
    BY <1>3
  <2>2. /\ f = [y \in K11!Searches |-> f[y]]
        /\ \A y \in K11!Searches : f[y] = IF y \in Stop THEN V[y] ELSE f[N[y]]
    <3> HIDE DEF Stop, V, N
    <3> QED BY <2>1 DEF Loops
  <2>3. \A y \in K11!Searches : (IF y \in Stop THEN V[y] ELSE f[N[y]]) = Loop(f)[y]
    OBVIOUS
  <2>4. f = [y \in K11!Searches |-> Loop(f)[y]]
    BY <2>2, <2>3
  <2>5. Loop(f) = [y \in K11!Searches |-> Loop(f)[y]]
    OBVIOUS
  <2> QED BY <2>4, <2>5
<1>5. K11!Bisect = CHOOSE f : f = Loop(f)
  BY DEF K11!Bisect
<1>6. K11!Bisect = Loop(K11!Bisect)
  BY <1>4, <1>5
<1> QED BY <1>6

\* The table is sorted, without repetitions.
InOrder(table) ==
  \A i, j \in 1 .. Len(table) : i < j => table[i].session < table[j].session

\* What the loop starts with: the session is between the elements a and b.
Between(x) ==
  /\ InOrder(x.table)
  /\ x.a \in 1 .. Len(x.table) /\ x.b \in 1 .. Len(x.table) /\ x.a < x.b
  /\ x.table[x.a].session < x.s /\ x.s <= x.table[x.b].session

\* The place k is that of the session s.
PlaceOf(table, s, k) ==
  /\ k \in 1 .. Len(table) + 1
  /\ \A i \in 1 .. Len(table) : i < k => table[i].session < s
  /\ \A i \in 1 .. Len(table) : i >= k => s <= table[i].session

\* What an element of a table is.
LEMMA EntryOf ==
  ASSUME K11!SessionsAssumption, NEW table \in Seq(K11!Entries), NEW i \in 1 .. Len(table)
  PROVE  table[i] \in K11!Entries /\ table[i].session \in Nat /\ table[i].session \in Sessions
<1>1. table[i] \in K11!Entries
  OBVIOUS
<1> QED BY <1>1 DEF K11!Entries, K11!SessionsAssumption

\* Between two neighbours is the place of every session between their addresses.
LEMMA PlaceBetween ==
  ASSUME K11!SessionsAssumption, NEW table \in Seq(K11!Entries), InOrder(table),
         NEW s \in Sessions,
         NEW k \in 2 .. Len(table), table[k - 1].session < s, s <= table[k].session
  PROVE  PlaceOf(table, s, k)
<1> /\ k - 1 \in 1 .. Len(table) /\ k \in 1 .. Len(table) /\ k \in 1 .. Len(table) + 1
    /\ Len(table) \in Nat
  OBVIOUS
<1>0. s \in Nat
  BY DEF K11!SessionsAssumption
<1>1. ASSUME NEW i \in 1 .. Len(table), i < k PROVE table[i].session < s
  <2>1. table[i].session \in Nat /\ table[k - 1].session \in Nat
    BY EntryOf
  <2>2. i = k - 1 \/ i < k - 1
    BY <1>1
  <2>3. i < k - 1 => table[i].session < table[k - 1].session
    BY DEF InOrder
  <2> QED BY <1>0, <2>1, <2>2, <2>3
<1>2. ASSUME NEW i \in 1 .. Len(table), i >= k PROVE s <= table[i].session
  <2>1. table[i].session \in Nat /\ table[k].session \in Nat
    BY EntryOf
  <2>2. i = k \/ k < i
    BY <1>2
  <2>3. k < i => table[k].session < table[i].session
    BY DEF InOrder
  <2> QED BY <1>0, <2>1, <2>2, <2>3
<1> QED BY <1>1, <1>2 DEF PlaceOf

\* The loop ends at the place of the session.
LEMMA BisectFinds ==
  ASSUME K11!SessionsAssumption, NEW x \in K11!Searches, Between(x)
  PROVE  PlaceOf(x.table, x.s, K11!Bisect[x])
<1> DEFINE Bad == {n \in Nat : \E y \in K11!Searches :
                     Between(y) /\ n = y.b - y.a /\ ~ PlaceOf(y.table, y.s, K11!Bisect[y])}
<1>1. SUFFICES ASSUME Bad # {} PROVE FALSE
  <2>1. x.b - x.a \in Nat
    BY DEF K11!Searches, Between
  <2> QED BY <2>1
<1>2. PICK n \in Bad : \A m \in Bad : n <= m
  <2>1. Bad \in SUBSET Nat
    OBVIOUS
  <2> QED BY <1>1, <2>1, LeastNatural
<1>3. PICK y \in K11!Searches :
        Between(y) /\ n = y.b - y.a /\ ~ PlaceOf(y.table, y.s, K11!Bisect[y])
  OBVIOUS
<1>4. /\ y.table \in Seq(K11!Entries) /\ y.s \in Sessions /\ y.s \in Nat
      /\ y.a \in Nat /\ y.b \in Nat /\ Len(y.table) \in Nat
  <2>1. y.table \in Seq(K11!Entries) /\ y.s \in Sessions /\ y.a \in Nat /\ y.b \in Nat
    BY DEF K11!Searches
  <2>2. y.s \in Nat
    BY <2>1 DEF K11!SessionsAssumption
  <2>3. Len(y.table) \in Nat
    <3> DEFINE t == y.table
    <3>1. t \in Seq(K11!Entries)
      BY <2>1
    <3> HIDE DEF t
    <3>2. Len(t) \in Nat
      BY <3>1
    <3> QED BY <3>2 DEF t
  <2> QED BY <2>1, <2>2, <2>3
<1>5. /\ InOrder(y.table)
      /\ y.a \in 1 .. Len(y.table) /\ y.b \in 1 .. Len(y.table) /\ y.a < y.b
      /\ y.table[y.a].session < y.s /\ y.s <= y.table[y.b].session
  BY <1>3 DEF Between
<1> DEFINE m == K11!Middle(y)
<1>6. m \in Nat /\ y.a <= m /\ m < y.b /\ (m = y.a => y.b - y.a = 1)
  BY <1>4, <1>5 DEF K11!Middle
<1>7. m \in 1 .. Len(y.table)
  BY <1>4, <1>5, <1>6
<1>8. y.table[m].session \in Nat /\ y.table[y.a].session \in Nat /\ y.table[y.b].session \in Nat
  BY <1>4, <1>5, <1>7, EntryOf
<1>9. K11!Bisect[y] = IF y.table[m].session = y.s THEN m
                  ELSE IF K11!Halved(y).b - K11!Halved(y).a <= 1 THEN K11!Halved(y).b
                  ELSE K11!Bisect[K11!Halved(y)]
  BY BisectGoes
<1>10. K11!Halved(y) \in K11!Searches
  BY MiddleSteps
<1> HIDE DEF m, Bad
<1>11. CASE y.table[m].session = y.s
  <2>1. m # y.a
    BY <1>5, <1>8, <1>11
  <2>2. m \in 2 .. Len(y.table) /\ m - 1 \in 1 .. Len(y.table)
    BY <1>4, <1>5, <1>6, <1>7, <2>1
  <2>3. y.table[m - 1].session < y.table[m].session
    BY <1>5, <1>7, <2>2 DEF InOrder
  <2>4. PlaceOf(y.table, y.s, m)
    BY <1>4, <1>5, <1>8, <1>11, <2>2, <2>3, PlaceBetween
  <2> QED BY <1>3, <1>9, <1>11, <2>4
<1>12. CASE y.table[m].session # y.s
  <2>1. /\ K11!Halved(y).table = y.table /\ K11!Halved(y).s = y.s
        /\ K11!Halved(y).a \in 1 .. Len(y.table) /\ K11!Halved(y).b \in 1 .. Len(y.table)
        /\ K11!Halved(y).a < K11!Halved(y).b
        /\ y.table[K11!Halved(y).a].session < y.s /\ y.s <= y.table[K11!Halved(y).b].session
        /\ K11!Halved(y).b - K11!Halved(y).a > 1
             => K11!Halved(y).b - K11!Halved(y).a < y.b - y.a
    <3>1. CASE y.table[m].session < y.s
      <4>1. K11!Halved(y) = [y EXCEPT !.a = m]
        BY <3>1 DEF K11!Halved, m
      <4>2. /\ K11!Halved(y).table = y.table /\ K11!Halved(y).s = y.s
            /\ K11!Halved(y).a = m /\ K11!Halved(y).b = y.b
        BY <4>1 DEF K11!Searches
      <4> QED BY <1>4, <1>5, <1>6, <1>7, <3>1, <4>2
    <3>2. CASE ~ (y.table[m].session < y.s)
      <4>1. K11!Halved(y) = [y EXCEPT !.b = m]
        BY <3>2 DEF K11!Halved, m
      <4>2. /\ K11!Halved(y).table = y.table /\ K11!Halved(y).s = y.s
            /\ K11!Halved(y).a = y.a /\ K11!Halved(y).b = m
        BY <4>1 DEF K11!Searches
      <4>3. y.s <= y.table[m].session
        BY <1>4, <1>8, <3>2
      <4>4. y.a < m
        <5>1. y.table[y.a].session # y.table[m].session
          BY <1>4, <1>5, <1>8, <4>3
        <5> QED BY <1>4, <1>6, <5>1
      <4> QED BY <1>4, <1>5, <1>6, <1>7, <4>2, <4>3, <4>4
    <3> QED BY <3>1, <3>2
  <2>2. Between(K11!Halved(y))
    BY <1>5, <2>1 DEF Between
  <2>3. K11!Halved(y).a \in Nat /\ K11!Halved(y).b \in Nat
    BY <1>10 DEF K11!Searches
  <2>4. CASE K11!Halved(y).b - K11!Halved(y).a <= 1
    <3>1. K11!Halved(y).a = K11!Halved(y).b - 1 /\ K11!Halved(y).b \in 2 .. Len(y.table)
      BY <1>4, <2>1, <2>3, <2>4
    <3>2. PlaceOf(y.table, y.s, K11!Halved(y).b)
      <4>1. /\ y.table[K11!Halved(y).b - 1].session < y.s
            /\ y.s <= y.table[K11!Halved(y).b].session
        BY <2>1, <3>1
      <4> QED BY <1>4, <1>5, <3>1, <4>1, PlaceBetween
    <3> QED BY <1>3, <1>9, <1>12, <2>4, <3>2
  <2>5. CASE ~ (K11!Halved(y).b - K11!Halved(y).a <= 1)
    <3>1. K11!Bisect[y] = K11!Bisect[K11!Halved(y)]
      BY <1>9, <1>12, <2>5
    <3>2. ~ PlaceOf(K11!Halved(y).table, K11!Halved(y).s, K11!Bisect[K11!Halved(y)])
      BY <1>3, <2>1, <3>1
    <3>3. /\ K11!Halved(y).b - K11!Halved(y).a \in Nat
          /\ K11!Halved(y).b - K11!Halved(y).a < n /\ n \in Nat
      BY <1>3, <1>4, <1>5, <2>1, <2>3, <2>5
    <3>4. K11!Halved(y).b - K11!Halved(y).a \in Bad
      BY <1>10, <2>2, <3>2, <3>3 DEF Bad
    <3>5. n <= K11!Halved(y).b - K11!Halved(y).a
      BY <1>2, <3>4
    <3> QED BY <3>3, <3>5
  <2> QED BY <2>4, <2>5
<1> QED BY <1>11, <1>12

\* The search of the code finds the place of any session in a table in order.
LEMMA SearchFinds ==
  ASSUME K11!SessionsAssumption, NEW table \in Seq(K11!Entries), InOrder(table),
         NEW s \in Sessions
  PROVE  PlaceOf(table, s, K11!FindClosestSlot(table, s))
<1>0. s \in Nat /\ Len(table) \in Nat
  BY DEF K11!SessionsAssumption
<1>1. CASE table = <<>>
  <2>1. Len(table) = 0 /\ K11!FindClosestSlot(table, s) = 1
    BY <1>1 DEF K11!FindClosestSlot
  <2> QED BY <2>1 DEF PlaceOf
<1>2. CASE table # <<>>
  <2>0. Len(table) >= 1 /\ 1 \in 1 .. Len(table) /\ Len(table) \in 1 .. Len(table)
    BY <1>2
  <2>1. table[1].session \in Nat /\ table[Len(table)].session \in Nat
    BY <2>0, EntryOf
  <2>2. CASE s <= table[1].session
    <3>1. K11!FindClosestSlot(table, s) = 1
      BY <2>2 DEF K11!FindClosestSlot
    <3>2. ASSUME NEW i \in 1 .. Len(table) PROVE s <= table[i].session
      <4>1. table[i].session \in Nat
        BY EntryOf
      <4>2. i = 1 \/ table[1].session < table[i].session
        BY <2>0 DEF InOrder
      <4> QED BY <1>0, <2>1, <2>2, <4>1, <4>2
    <3> QED BY <1>0, <3>1, <3>2 DEF PlaceOf
  <2>3. CASE ~ (s <= table[1].session) /\ s > table[Len(table)].session
    <3>1. K11!FindClosestSlot(table, s) = Len(table) + 1
      BY <1>2, <2>3 DEF K11!FindClosestSlot
    <3>2. ASSUME NEW i \in 1 .. Len(table) PROVE table[i].session < s
      <4>1. table[i].session \in Nat
        BY EntryOf
      <4>2. i = Len(table) \/ table[i].session < table[Len(table)].session
        BY <2>0 DEF InOrder
      <4> QED BY <1>0, <2>1, <2>3, <4>1, <4>2
    <3> QED BY <1>0, <3>1, <3>2 DEF PlaceOf
  <2>4. CASE ~ (s <= table[1].session) /\ ~ (s > table[Len(table)].session)
    <3> DEFINE x == [table |-> table, s |-> s, a |-> 1, b |-> Len(table)]
    <3>1. x \in K11!Searches /\ x.table = table /\ x.s = s /\ x.a = 1 /\ x.b = Len(table)
      BY <1>0 DEF K11!Searches
    <3>2. K11!FindClosestSlot(table, s) = K11!Bisect[x]
      BY <1>2, <2>4 DEF K11!FindClosestSlot
    <3> HIDE DEF x
    <3>3. Between(x)
      <4>1. table[1].session < s /\ s <= table[Len(table)].session
        BY <1>0, <2>1, <2>4
      <4>2. 1 # Len(table)
        BY <1>0, <2>1, <4>1
      <4>3. 1 < Len(table)
        <5> DEFINE n == Len(table)
        <5>1. n \in Nat /\ n >= 1 /\ n # 1
          BY <1>0, <2>0, <4>2
        <5> HIDE DEF n
        <5>2. 1 < n
          BY <5>1
        <5> QED BY <5>2 DEF n
      <4>4. InOrder(x.table)
        BY <3>1
      <4>5. /\ x.a \in 1 .. Len(x.table) /\ x.b \in 1 .. Len(x.table) /\ x.a < x.b
            /\ x.table[x.a].session < x.s /\ x.s <= x.table[x.b].session
        BY <2>0, <3>1, <4>1, <4>3
      <4> QED BY <4>4, <4>5 DEF Between
    <3> QED BY <3>1, <3>2, <3>3, BisectFinds
  <2> QED BY <2>2, <2>3, <2>4
<1> QED BY <1>1, <1>2

\* The elements of a table, in whatever order.
Contents(table) == {table[i] : i \in 1 .. Len(table)}

\* Their addresses.
LEMMA AddressesOfContents ==
  ASSUME NEW table \in Seq(K11!Entries)
  PROVE  K11!Addresses(table) = {e.session : e \in Contents(table)}
BY DEF K11!Addresses, Contents

\* What a concatenation is, of sequences of one set.
LEMMA Joined ==
  ASSUME NEW S, NEW left \in Seq(S), NEW right \in Seq(S)
  PROVE  /\ left \o right \in Seq(S)
         /\ Len(left \o right) = Len(left) + Len(right)
  BY ConcatProperties

\* What an insertion at a place leaves.
LEMMA InsertionGives ==
  ASSUME NEW table \in Seq(K11!Entries), NEW id \in 1 .. Len(table) + 1,
         NEW info \in K11!Entries, NEW new, new = K11!InsertedAt(table, id, info)
  PROVE  /\ new \in Seq(K11!Entries) /\ Len(new) = Len(table) + 1
         /\ \A i \in 1 .. Len(table) + 1 :
              new[i] = IF i < id THEN table[i] ELSE IF i = id THEN info ELSE table[i - 1]
<1> DEFINE left == SubSeq(table, 1, id - 1)
           right == SubSeq(table, id, Len(table))
<1>0. Len(table) \in Nat
  OBVIOUS
<1>1. /\ left \in Seq(K11!Entries) /\ Len(left) = id - 1
      /\ \A i \in 1 .. id - 1 : left[i] = table[i]
  BY <1>0
<1>2. /\ right \in Seq(K11!Entries) /\ Len(right) = Len(table) - id + 1
      /\ \A i \in 1 .. Len(table) - id + 1 : right[i] = table[id + i - 1]
  BY <1>0
<1>3. new = left \o <<info>> \o right
  BY DEF K11!InsertedAt
<1> HIDE DEF left, right
<1> DEFINE most == left \o <<info>>
<1>4. /\ most \in Seq(K11!Entries) /\ Len(most) = id
      /\ \A i \in 1 .. id : most[i] = IF i < id THEN table[i] ELSE info
  BY <1>0, <1>1
<1>5. new = most \o right
  BY <1>3
<1> HIDE DEF most
<1>6. new \in Seq(K11!Entries) /\ Len(new) = Len(table) + 1
  <2>1. new \in Seq(K11!Entries) /\ Len(new) = Len(most) + Len(right)
    <3>1. most \in Seq(K11!Entries) /\ right \in Seq(K11!Entries)
      BY <1>2, <1>4
    <3>2. most \o right \in Seq(K11!Entries) /\ Len(most \o right) = Len(most) + Len(right)
      BY <3>1, Joined
    <3> QED BY <1>5, <3>2
  <2> QED BY <1>0, <1>2, <1>4, <2>1
<1>7. ASSUME NEW i \in 1 .. Len(table) + 1
      PROVE  new[i] = IF i < id THEN table[i] ELSE IF i = id THEN info ELSE table[i - 1]
  <2>1. new[i] = IF i <= id THEN most[i] ELSE right[i - id]
    BY <1>0, <1>2, <1>4, <1>5
  <2>2. i > id => i - id \in 1 .. Len(table) - id + 1 /\ id + (i - id) - 1 = i - 1
    BY <1>0
  <2>3. i <= id => i \in 1 .. id
    OBVIOUS
  <2> QED BY <1>2, <1>4, <2>1, <2>2, <2>3
<1> QED BY <1>6, <1>7

\* What a removal at a place leaves.
LEMMA RemovalGives ==
  ASSUME NEW table \in Seq(K11!Entries), NEW id \in 1 .. Len(table), NEW new,
         new = SubSeq(table, 1, id - 1) \o SubSeq(table, id + 1, Len(table))
  PROVE  /\ new \in Seq(K11!Entries) /\ Len(new) = Len(table) - 1
         /\ \A i \in 1 .. Len(table) - 1 :
              new[i] = IF i < id THEN table[i] ELSE table[i + 1]
<1> DEFINE left == SubSeq(table, 1, id - 1)
           right == SubSeq(table, id + 1, Len(table))
<1>0. Len(table) \in Nat
  OBVIOUS
<1>1. /\ left \in Seq(K11!Entries) /\ Len(left) = id - 1
      /\ \A i \in 1 .. id - 1 : left[i] = table[i]
  BY <1>0
<1>2. /\ right \in Seq(K11!Entries) /\ Len(right) = Len(table) - id
      /\ \A i \in 1 .. Len(table) - id : right[i] = table[id + i]
  BY <1>0
<1>3. new = left \o right
  OBVIOUS
<1> HIDE DEF left, right
<1>4. new \in Seq(K11!Entries) /\ Len(new) = Len(table) - 1
  <2>1. new \in Seq(K11!Entries) /\ Len(new) = Len(left) + Len(right)
    <3>1. left \in Seq(K11!Entries) /\ right \in Seq(K11!Entries)
      BY <1>1, <1>2
    <3>2. left \o right \in Seq(K11!Entries) /\ Len(left \o right) = Len(left) + Len(right)
      BY <3>1, Joined
    <3> QED BY <1>3, <3>2
  <2>2. Len(left) + Len(right) = Len(table) - 1
    BY <1>0, <1>1, <1>2
  <2> QED BY <2>1, <2>2
<1>5. ASSUME NEW i \in 1 .. Len(table) - 1
      PROVE  new[i] = IF i < id THEN table[i] ELSE table[i + 1]
  <2>1. new[i] = IF i < id THEN left[i] ELSE right[i - id + 1]
    <3>1. new[i] = IF i <= Len(left) THEN left[i] ELSE right[i - Len(left)]
      <4>1. i \in 1 .. Len(left) + Len(right)
        BY <1>0, <1>1, <1>2
      <4>2. left \in Seq(K11!Entries) /\ right \in Seq(K11!Entries)
        BY <1>1, <1>2
      <4>3. \A n \in 1 .. Len(left) + Len(right) :
              (left \o right)[n] = IF n <= Len(left) THEN left[n] ELSE right[n - Len(left)]
        BY <4>2, ConcatProperties
      <4> QED BY <1>3, <4>1, <4>3
    <3>2. (i <= Len(left) <=> i < id) /\ i - Len(left) = i - id + 1
      BY <1>0, <1>1
    <3> QED BY <3>1, <3>2
  <2>2. i >= id => i - id + 1 \in 1 .. Len(table) - id /\ id + (i - id + 1) = i + 1
    BY <1>0
  <2>3. i < id => i \in 1 .. id - 1
    OBVIOUS
  <2>4. CASE i < id
    BY <1>1, <2>1, <2>3, <2>4
  <2>5. CASE ~ (i < id)
    <3> DEFINE k == i - id + 1
    <3>1. k \in 1 .. Len(table) - id /\ id + k = i + 1
      BY <2>2, <2>5
    <3>2. new[i] = right[k]
      BY <2>1, <2>5
    <3> HIDE DEF k
    <3>3. right[k] = table[id + k]
      BY <1>2, <3>1
    <3> QED BY <2>5, <3>1, <3>2, <3>3
  <2> QED BY <2>4, <2>5
<1> QED BY <1>4, <1>5

\* What SessionInfo_Add leaves: a sorted table, with one element more.
LEMMA AddedGives ==
  ASSUME K11!SessionsAssumption, NEW table \in Seq(K11!Entries), InOrder(table),
         Len(table) # MAX_SESSION, NEW s \in Sessions, s \notin K11!Addresses(table),
         NEW name \in Names, NEW new, new = K11!Added(table, s, name)
  PROVE  /\ new \in Seq(K11!Entries) /\ Len(new) = Len(table) + 1 /\ InOrder(new)
         /\ Contents(new) = Contents(table) \cup {[session |-> s, name |-> name]}
<1> DEFINE id == K11!FindClosestSlot(table, s)
           info == [session |-> s, name |-> name]
<1>0. Len(table) \in Nat /\ s \in Nat
  BY DEF K11!SessionsAssumption
<1>1. PlaceOf(table, s, id)
  BY SearchFinds
<1> HIDE DEF id
<1>2. /\ id \in 1 .. Len(table) + 1
      /\ \A i \in 1 .. Len(table) : i < id => table[i].session < s
      /\ \A i \in 1 .. Len(table) : i >= id => s <= table[i].session
  BY <1>1 DEF PlaceOf
<1>3. \A i \in 1 .. Len(table) : table[i].session # s
  BY DEF K11!Addresses
<1>4. new = K11!InsertedAt(table, id, info)
  <2>1. ~ (id <= Len(table) /\ table[id].session = s)
    BY <1>0, <1>2, <1>3
  <2> QED BY <2>1 DEF K11!Added, id
<1>5. info \in K11!Entries /\ info.session = s
  BY DEF K11!Entries
<1> HIDE DEF info
<1>6. /\ new \in Seq(K11!Entries) /\ Len(new) = Len(table) + 1
      /\ \A i \in 1 .. Len(table) + 1 :
           new[i] = IF i < id THEN table[i] ELSE IF i = id THEN info ELSE table[i - 1]
  <2>1. id \in 1 .. Len(table) + 1
    BY <1>2
  <2>2. info \in K11!Entries
    BY <1>5
  <2> QED BY <1>4, <2>1, <2>2, InsertionGives
<1>7. ASSUME NEW i \in 1 .. Len(table) + 1, NEW j \in 1 .. Len(table) + 1, i < j
      PROVE  new[i].session < new[j].session
  <2>1. CASE j < id
    <3>1. i \in 1 .. Len(table) /\ j \in 1 .. Len(table) /\ i < id
      BY <1>0, <1>2, <1>7, <2>1
    <3> QED BY <1>6, <1>7, <2>1, <3>1 DEF InOrder
  <2>2. CASE j = id
    <3>1. i \in 1 .. Len(table) /\ i < id
      BY <1>0, <1>2, <1>7, <2>2
    <3>2. new[i] = table[i] /\ new[j] = info
      BY <1>6, <2>2, <3>1
    <3> QED BY <1>2, <1>5, <3>1, <3>2
  <2>3. CASE j > id
    <3>1. j - 1 \in 1 .. Len(table) /\ j - 1 >= id /\ new[j] = table[j - 1]
      BY <1>0, <1>2, <1>6, <2>3
    <3>2. table[j - 1].session \in Nat
      BY <3>1, EntryOf
    <3>3. s < table[j - 1].session
      BY <1>0, <1>2, <1>3, <3>1, <3>2
    <3>4. CASE i < id
      <4>1. i \in 1 .. Len(table) /\ new[i] = table[i]
        BY <1>0, <1>2, <1>6, <3>4
      <4>2. table[i].session \in Nat /\ table[i].session < s
        BY <1>2, <3>4, <4>1, EntryOf
      <4> QED BY <1>0, <3>1, <3>2, <3>3, <4>1, <4>2
    <3>5. CASE i = id
      BY <1>5, <1>6, <3>1, <3>3, <3>5
    <3>6. CASE i > id
      <4>1. i - 1 \in 1 .. Len(table) /\ new[i] = table[i - 1] /\ i - 1 < j - 1
        BY <1>0, <1>2, <1>6, <1>7, <3>6
      <4> QED BY <3>1, <4>1 DEF InOrder
    <3> QED BY <1>2, <3>4, <3>5, <3>6
  <2> QED BY <1>2, <2>1, <2>2, <2>3
<1>8. InOrder(new)
  BY <1>6, <1>7 DEF InOrder
<1>9. Contents(new) = Contents(table) \cup {info}
  <2>1. ASSUME NEW i \in 1 .. Len(table) + 1 PROVE new[i] \in Contents(table) \cup {info}
    <3>1. i < id => i \in 1 .. Len(table)
      BY <1>0, <1>2
    <3>2. i > id => i - 1 \in 1 .. Len(table)
      BY <1>0, <1>2
    <3> QED BY <1>2, <1>6, <3>1, <3>2 DEF Contents
  <2>2. ASSUME NEW i \in 1 .. Len(table) PROVE table[i] \in Contents(new)
    <3>1. i < id => table[i] = new[i] /\ i \in 1 .. Len(new)
      BY <1>0, <1>6
    <3>2. i >= id => table[i] = new[i + 1] /\ i + 1 \in 1 .. Len(new)
      BY <1>0, <1>2, <1>6
    <3> QED BY <1>0, <1>2, <3>1, <3>2 DEF Contents
  <2>3. info \in Contents(new)
    BY <1>2, <1>6 DEF Contents
  <2>4. \A e \in Contents(new) : e \in Contents(table) \cup {info}
    BY <1>6, <2>1 DEF Contents
  <2>5. \A e \in Contents(table) : e \in Contents(new)
    BY <2>2 DEF Contents
  <2> QED BY <2>3, <2>4, <2>5
<1> QED BY <1>6, <1>8, <1>9 DEF info

\* What SessionInfo_Remove leaves: a sorted table, without those of the session.
LEMMA RemovedGives ==
  ASSUME K11!SessionsAssumption, NEW table \in Seq(K11!Entries), InOrder(table),
         Len(table) # MAX_SESSION, NEW s \in Sessions, s \in K11!Addresses(table),
         NEW new, new = K11!Removed(table, s)
  PROVE  /\ new \in Seq(K11!Entries) /\ Len(new) = Len(table) - 1 /\ InOrder(new)
         /\ Contents(new) = {e \in Contents(table) : e.session # s}
<1> DEFINE id == K11!FindClosestSlot(table, s)
<1>0. Len(table) \in Nat /\ s \in Nat
  BY DEF K11!SessionsAssumption
<1>1. PlaceOf(table, s, id)
  BY SearchFinds
<1> HIDE DEF id
<1>2. /\ id \in 1 .. Len(table) + 1
      /\ \A i \in 1 .. Len(table) : i < id => table[i].session < s
      /\ \A i \in 1 .. Len(table) : i >= id => s <= table[i].session
  BY <1>1 DEF PlaceOf
<1>3. PICK k \in 1 .. Len(table) : table[k].session = s
  BY DEF K11!Addresses
<1>4. id = k
  <2>1. id <= k
    BY <1>0, <1>2, <1>3
  <2>2. CASE id < k
    <3>1. id \in 1 .. Len(table)
      BY <1>0, <1>2, <2>2
    <3>2. table[id].session < s /\ s <= table[id].session /\ table[id].session \in Nat
      <4>1. table[id].session < s
        BY <1>3, <2>2, <3>1 DEF InOrder
      <4>2. s <= table[id].session
        BY <1>2, <3>1
      <4> QED BY <3>1, <4>1, <4>2, EntryOf
    <3> QED BY <1>0, <3>2
  <2> QED BY <1>2, <2>1, <2>2
<1>5. new = SubSeq(table, 1, id - 1) \o SubSeq(table, id + 1, Len(table))
  <2>1. ~ (Len(table) = MAX_SESSION \/ id > Len(table))
    BY <1>0, <1>4
  <2> QED BY <2>1 DEF K11!Removed, id
<1>6. id \in 1 .. Len(table)
  BY <1>4
<1>7. /\ new \in Seq(K11!Entries) /\ Len(new) = Len(table) - 1
      /\ \A i \in 1 .. Len(table) - 1 : new[i] = IF i < id THEN table[i] ELSE table[i + 1]
  BY <1>5, <1>6, RemovalGives
<1>8. ASSUME NEW i \in 1 .. Len(table) - 1, NEW j \in 1 .. Len(table) - 1, i < j
      PROVE  new[i].session < new[j].session
  <2> DEFINE o(n) == IF n < id THEN n ELSE n + 1
  <2>1. o(i) \in 1 .. Len(table) /\ o(j) \in 1 .. Len(table) /\ o(i) < o(j)
    BY <1>0, <1>6, <1>8
  <2>2. new[i] = table[o(i)] /\ new[j] = table[o(j)]
    BY <1>7
  <2> HIDE DEF o
  <2> QED BY <2>1, <2>2 DEF InOrder
<1>9. InOrder(new)
  BY <1>7, <1>8 DEF InOrder
<1>10. \A i \in 1 .. Len(table) : table[i].session = s => i = id
  <2> SUFFICES ASSUME NEW i \in 1 .. Len(table), table[i].session = s, i # id
               PROVE  FALSE
    OBVIOUS
  <2>1. i < id \/ id < i
    BY <1>6
  <2>2. table[i].session < table[id].session \/ table[id].session < table[i].session
    BY <1>6, <2>1 DEF InOrder
  <2> QED BY <1>0, <1>3, <1>4, <2>2
<1>11. Contents(new) = {e \in Contents(table) : e.session # s}
  <2>1. ASSUME NEW i \in 1 .. Len(table) - 1
        PROVE  new[i] \in Contents(table) /\ new[i].session # s
    <3> DEFINE o == IF i < id THEN i ELSE i + 1
    <3>1. o \in 1 .. Len(table) /\ o # id /\ new[i] = table[o]
      BY <1>0, <1>6, <1>7
    <3> HIDE DEF o
    <3> QED BY <1>10, <3>1 DEF Contents
  <2>2. ASSUME NEW i \in 1 .. Len(table), i # id PROVE table[i] \in Contents(new)
    <3> DEFINE o == IF i < id THEN i ELSE i - 1
    <3>1. o \in 1 .. Len(new) /\ new[o] = table[i]
      BY <1>0, <1>6, <1>7, <2>2
    <3> HIDE DEF o
    <3> QED BY <3>1 DEF Contents
  <2>3. \A e \in Contents(new) : e \in Contents(table) /\ e.session # s
    BY <1>7, <2>1 DEF Contents
  <2>4. ASSUME NEW e \in Contents(table), e.session # s PROVE e \in Contents(new)
    <3>1. PICK i \in 1 .. Len(table) : e = table[i]
      BY DEF Contents
    <3>2. i # id
      BY <1>3, <1>4, <2>4, <3>1
    <3> QED BY <2>2, <3>1, <3>2
  <2> QED BY <2>3, <2>4
<1> QED BY <1>7, <1>9, <1>11

\* In a table in order, a session is below its place as many times as there
\* are smaller addresses.
LEMMA PlaceCounts ==
  ASSUME K11!SessionsAssumption, NEW table \in Seq(K11!Entries), InOrder(table),
         NEW s \in Sessions
  PROVE  K11!FindClosestSlot(table, s) = 1 + Cardinality({e \in K11!Addresses(table) : e < s})
<1> DEFINE id == K11!FindClosestSlot(table, s)
           Below == {e \in K11!Addresses(table) : e < s}
           f == [i \in 1 .. id - 1 |-> table[i].session]
<1>0. Len(table) \in Nat /\ s \in Nat
  BY DEF K11!SessionsAssumption
<1>1. PlaceOf(table, s, id)
  BY SearchFinds
<1> HIDE DEF id
<1>2. /\ id \in 1 .. Len(table) + 1
      /\ \A i \in 1 .. Len(table) : i < id => table[i].session < s
      /\ \A i \in 1 .. Len(table) : i >= id => s <= table[i].session
  BY <1>1 DEF PlaceOf
<1>3. \A i \in 1 .. id - 1 : i \in 1 .. Len(table) /\ i < id /\ f[i] = table[i].session
  BY <1>0, <1>2
<1>4. f \in [1 .. id - 1 -> Below]
  <2>1. ASSUME NEW i \in 1 .. id - 1 PROVE table[i].session \in Below
    BY <1>2, <1>3 DEF K11!Addresses
  <2> QED BY <2>1
<1>5. \A i, j \in 1 .. id - 1 : f[i] = f[j] => i = j
  <2> SUFFICES ASSUME NEW i \in 1 .. id - 1, NEW j \in 1 .. id - 1, f[i] = f[j], i # j
               PROVE  FALSE
    OBVIOUS
  <2>1. i \in 1 .. Len(table) /\ j \in 1 .. Len(table) /\ (i < j \/ j < i)
    BY <1>2, <1>3
  <2>2. table[i].session < table[j].session \/ table[j].session < table[i].session
    BY <2>1 DEF InOrder
  <2>3. table[i].session = table[j].session /\ table[i].session \in Nat
    BY <1>3, <2>1, EntryOf
  <2> QED BY <2>2, <2>3
<1>6. \A e \in Below : \E i \in 1 .. id - 1 : f[i] = e
  <2> SUFFICES ASSUME NEW e \in Below PROVE \E i \in 1 .. id - 1 : f[i] = e
    OBVIOUS
  <2>1. PICK i \in 1 .. Len(table) : e = table[i].session
    BY DEF K11!Addresses
  <2>2. table[i].session \in Nat /\ table[i].session < s
    BY <2>1, EntryOf
  <2>3. i < id
    BY <1>0, <1>2, <2>2
  <2>4. i \in 1 .. id - 1
    BY <1>0, <1>2, <2>3
  <2> QED BY <1>3, <2>1, <2>4
<1>7. f \in Bijection(1 .. id - 1, Below)
  <2> HIDE DEF f, Below
  <2>1. f \in Injection(1 .. id - 1, Below)
    BY <1>4, <1>5 DEF Injection, IsInjective
  <2>2. f \in Surjection(1 .. id - 1, Below)
    BY <1>4, <1>6 DEF Surjection
  <2> QED BY <2>1, <2>2 DEF Bijection
<1>8. ExistsBijection(1 .. id - 1, Below)
  BY <1>7 DEF ExistsBijection
<1> HIDE DEF Below
<1>9. Cardinality(Below) = id - 1
  <2>1. IsFiniteSet(1 .. id - 1) /\ Cardinality(1 .. id - 1) = id - 1
    <3>1. id - 1 \in Nat /\ id - 1 \in Int
      BY <1>0, <1>2
    <3> QED BY <3>1, FS_Interval
  <2> QED BY <1>8, <2>1, FS_Bijection
<1> QED BY <1>0, <1>2, <1>9 DEF Below, id

-----------------------------------------------------------------------------
(* The invariant                                                           *)

\* What a thread may be doing.
ThreadStates ==
  {K11!Idle}
  \cup [at : {"hook", "add"}, session : Sessions, name : Names]
  \cup [at : {"remove"}, session : Sessions]
  \cup [at : {"request"}, session : Sessions, header : Headers, info : SUBSET Nat]
  \cup [at : {"steal"}, session : {NoName}, name : Names, info : SUBSET Nat]

\* Type correctness.
TableTypes ==
  /\ sessionInfos \in Seq(K11!Entries) /\ K11!nbActiveSessions <= MAX_SESSION
  /\ live \in SUBSET Sessions /\ custom \in SUBSET Sessions
  /\ opened \in [Sessions -> Names \cup {NoName}]
  /\ thread \in [Threads -> ThreadStates]

\* A thread that has opened a session and not yet entered it.
Opening(t) == thread[t].at \in {"hook", "add"}

\* A session that is opened exists, under its name, and has its vtable changed
\* before its entry is added.
OpeningInv ==
  \A t \in Threads : Opening(t) =>
    /\ thread[t].session \in live
    /\ opened[thread[t].session] = thread[t].name
    /\ thread[t].session \in custom <=> thread[t].at = "add"

\* One whose entry is to be removed exists no more, and its address is not
\* taken again.
ClosingInv ==
  \A t \in Threads : thread[t].at = "remove" =>
    thread[t].session \in custom /\ thread[t].session \notin live

\* No two threads do either for one session.
AloneInv ==
  \A t, u \in Threads :
    /\ t # u
    /\ \/ Opening(t) /\ Opening(u)
       \/ thread[t].at = "remove" /\ thread[u].at = "remove"
    => thread[t].session # thread[u].session

\* What the table holds, until it is full.
ContentsInv ==
  K11!nbActiveSessions # MAX_SESSION =>
    /\ K11!Addresses(sessionInfos) = K11!Entered
    /\ \A e \in Contents(sessionInfos) : e.name = opened[e.session]

\* The inductive invariant.
TableInv ==
  /\ TableTypes /\ OpeningInv /\ ClosingInv /\ AloneInv
  /\ InOrder(sessionInfos) /\ ContentsInv

\* A thread that neither opens nor closes a session.
Quiet(state) == state.at \in {"idle", "request", "steal"}

\* A thread that opens or closes nothing, before and after.
LEMMA QuietKeeps ==
  ASSUME TableInv, NEW t \in Threads, Quiet(thread[t]),
         NEW state \in ThreadStates, Quiet(state),
         thread' = [thread EXCEPT ![t] = state],
         UNCHANGED <<sessionInfos, live, custom, opened>>
  PROVE  TableInv'
<1>1. \A u \in Threads : thread'[u] = IF u = t THEN state ELSE thread[u]
  BY DEF TableInv, TableTypes
<1>2. TableTypes'
  BY DEF TableInv, TableTypes, K11!nbActiveSessions
<1>3. \A u \in Threads :
        /\ thread'[u].at \in {"hook", "add", "remove"}
             <=> thread[u].at \in {"hook", "add", "remove"}
        /\ thread'[u].at \in {"hook", "add", "remove"} => thread'[u] = thread[u]
  BY <1>1 DEF Quiet
<1>4. OpeningInv' /\ ClosingInv' /\ AloneInv'
  BY <1>3 DEF TableInv, OpeningInv, ClosingInv, AloneInv, Opening
<1>5. K11!Entered' = K11!Entered
  BY <1>3 DEF K11!Entered, K11!Busy
<1>6. InOrder(sessionInfos)' /\ ContentsInv'
  BY <1>5 DEF TableInv, ContentsInv, InOrder, K11!Addresses, Contents, K11!nbActiveSessions
<1> QED BY <1>2, <1>4, <1>6 DEF TableInv

\* Until the table is full it holds sessions that were entered.
LEMMA EntriesEntered ==
  ASSUME TableInv, K11!nbActiveSessions # MAX_SESSION, NEW e \in Contents(sessionInfos)
  PROVE  e.session \in K11!Entered /\ e.session \in Sessions /\ e \in K11!Entries
<1>1. sessionInfos \in Seq(K11!Entries)
  BY DEF TableInv, TableTypes
<1>2. e.session \in K11!Addresses(sessionInfos)
  BY <1>1, AddressesOfContents
<1>3. e \in K11!Entries
  BY <1>1 DEF Contents
<1> QED BY <1>2, <1>3 DEF TableInv, ContentsInv, K11!Entries

\* A session is created, by a thread that is then about to add it or by no
\* thread.
LEMMA CreateKeeps ==
  ASSUME K11!SessionsAssumption, ~PromptReuse, TableInv,
         NEW s \in Sessions, NEW name \in Names \cup {NoName}, K11!Create(s, name), NEW t,
         thread' \in [Threads -> ThreadStates],
         \A u \in Threads \ {t} : thread'[u] = thread[u],
         t \in Threads =>
           \/ thread'[t] = thread[t]
           \/ /\ Quiet(thread[t])
              /\ \/ Quiet(thread'[t])
                 \/ thread'[t] = [at |-> "hook", session |-> s, name |-> name],
         sessionInfos' = sessionInfos
  PROVE  TableInv'
<1>1. /\ s \notin live /\ live' = live \cup {s} /\ custom' = custom \ {s}
      /\ opened' = [opened EXCEPT ![s] = name]
      /\ ~K11!Busy(s, {"remove"})
  BY DEF K11!Create
<1>2. /\ live \in SUBSET Sessions /\ custom \in SUBSET Sessions
      /\ opened \in [Sessions -> Names \cup {NoName}]
      /\ sessionInfos \in Seq(K11!Entries)
  BY DEF TableInv, TableTypes
<1>3. TableTypes'
  BY <1>1 DEF TableInv, TableTypes, K11!nbActiveSessions
<1>4. ASSUME NEW u \in Threads
      PROVE  \/ thread'[u] = thread[u]
             \/ /\ u = t /\ Quiet(thread[u]) /\ Quiet(thread'[u])
             \/ /\ u = t /\ Quiet(thread[u])
                /\ thread'[u] = [at |-> "hook", session |-> s, name |-> name]
  OBVIOUS
<1>5. ASSUME NEW u \in Threads, Opening(u)'
      PROVE  \/ thread'[u] = thread[u] /\ Opening(u) /\ thread[u].session # s
             \/ u = t /\ thread'[u] = [at |-> "hook", session |-> s, name |-> name]
  <2>1. thread'[u] = thread[u] => Opening(u) /\ thread[u].session # s
    BY <1>1, <1>5 DEF Opening, TableInv, OpeningInv
  <2>2. ~Quiet(thread'[u])
    BY <1>5 DEF Opening, Quiet
  <2> QED BY <1>4, <2>1, <2>2
<1>6. \A u \in Threads : thread'[u].at = "remove" <=> thread[u].at = "remove"
  BY <1>4 DEF Quiet
<1>7. \A u \in Threads : thread[u].at = "remove" =>
        thread'[u] = thread[u] /\ thread[u].session # s
  <2>1. \A u \in Threads : thread[u].at = "remove" => ~Quiet(thread[u])
    BY DEF Quiet
  <2> QED BY <1>1, <1>4, <2>1 DEF K11!Busy
<1>8. OpeningInv'
  <2> SUFFICES ASSUME NEW u \in Threads, Opening(u)'
               PROVE  /\ thread'[u].session \in live'
                      /\ opened'[thread'[u].session] = thread'[u].name
                      /\ thread'[u].session \in custom' <=> thread'[u].at = "add"
    BY DEF OpeningInv
  <2>1. CASE thread'[u] = thread[u] /\ Opening(u) /\ thread[u].session # s
    BY <1>1, <1>2, <2>1 DEF TableInv, OpeningInv
  <2>2. CASE thread'[u] = [at |-> "hook", session |-> s, name |-> name]
    BY <1>1, <1>2, <2>2
  <2> QED BY <1>5, <2>1, <2>2
<1>9. ClosingInv'
  BY <1>1, <1>6, <1>7 DEF TableInv, ClosingInv
<1>10. AloneInv'
  <2> SUFFICES ASSUME NEW u \in Threads, NEW v \in Threads, u # v,
                      \/ Opening(u)' /\ Opening(v)'
                      \/ thread'[u].at = "remove" /\ thread'[v].at = "remove"
               PROVE  thread'[u].session # thread'[v].session
    BY DEF AloneInv
  <2>1. CASE Opening(u)' /\ Opening(v)'
    <3>1. (thread'[u] = thread[u] /\ Opening(u) /\ thread[u].session # s)
          \/ (u = t /\ thread'[u].session = s)
      BY <1>5, <2>1
    <3>2. (thread'[v] = thread[v] /\ Opening(v) /\ thread[v].session # s)
          \/ (v = t /\ thread'[v].session = s)
      BY <1>5, <2>1
    <3> QED BY <3>1, <3>2 DEF TableInv, AloneInv
  <2>2. CASE thread'[u].at = "remove" /\ thread'[v].at = "remove"
    BY <1>6, <1>7, <2>2 DEF TableInv, AloneInv
  <2> QED BY <2>1, <2>2
<1>11. K11!Entered' = K11!Entered
  <2>1. ASSUME NEW r \in Sessions
        PROVE  K11!Busy(r, {"remove"})' <=> K11!Busy(r, {"remove"})
    BY <1>6, <1>7 DEF K11!Busy
  <2>2. ASSUME NEW r \in Sessions, r # s
        PROVE  K11!Busy(r, {"add"})' <=> K11!Busy(r, {"add"})
    <3>1. ASSUME NEW u \in Threads, thread'[u].at = "add"
          PROVE  thread'[u] = thread[u]
      BY <1>5, <3>1 DEF Opening
    <3>2. ASSUME NEW u \in Threads, thread[u].at = "add"
          PROVE  thread'[u] = thread[u]
      BY <1>4, <3>2 DEF Quiet
    <3> QED BY <3>1, <3>2 DEF K11!Busy
  <2>3. s \notin live /\ s \notin custom'
    BY <1>1
  <2> HIDE DEF K11!Busy
  <2> QED BY <1>1, <1>2, <2>1, <2>2, <2>3 DEF K11!Entered
<1>12. s \notin K11!Entered
  BY <1>1 DEF K11!Entered
<1>13. InOrder(sessionInfos)'
  BY DEF TableInv, InOrder
<1>14. ContentsInv'
  <2> SUFFICES ASSUME K11!nbActiveSessions # MAX_SESSION
               PROVE  /\ K11!Addresses(sessionInfos)' = K11!Entered'
                      /\ \A e \in Contents(sessionInfos) : e.name = opened'[e.session]
    BY DEF ContentsInv, Contents, K11!nbActiveSessions
  <2>1. K11!Addresses(sessionInfos)' = K11!Entered'
    BY <1>11 DEF TableInv, ContentsInv, K11!Addresses
  <2>2. ASSUME NEW e \in Contents(sessionInfos) PROVE e.name = opened'[e.session]
    <3>1. e.session # s /\ e.session \in Sessions
      BY <1>12, EntriesEntered
    <3> QED BY <1>1, <1>2, <3>1 DEF TableInv, ContentsInv
  <2> QED BY <2>1, <2>2
<1> QED BY <1>3, <1>8, <1>9, <1>10, <1>13, <1>14 DEF TableInv

\* The vtable is changed before the entry is added.
LEMMA ChangeVtableKeeps ==
  ASSUME K11!SessionsAssumption, TableInv, NEW t \in Threads, K11!SessionInfo_ChangeVtable(t)
  PROVE  TableInv'
<1>0. PICK s : s = thread[t].session
  OBVIOUS
<1>1. /\ thread[t].at = "hook" /\ custom' = custom \cup {s}
      /\ thread' = [thread EXCEPT ![t].at = "add"]
      /\ sessionInfos' = sessionInfos /\ live' = live /\ opened' = opened
  BY <1>0 DEF K11!SessionInfo_ChangeVtable
<1>2. /\ live \in SUBSET Sessions /\ custom \in SUBSET Sessions
      /\ thread \in [Threads -> ThreadStates] /\ sessionInfos \in Seq(K11!Entries)
  BY DEF TableInv, TableTypes
<1>3. thread[t] \in [at : {"hook", "add"}, session : Sessions, name : Names]
  BY <1>1, <1>2 DEF ThreadStates, K11!Idle
<1>4. /\ thread'[t] \in [at : {"hook", "add"}, session : Sessions, name : Names]
      /\ thread'[t].at = "add" /\ thread'[t].session = s /\ thread'[t].name = thread[t].name
      /\ s \in Sessions
      /\ \A u \in Threads : u # t => thread'[u] = thread[u]
  BY <1>0, <1>1, <1>2, <1>3
<1>5. thread' \in [Threads -> ThreadStates]
  <2>1. thread'[t] \in ThreadStates
    BY <1>4 DEF ThreadStates
  <2>2. thread' = [u \in Threads |-> thread'[u]]
    BY <1>1, <1>2
  <2> QED BY <1>2, <1>4, <2>1, <2>2
<1>6. TableTypes'
  BY <1>1, <1>4, <1>5 DEF TableInv, TableTypes, K11!nbActiveSessions
<1>7. Opening(t) /\ s \in live /\ opened[s] = thread[t].name /\ s \notin custom
  BY <1>0, <1>1 DEF Opening, TableInv, OpeningInv
<1>8. \A u \in Threads : u # t /\ Opening(u) => thread[u].session # s
  BY <1>0, <1>7 DEF TableInv, AloneInv
<1>9. \A u \in Threads : thread[u].at = "remove" => thread[u].session # s /\ u # t
  BY <1>1, <1>7 DEF TableInv, ClosingInv
<1>10. OpeningInv'
  <2> SUFFICES ASSUME NEW u \in Threads, Opening(u)'
               PROVE  /\ thread'[u].session \in live'
                      /\ opened'[thread'[u].session] = thread'[u].name
                      /\ thread'[u].session \in custom' <=> thread'[u].at = "add"
    BY DEF OpeningInv
  <2>1. CASE u = t
    BY <1>1, <1>4, <1>7, <2>1
  <2>2. CASE u # t
    <3>1. Opening(u) /\ thread'[u] = thread[u]
      BY <1>4, <2>2 DEF Opening
    <3> QED BY <1>1, <1>8, <2>2, <3>1 DEF TableInv, OpeningInv
  <2> QED BY <2>1, <2>2
<1>11. ClosingInv' /\ AloneInv'
  <2>1. \A u \in Threads : /\ Opening(u)' <=> Opening(u)
                           /\ thread'[u].at = "remove" <=> thread[u].at = "remove"
                           /\ thread'[u].session = thread[u].session
    BY <1>0, <1>1, <1>4, <1>7 DEF Opening
  <2>2. ClosingInv'
    BY <1>1, <2>1 DEF TableInv, ClosingInv
  <2>3. AloneInv'
    BY <2>1 DEF TableInv, AloneInv
  <2> QED BY <2>2, <2>3
<1>12. K11!Entered' = K11!Entered
  <2>1. ASSUME NEW r \in Sessions
        PROVE  K11!Busy(r, {"remove"})' <=> K11!Busy(r, {"remove"})
    BY <1>1, <1>4, <1>9 DEF K11!Busy
  <2>2. ASSUME NEW r \in Sessions, r # s
        PROVE  K11!Busy(r, {"add"})' <=> K11!Busy(r, {"add"})
    BY <1>0, <1>1, <1>4, <2>2 DEF K11!Busy
  <2>3. K11!Busy(s, {"add"})'
    BY <1>4 DEF K11!Busy
  <2>4. ~K11!Busy(s, {"remove"})
    BY <1>9 DEF K11!Busy
  <2> HIDE DEF K11!Busy
  <2> QED BY <1>1, <1>2, <1>4, <1>7, <2>1, <2>2, <2>3, <2>4 DEF K11!Entered
<1>13. InOrder(sessionInfos)' /\ ContentsInv'
  BY <1>1, <1>12 DEF TableInv, ContentsInv, InOrder, K11!Addresses, Contents,
         K11!nbActiveSessions
<1> QED BY <1>6, <1>10, <1>11, <1>13 DEF TableInv

\* The entry is added: the session is entered by then.
LEMMA AddKeeps ==
  ASSUME K11!SessionsAssumption, TableInv, NEW t \in Threads, K11!SessionInfo_Add(t)
  PROVE  TableInv'
<1>0. PICK s, name : s = thread[t].session /\ name = thread[t].name
  OBVIOUS
<1>1. /\ thread[t].at = "add" /\ sessionInfos' = K11!Added(sessionInfos, s, name)
      /\ thread' = [thread EXCEPT ![t] = K11!Idle]
      /\ live' = live /\ custom' = custom /\ opened' = opened
  BY <1>0 DEF K11!SessionInfo_Add
<1>2. /\ live \in SUBSET Sessions /\ custom \in SUBSET Sessions
      /\ thread \in [Threads -> ThreadStates] /\ sessionInfos \in Seq(K11!Entries)
      /\ Len(sessionInfos) \in Nat /\ Len(sessionInfos) <= MAX_SESSION
      /\ InOrder(sessionInfos)
  BY DEF TableInv, TableTypes, K11!nbActiveSessions
<1>3. s \in Sessions /\ name \in Names
  BY <1>0, <1>1, <1>2 DEF ThreadStates, K11!Idle
<1>4. \A u \in Threads : thread'[u] = IF u = t THEN K11!Idle ELSE thread[u]
  BY <1>1, <1>2
<1>5. thread' \in [Threads -> ThreadStates]
  BY <1>1, <1>2 DEF ThreadStates
<1>6. s \in live /\ opened[s] = name /\ s \in custom
  BY <1>0, <1>1 DEF TableInv, OpeningInv, Opening
<1>7. \A u \in Threads : u # t /\ thread[u].at = "add" => thread[u].session # s
  BY <1>0, <1>1 DEF TableInv, AloneInv, Opening
<1>8. \A u \in Threads : thread[u].at = "remove" => thread[u].session # s /\ u # t
  BY <1>1, <1>6 DEF TableInv, ClosingInv
<1>9. OpeningInv' /\ ClosingInv' /\ AloneInv'
  <2>1. K11!Idle.at = "idle"
    BY DEF K11!Idle
  <2>2. \A u \in Threads : /\ Opening(u)' => Opening(u) /\ thread'[u] = thread[u]
                           /\ thread'[u].at = "remove"
                                => thread[u].at = "remove" /\ thread'[u] = thread[u]
    BY <1>4, <2>1 DEF Opening
  <2>3. OpeningInv'
    BY <1>1, <2>2 DEF TableInv, OpeningInv
  <2>4. ClosingInv'
    BY <1>1, <2>2 DEF TableInv, ClosingInv
  <2>5. AloneInv'
    BY <2>2 DEF TableInv, AloneInv
  <2> QED BY <2>3, <2>4, <2>5
<1>10. K11!Entered' = K11!Entered \cup {s} /\ s \notin K11!Entered
  <2>0. K11!Idle.at = "idle"
    BY DEF K11!Idle
  <2>1. ASSUME NEW r \in Sessions
        PROVE  K11!Busy(r, {"remove"})' <=> K11!Busy(r, {"remove"})
    BY <1>4, <1>8, <2>0 DEF K11!Busy
  <2>2. ASSUME NEW r \in Sessions, r # s
        PROVE  K11!Busy(r, {"add"})' <=> K11!Busy(r, {"add"})
    BY <1>0, <1>4, <2>0, <2>2 DEF K11!Busy
  <2>3. ~K11!Busy(s, {"add"})'
    BY <1>4, <1>7, <2>0 DEF K11!Busy
  <2>4. ~K11!Busy(s, {"remove"}) /\ K11!Busy(s, {"add"})
    BY <1>0, <1>1, <1>8 DEF K11!Busy
  <2> HIDE DEF K11!Busy
  <2> QED BY <1>1, <1>2, <1>3, <1>6, <2>1, <2>2, <2>3, <2>4 DEF K11!Entered
<1>11. CASE Len(sessionInfos) = MAX_SESSION
  <2>1. sessionInfos' = sessionInfos
    BY <1>1, <1>11 DEF K11!Added
  <2>2. TableTypes'
    BY <1>1, <1>5, <2>1 DEF TableInv, TableTypes, K11!nbActiveSessions
  <2>3. InOrder(sessionInfos)' /\ ContentsInv'
    BY <1>2, <1>11, <2>1 DEF InOrder, ContentsInv, K11!nbActiveSessions
  <2> QED BY <1>9, <2>2, <2>3 DEF TableInv
<1>12. CASE Len(sessionInfos) # MAX_SESSION
  <2>1. /\ K11!Addresses(sessionInfos) = K11!Entered
        /\ \A e \in Contents(sessionInfos) : e.name = opened[e.session]
    BY <1>12 DEF TableInv, ContentsInv, K11!nbActiveSessions
  <2>2. PICK new : new = K11!Added(sessionInfos, s, name)
    OBVIOUS
  <2>3. /\ new \in Seq(K11!Entries) /\ Len(new) = Len(sessionInfos) + 1 /\ InOrder(new)
        /\ Contents(new) = Contents(sessionInfos) \cup {[session |-> s, name |-> name]}
    BY <1>2, <1>3, <1>10, <1>12, <2>1, <2>2, AddedGives
  <2>4. sessionInfos' = new
    BY <1>1, <2>2
  <2>5. TableTypes'
    <3>1. Len(new) <= MAX_SESSION
      BY <1>2, <1>12, <2>3 DEF K11!SessionsAssumption
    <3> QED BY <1>1, <1>5, <2>3, <2>4, <3>1 DEF TableInv, TableTypes, K11!nbActiveSessions
  <2>6. InOrder(sessionInfos)'
    BY <2>3, <2>4 DEF InOrder
  <2>7. K11!Addresses(new) = K11!Entered'
    <3>1. K11!Addresses(new) = K11!Addresses(sessionInfos) \cup {s}
      <4>1. /\ K11!Addresses(new) = {e.session : e \in Contents(new)}
            /\ K11!Addresses(sessionInfos) = {e.session : e \in Contents(sessionInfos)}
        BY <1>2, <2>3, AddressesOfContents
      <4>2. [session |-> s, name |-> name].session = s
        OBVIOUS
      <4> QED BY <2>3, <4>1, <4>2
    <3> QED BY <1>10, <2>1, <3>1
  <2>8. \A e \in Contents(new) : e.name = opened[e.session]
    BY <1>6, <2>1, <2>3
  <2>9. ContentsInv'
    BY <1>1, <2>4, <2>7, <2>8 DEF ContentsInv, K11!Addresses, Contents
  <2> QED BY <1>9, <2>5, <2>6, <2>9 DEF TableInv
<1> QED BY <1>11, <1>12

\* The session is destroyed, and its entry still there.
LEMMA DestructorKeeps ==
  ASSUME K11!SessionsAssumption, TableInv, NEW t \in Threads, NEW s \in Sessions,
         K11!KSession__dtor_hook(t, s)
  PROVE  TableInv'
<1>1. /\ thread[t] = K11!Idle /\ s \in live /\ ~K11!Busy(s, {"hook", "add", "request"})
      /\ live' = live \ {s}
      /\ thread' = IF s \in custom
                   THEN [thread EXCEPT ![t] = [at |-> "remove", session |-> s]]
                   ELSE thread
      /\ sessionInfos' = sessionInfos /\ custom' = custom /\ opened' = opened
  BY DEF K11!KSession__dtor_hook
<1>2. /\ live \in SUBSET Sessions /\ custom \in SUBSET Sessions
      /\ thread \in [Threads -> ThreadStates] /\ sessionInfos \in Seq(K11!Entries)
  BY DEF TableInv, TableTypes
<1>3. \A u \in Threads : thread'[u] = IF u = t /\ s \in custom
                                      THEN [at |-> "remove", session |-> s] ELSE thread[u]
  BY <1>1, <1>2
<1>4. thread' \in [Threads -> ThreadStates]
  <2>1. [at |-> "remove", session |-> s] \in ThreadStates
    BY DEF ThreadStates
  <2> QED BY <1>1, <1>2, <2>1
<1>5. TableTypes'
  BY <1>1, <1>2, <1>4 DEF TableInv, TableTypes, K11!nbActiveSessions
<1>6. thread[t].at = "idle"
  BY <1>1 DEF K11!Idle
<1>7. \A u \in Threads : Opening(u) => thread[u].session # s
  BY <1>1 DEF Opening, K11!Busy
<1>8. \A u \in Threads : thread[u].at = "remove" => thread[u].session # s /\ u # t
  BY <1>1, <1>6 DEF TableInv, ClosingInv
<1>9. \A u \in Threads : /\ Opening(u)' <=> Opening(u)
                         /\ Opening(u) => thread'[u] = thread[u]
                         /\ thread[u].at = "remove" => thread'[u] = thread[u]
                         /\ thread'[u].at = "remove" =>
                              \/ thread'[u] = thread[u] /\ thread[u].at = "remove"
                              \/ u = t /\ s \in custom /\ thread'[u].session = s
  BY <1>3, <1>6 DEF Opening
<1>10. OpeningInv'
  BY <1>1, <1>7, <1>9 DEF TableInv, OpeningInv
<1>11. ClosingInv'
  BY <1>1, <1>9 DEF TableInv, ClosingInv
<1>12. AloneInv'
  <2> SUFFICES ASSUME NEW u \in Threads, NEW v \in Threads, u # v,
                      \/ Opening(u)' /\ Opening(v)'
                      \/ thread'[u].at = "remove" /\ thread'[v].at = "remove"
               PROVE  thread'[u].session # thread'[v].session
    BY DEF AloneInv
  <2>1. CASE Opening(u)' /\ Opening(v)'
    BY <1>9, <2>1 DEF TableInv, AloneInv
  <2>2. CASE thread'[u].at = "remove" /\ thread'[v].at = "remove"
    BY <1>8, <1>9, <2>2 DEF TableInv, AloneInv
  <2> QED BY <2>1, <2>2
<1>13. K11!Entered' = K11!Entered
  <2>1. ASSUME NEW r \in Sessions, r # s \/ s \notin custom
        PROVE  K11!Busy(r, {"remove"})' <=> K11!Busy(r, {"remove"})
    BY <1>9, <2>1 DEF K11!Busy
  <2>2. s \in custom => K11!Busy(s, {"remove"})'
    BY <1>3 DEF K11!Busy
  <2>3. ASSUME NEW r \in Sessions
        PROVE  K11!Busy(r, {"add"})' <=> K11!Busy(r, {"add"})
    BY <1>9 DEF K11!Busy, Opening
  <2>4. ~K11!Busy(s, {"add"})
    BY <1>7 DEF K11!Busy, Opening
  <2>5. s \notin custom => ~K11!Busy(s, {"remove"})
    BY <1>8 DEF K11!Busy
  <2> HIDE DEF K11!Busy
  <2> QED BY <1>1, <1>2, <2>1, <2>2, <2>3, <2>4, <2>5 DEF K11!Entered
<1>14. InOrder(sessionInfos)' /\ ContentsInv'
  BY <1>1, <1>13 DEF TableInv, ContentsInv, InOrder, K11!Addresses, Contents,
         K11!nbActiveSessions
<1> QED BY <1>5, <1>10, <1>11, <1>12, <1>14 DEF TableInv

\* The entry of a destroyed session is removed.
LEMMA RemoveKeeps ==
  ASSUME K11!SessionsAssumption, TableInv, NEW t \in Threads, K11!SessionInfo_Remove(t)
  PROVE  TableInv'
<1>0. PICK s : s = thread[t].session
  OBVIOUS
<1>1. /\ thread[t].at = "remove" /\ sessionInfos' = K11!Removed(sessionInfos, s)
      /\ thread' = [thread EXCEPT ![t] = K11!Idle]
      /\ live' = live /\ custom' = custom /\ opened' = opened
  BY <1>0 DEF K11!SessionInfo_Remove
<1>2. /\ live \in SUBSET Sessions /\ custom \in SUBSET Sessions
      /\ thread \in [Threads -> ThreadStates] /\ sessionInfos \in Seq(K11!Entries)
      /\ Len(sessionInfos) \in Nat /\ Len(sessionInfos) <= MAX_SESSION
      /\ InOrder(sessionInfos)
  BY DEF TableInv, TableTypes, K11!nbActiveSessions
<1>3. s \in Sessions
  BY <1>0, <1>1, <1>2 DEF ThreadStates, K11!Idle
<1>4. \A u \in Threads : thread'[u] = IF u = t THEN K11!Idle ELSE thread[u]
  BY <1>1, <1>2
<1>5. thread' \in [Threads -> ThreadStates]
  BY <1>1, <1>2 DEF ThreadStates
<1>6. s \notin live
  BY <1>0, <1>1 DEF TableInv, ClosingInv
<1>7. \A u \in Threads : u # t /\ thread[u].at = "remove" => thread[u].session # s
  BY <1>0, <1>1 DEF TableInv, AloneInv
<1>8. K11!Idle.at = "idle"
  BY DEF K11!Idle
<1>9. OpeningInv' /\ ClosingInv' /\ AloneInv'
  <2>2. \A u \in Threads : /\ Opening(u)' => Opening(u) /\ thread'[u] = thread[u]
                           /\ thread'[u].at = "remove"
                                => thread[u].at = "remove" /\ thread'[u] = thread[u]
    BY <1>4, <1>8 DEF Opening
  <2>3. OpeningInv'
    BY <1>1, <2>2 DEF TableInv, OpeningInv
  <2>4. ClosingInv'
    BY <1>1, <2>2 DEF TableInv, ClosingInv
  <2>5. AloneInv'
    BY <2>2 DEF TableInv, AloneInv
  <2> QED BY <2>3, <2>4, <2>5
<1>10. K11!Entered' = K11!Entered \ {s} /\ s \in K11!Entered
  <2>1. ASSUME NEW r \in Sessions, r # s
        PROVE  K11!Busy(r, {"remove"})' <=> K11!Busy(r, {"remove"})
    BY <1>0, <1>4, <1>8, <2>1 DEF K11!Busy
  <2>2. ASSUME NEW r \in Sessions
        PROVE  K11!Busy(r, {"add"})' <=> K11!Busy(r, {"add"})
    BY <1>1, <1>4, <1>8 DEF K11!Busy
  <2>3. ~K11!Busy(s, {"remove"})'
    BY <1>4, <1>7, <1>8 DEF K11!Busy
  <2>4. K11!Busy(s, {"remove"})
    BY <1>0, <1>1 DEF K11!Busy
  <2> HIDE DEF K11!Busy
  <2> QED BY <1>1, <1>2, <1>3, <1>6, <2>1, <2>2, <2>3, <2>4 DEF K11!Entered
<1>11. CASE Len(sessionInfos) = MAX_SESSION
  <2>1. sessionInfos' = sessionInfos
    BY <1>1, <1>11 DEF K11!Removed
  <2>2. TableTypes'
    BY <1>1, <1>5, <2>1 DEF TableInv, TableTypes, K11!nbActiveSessions
  <2>3. InOrder(sessionInfos)' /\ ContentsInv'
    BY <1>2, <1>11, <2>1 DEF InOrder, ContentsInv, K11!nbActiveSessions
  <2> QED BY <1>9, <2>2, <2>3 DEF TableInv
<1>12. CASE Len(sessionInfos) # MAX_SESSION
  <2>1. /\ K11!Addresses(sessionInfos) = K11!Entered
        /\ \A e \in Contents(sessionInfos) : e.name = opened[e.session]
    BY <1>12 DEF TableInv, ContentsInv, K11!nbActiveSessions
  <2>2. PICK new : new = K11!Removed(sessionInfos, s)
    OBVIOUS
  <2>3. /\ new \in Seq(K11!Entries) /\ Len(new) = Len(sessionInfos) - 1 /\ InOrder(new)
        /\ Contents(new) = {e \in Contents(sessionInfos) : e.session # s}
    BY <1>2, <1>3, <1>10, <1>12, <2>1, <2>2, RemovedGives
  <2>4. sessionInfos' = new
    BY <1>1, <2>2
  <2>5. TableTypes'
    <3>1. Len(new) <= MAX_SESSION
      BY <1>2, <2>3 DEF K11!SessionsAssumption
    <3> QED BY <1>1, <1>5, <2>3, <2>4, <3>1 DEF TableInv, TableTypes, K11!nbActiveSessions
  <2>6. InOrder(sessionInfos)'
    BY <2>3, <2>4 DEF InOrder
  <2>7. K11!Addresses(new) = K11!Entered'
    <3>1. K11!Addresses(new) = K11!Addresses(sessionInfos) \ {s}
      BY <1>2, <2>3, AddressesOfContents
    <3> QED BY <1>10, <2>1, <3>1
  <2>8. \A e \in Contents(new) : e.name = opened[e.session]
    BY <2>1, <2>3
  <2>9. ContentsInv'
    BY <1>1, <2>4, <2>7, <2>8 DEF ContentsInv, K11!Addresses, Contents
  <2> QED BY <1>9, <2>5, <2>6, <2>9 DEF TableInv
<1> QED BY <1>11, <1>12

\* A pointer into the table.
LEMMA FoundAreSlots ==
  ASSUME K11!SessionsAssumption, TableInv
  PROVE  /\ \A s \in Sessions : K11!Found(s) \in SUBSET Nat
         /\ \A name \in Names : K11!FoundFirst(name) \in SUBSET Nat
<1>1. sessionInfos \in Seq(K11!Entries) /\ InOrder(sessionInfos) /\ K11!nbActiveSessions \in Nat
  BY DEF TableInv, TableTypes, K11!nbActiveSessions
<1>2. ASSUME NEW s \in Sessions PROVE K11!Found(s) \in SUBSET Nat
  <2>1. K11!FindClosestSlot(sessionInfos, s) \in Nat
    <3>1. PlaceOf(sessionInfos, s, K11!FindClosestSlot(sessionInfos, s))
      BY <1>1, SearchFinds
    <3> QED BY <1>1, <3>1 DEF PlaceOf
  <2> QED BY <2>1 DEF K11!Found
<1>3. ASSUME NEW name \in Names PROVE K11!FoundFirst(name) \in SUBSET Nat
  BY <1>1 DEF K11!FoundFirst
<1> QED BY <1>2, <1>3

\* The table is empty at first.
LEMMA TableInit ==
  ASSUME K11!SessionsAssumption, K11!Init
  PROVE  TableInv
<1>1. /\ sessionInfos = <<>> /\ live = {} /\ custom = {}
      /\ opened = [s \in Sessions |-> NoName] /\ thread = [t \in Threads |-> K11!Idle]
  BY DEF K11!Init
<1>2. Len(sessionInfos) = 0 /\ K11!Idle.at = "idle"
  BY <1>1 DEF K11!Idle
<1>3. TableTypes
  BY <1>1, <1>2 DEF TableTypes, ThreadStates, K11!nbActiveSessions, K11!SessionsAssumption
<1>4. OpeningInv /\ ClosingInv /\ AloneInv
  BY <1>1, <1>2 DEF OpeningInv, ClosingInv, AloneInv, Opening
<1>5. InOrder(sessionInfos)
  BY <1>2 DEF InOrder
<1>6. ContentsInv
  <2>1. K11!Addresses(sessionInfos) = {} /\ Contents(sessionInfos) = {}
    BY <1>1, <1>2 DEF K11!Addresses, Contents
  <2>2. K11!Entered = {}
    BY <1>1, <1>2 DEF K11!Entered, K11!Busy
  <2> QED BY <2>1, <2>2 DEF ContentsInv
<1> QED BY <1>3, <1>4, <1>5, <1>6 DEF TableInv

\* Every step keeps the invariant.
LEMMA TableNext ==
  ASSUME K11!SessionsAssumption, ~PromptReuse, TableInv, [K11!Next]_(K11!vars)
  PROVE  TableInv'
<1>0. thread \in [Threads -> ThreadStates] /\ K11!Idle \in ThreadStates /\ Quiet(K11!Idle)
  BY DEF TableInv, TableTypes, ThreadStates, Quiet, K11!Idle
<1>1. ASSUME NEW t \in Threads, NEW s \in Sessions, NEW name \in Names,
             K11!ConnectToPortHook(t, s, name)
      PROVE  TableInv'
  <2>1. /\ K11!Create(s, name) /\ thread[t] = K11!Idle
        /\ thread' = [thread EXCEPT ![t] = [at |-> "hook", session |-> s, name |-> name]]
        /\ sessionInfos' = sessionInfos
    BY <1>1 DEF K11!ConnectToPortHook
  <2>2. [at |-> "hook", session |-> s, name |-> name] \in ThreadStates
    BY DEF ThreadStates
  <2>3. /\ thread' \in [Threads -> ThreadStates]
        /\ \A u \in Threads \ {t} : thread'[u] = thread[u]
        /\ thread'[t] = [at |-> "hook", session |-> s, name |-> name]
        /\ Quiet(thread[t])
    BY <1>0, <2>1, <2>2
  <2> QED BY <2>1, <2>3, CreateKeeps
<1>2. ASSUME NEW s \in Sessions, K11!OpenOther(s)
      PROVE  TableInv'
  <2>1. K11!Create(s, NoName) /\ thread' = thread /\ sessionInfos' = sessionInfos
    BY <1>2 DEF K11!OpenOther
  <2> QED BY <1>0, <2>1, CreateKeeps
<1>3. ASSUME NEW t \in Threads, NEW s \in Sessions, NEW name \in Names,
             K11!GetServiceHandle(t, s, name)
      PROVE  TableInv'
  <2> DEFINE next == IF K11!Treated(t) THEN [at |-> "hook", session |-> s, name |-> name]
                     ELSE K11!Idle
  <2>1. /\ K11!Create(s, name) /\ thread[t].at = "request"
        /\ thread' = [thread EXCEPT ![t] = next]
        /\ sessionInfos' = sessionInfos
    BY <1>3 DEF K11!GetServiceHandle
  <2>2. [at |-> "hook", session |-> s, name |-> name] \in ThreadStates
    BY DEF ThreadStates
  <2>3. /\ next \in ThreadStates
        /\ Quiet(next) \/ next = [at |-> "hook", session |-> s, name |-> name]
    BY <1>0, <2>2
  <2> HIDE DEF next
  <2>4. /\ thread' \in [Threads -> ThreadStates]
        /\ \A u \in Threads \ {t} : thread'[u] = thread[u]
        /\ thread'[t] = next
        /\ Quiet(thread[t])
    BY <1>0, <2>1, <2>3 DEF Quiet
  <2> QED BY <2>1, <2>3, <2>4, CreateKeeps
<1>4. ASSUME NEW t \in Threads, NEW s \in Sessions, NEW header \in Headers,
             K11!BeginRequest(t, s, header)
      PROVE  TableInv'
  <2> DEFINE next == [at |-> "request", session |-> s, header |-> header, info |-> K11!Found(s)]
  <2>1. /\ thread[t] = K11!Idle /\ thread' = [thread EXCEPT ![t] = next]
        /\ UNCHANGED <<sessionInfos, live, custom, opened>>
    BY <1>4 DEF K11!BeginRequest
  <2>2. next \in ThreadStates /\ Quiet(next)
    BY FoundAreSlots DEF ThreadStates, Quiet
  <2> HIDE DEF next
  <2> QED BY <1>0, <2>1, <2>2, QuietKeeps
<1>5. ASSUME NEW t \in Threads, K11!FinishRequest(t) \/ K11!FinishSteal(t)
      PROVE  TableInv'
  <2>1. /\ Quiet(thread[t]) /\ thread' = [thread EXCEPT ![t] = K11!Idle]
        /\ UNCHANGED <<sessionInfos, live, custom, opened>>
    BY <1>5 DEF K11!FinishRequest, K11!FinishSteal, Quiet
  <2> QED BY <1>0, <2>1, QuietKeeps
<1>6. ASSUME NEW t \in Threads, NEW name \in Names, K11!BeginSteal(t, name)
      PROVE  TableInv'
  <2> DEFINE next == [at |-> "steal", session |-> NoName, name |-> name,
                      info |-> K11!FoundFirst(name)]
  <2>1. /\ thread[t] = K11!Idle /\ thread' = [thread EXCEPT ![t] = next]
        /\ UNCHANGED <<sessionInfos, live, custom, opened>>
    BY <1>6 DEF K11!BeginSteal
  <2>2. next \in ThreadStates /\ Quiet(next)
    BY FoundAreSlots DEF ThreadStates, Quiet
  <2> HIDE DEF next
  <2> QED BY <1>0, <2>1, <2>2, QuietKeeps
<1>7. CASE UNCHANGED K11!vars
  <2>1. UNCHANGED <<sessionInfos, live, custom, opened, thread>>
    BY <1>7 DEF K11!vars
  <2>2. TableTypes' /\ OpeningInv' /\ ClosingInv' /\ AloneInv'
    BY <2>1 DEF TableInv, TableTypes, OpeningInv, ClosingInv, AloneInv, Opening,
           K11!nbActiveSessions
  <2>3. K11!Entered' = K11!Entered
    BY <2>1 DEF K11!Entered, K11!Busy
  <2>4. InOrder(sessionInfos)' /\ ContentsInv'
    BY <2>1, <2>3 DEF TableInv, InOrder, ContentsInv, K11!Addresses, Contents,
           K11!nbActiveSessions
  <2> QED BY <2>2, <2>4 DEF TableInv
<1>8. ASSUME NEW t \in Threads, K11!Step(t) PROVE TableInv'
  BY <1>1, <1>3, <1>4, <1>5, <1>6, <1>8, ChangeVtableKeeps, AddKeeps, DestructorKeeps,
     RemoveKeeps DEF K11!Step
<1> QED BY <1>2, <1>7, <1>8 DEF K11!Next

\* The cardinality of K11Sessions is that of FiniteSets.
LEMMA SameCount == \A S : K11!Cardinality(S) = Cardinality(S)
  BY DEF K11!Cardinality, Cardinality

\* The invariant is what TableExact says, and more.
LEMMA TableInvSuffices ==
  ASSUME K11!SessionsAssumption, TableInv
  PROVE  K11!TableExact
<1>1. sessionInfos \in Seq(K11!Entries) /\ InOrder(sessionInfos) /\ Len(sessionInfos) \in Nat
  BY DEF TableInv, TableTypes
<1>2. \A i, j \in 1 .. K11!nbActiveSessions :
        i < j => sessionInfos[i].session < sessionInfos[j].session
  BY <1>1 DEF InOrder, K11!nbActiveSessions
<1>3. \A s \in Sessions : K11!FindClosestSlot(sessionInfos, s)
                          = 1 + Cardinality({e \in K11!Addresses(sessionInfos) : e < s})
  BY <1>1, PlaceCounts
<1>4. K11!nbActiveSessions < MAX_SESSION =>
        /\ K11!Addresses(sessionInfos) = K11!Entered
        /\ \A i \in 1 .. K11!nbActiveSessions :
             sessionInfos[i].name = opened[sessionInfos[i].session]
  <2>1. K11!nbActiveSessions < MAX_SESSION => K11!nbActiveSessions # MAX_SESSION
    BY <1>1 DEF K11!SessionsAssumption, K11!nbActiveSessions
  <2> QED BY <2>1 DEF TableInv, ContentsInv, Contents, K11!nbActiveSessions
<1> QED BY <1>2, <1>3, <1>4, SameCount DEF K11!TableExact

(***************************************************************************)
(* The table of sessions (ipc.c) is sorted by address, its binary search   *)
(* finds the place of every address, and until it is full it holds the     *)
(* sessions that were opened and not yet removed, each under the name it   *)
(* was opened by, whatever threads open, use and close meanwhile: if an    *)
(* address is taken again only when its entry is gone.                     *)
(***************************************************************************)
THEOREM TableIsExact ==
  ASSUME K11!SessionsAssumption, ~PromptReuse
  PROVE  K11!Spec => []K11!TableExact
<1>1. K11!Init => TableInv
  BY TableInit
<1>2. TableInv /\ [K11!Next]_(K11!vars) => TableInv'
  BY TableNext
<1>3. TableInv => K11!TableExact
  BY TableInvSuffices
<1> QED BY <1>1, <1>2, <1>3, PTL DEF K11!Spec
=============================================================================
