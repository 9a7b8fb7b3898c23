----------------------------- MODULE SmListImpl -----------------------------
(***************************************************************************)
(* The intrusive doubly linked lists of sm (sysmodules/sm/source/list.c):  *)
(* the nodes of a pool, each with its links and the list it is in.  The    *)
(* assignments of a call are made in the order of the code; each primed    *)
(* name below is the value of a field after the part of the call above it. *)
(***************************************************************************)
EXTENDS Naturals, SmLists

CONSTANTS
  PoolSize,   \* the nodes are 1 .. PoolSize, at increasing addresses
  ListNames,
  PoolList,   \* the list buildList puts the pool in
  Null

ASSUME ListAssumption ==
  /\ PoolSize \in Nat \ {0}
  /\ PoolList \in ListNames
  /\ Null \notin 1 .. PoolSize

Nodes == 1 .. PoolSize

VARIABLES prev, next, parent, first, last

vars == <<prev, next, parent, first, last>>

\* Mutant: the last node is linked to the end of the pool.
buildListPastEnd ==
  /\ prev = [n \in Nodes |-> IF n = 1 THEN Null ELSE n - 1]
  /\ next = [n \in Nodes |-> n + 1]
  /\ parent = [n \in Nodes |-> PoolList]
  /\ first = [l \in ListNames |-> IF l = PoolList THEN 1 ELSE Null]
  /\ last = [l \in ListNames |-> IF l = PoolList THEN PoolSize ELSE Null]

buildList ==
  /\ prev = [n \in Nodes |-> IF n = 1 THEN Null ELSE n - 1]
  /\ next = [n \in Nodes |-> IF n = PoolSize THEN Null ELSE n + 1]
  /\ parent = [n \in Nodes |-> PoolList]
  /\ first = [l \in ListNames |-> IF l = PoolList THEN 1 ELSE Null]
  /\ last = [l \in ListNames |-> IF l = PoolList THEN PoolSize ELSE Null]

\* Mutant: the neighbours keep their links.
SetNothing(field, p, value) == field

\* if(p != NULL) p->field = value
SetIf(field, p, value) == IF p = Null THEN field ELSE [field EXCEPT ![p] = value]

MoveNode(n, dst, back) ==
  LET src == parent[n]
      unlinkedNext == SetIf(next, prev[n], next[n])
      unlinkedPrev == SetIf(prev, next[n], prev[n])
      restFirst == IF n = first[src] THEN [first EXCEPT ![src] = next[n]] ELSE first
      restLast == IF n = last[src] THEN [last EXCEPT ![src] = prev[n]] ELSE last
      newFirst == IF back THEN restFirst[dst] ELSE n
      newLast == IF back THEN n ELSE restLast[dst]
  IN IF src = dst THEN UNCHANGED vars
     ELSE /\ next' = IF back
               THEN [SetIf(unlinkedNext, restLast[dst], n) EXCEPT ![n] = Null]
               ELSE [unlinkedNext EXCEPT ![n] = restFirst[dst]]
          /\ prev' = IF back
               THEN [unlinkedPrev EXCEPT ![n] = restLast[dst]]
               ELSE [SetIf(unlinkedPrev, restFirst[dst], n) EXCEPT ![n] = Null]
          /\ first' = [restFirst EXCEPT ![dst] = IF newFirst = Null THEN newLast ELSE newFirst]
          /\ last' = [restLast EXCEPT ![dst] = IF newLast = Null THEN newFirst ELSE newLast]
          /\ parent' = [parent EXCEPT ![n] = dst]

\* The first free node, its links kept by allocateNode's memset.
AllocateNode(list, back) ==
  /\ first[PoolList] # Null
  /\ MoveNode(first[PoolList], list, back)

Init == buildList

Next ==
  \/ \E n \in Nodes, dst \in ListNames, back \in BOOLEAN : MoveNode(n, dst, back)
  \/ \E list \in ListNames, back \in BOOLEAN : AllocateNode(list, back)

Spec == Init /\ [][Next]_vars

-----------------------------------------------------------------------------
(* Properties                                                              *)

\* Type invariant of the links.
TypeOK ==
  /\ prev \in [Nodes -> Nodes \cup {Null}]
  /\ next \in [Nodes -> Nodes \cup {Null}]
  /\ parent \in [Nodes -> ListNames]
  /\ first \in [ListNames -> Nodes \cup {Null}]
  /\ last \in [ListNames -> Nodes \cup {Null}]

\* At most count nodes from node on, along the links.
Follow[links \in [Nodes -> Nodes \cup {Null}], node \in Nodes \cup {Null}, count \in Nat] ==
  IF node = Null \/ count = 0 THEN <<>>
  ELSE <<node>> \o Follow[links, links[node], count - 1]

\* More steps than there are nodes would show a cycle.
Forward(l) == Follow[next, first[l], PoolSize + 1]
Backward(l) == Follow[prev, last[l], PoolSize + 1]

Reversed(s) == [i \in DOMAIN s |-> s[Len(s) + 1 - i]]

\* Each list reads the same in both directions and holds the nodes whose
\* parent it is: an interrupted or doubled unlinking in moveNode would leave
\* the two directions, or the parent field, in disagreement.
LinksConsistent ==
  \A l \in ListNames :
    /\ Backward(l) = Reversed(Forward(l))
    /\ Elements(Forward(l)) = {n \in Nodes : parent[n] = l}

\* Nothing, of no use as lists, when the two directions disagree.
Lists == INSTANCE SmListSpec WITH
  PoolOrder <- [i \in Nodes |-> i],
  lists <- IF LinksConsistent THEN [l \in ListNames |-> Forward(l)] ELSE Null

\* The pointer assignments of list.c keep sequences that read the same in both
\* directions and change as the models of sm's loop and of its process table
\* assume.
ListsAreSequences == Lists!Spec
=============================================================================
