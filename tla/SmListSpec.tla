----------------------------- MODULE SmListSpec -----------------------------
(* The lists of sm as a state machine: any node may be moved to either end *)
(* of any list.  What sm's modules assume of list.c.                       *)
EXTENDS SmLists

CONSTANTS ListNames, PoolList, PoolOrder

VARIABLE lists

Init == lists = [l \in ListNames |-> IF l = PoolList THEN PoolOrder ELSE <<>>]

Move(node, dst, back) == lists' = moveNode(lists, node, dst, back)

Next ==
  \E node \in Elements(PoolOrder), dst \in ListNames, back \in BOOLEAN :
    Move(node, dst, back)

Spec == Init /\ [][Next]_lists
=============================================================================
