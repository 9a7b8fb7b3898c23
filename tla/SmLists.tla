------------------------------ MODULE SmLists ------------------------------
(* The linked lists of sm (sysmodules/sm/source/list.c), as sequences of   *)
(* the nodes of a fixed pool.  SmListImpl shows that the pointer code does *)
(* to its links what these operators do to the sequences.                  *)
EXTENDS Naturals, Sequences

Elements(s) == {s[i] : i \in DOMAIN s}

\* The nodes of a list that belong to a set, in the order of the list: what a
\* loop over the list collects.
Selected(list, set) ==
  LET Upto[n \in 0 .. Len(list)] ==
        IF n = 0 THEN <<>>
        ELSE IF list[n] \in set THEN Append(Upto[n - 1], list[n])
        ELSE Upto[n - 1]
  IN Upto[Len(list)]

\* The list without one of its nodes.
Without(list, node) ==
  LET i == CHOOSE j \in DOMAIN list : list[j] = node IN
  SubSeq(list, 1, i - 1) \o SubSeq(list, i + 1, Len(list))

\* node->parent.
ParentOf(lists, node) == CHOOSE l \in DOMAIN lists : node \in Elements(lists[l])

\* moveNode does nothing to a node that is in the destination already.
moveNode(lists, node, dst, back) ==
  LET src == ParentOf(lists, node) IN
  IF src = dst THEN lists
  ELSE [lists EXCEPT
          ![src] = Without(@, node),
          ![dst] = IF back THEN Append(@, node) ELSE <<node>> \o @]
=============================================================================
