--------------------------- MODULE SmLists_proofs ---------------------------
(***************************************************************************)
(* Lemmas about the lists of sm: what the operators of SmLists, and those  *)
(* of Sequences, do to the elements of a list and to a list that repeats   *)
(* none.                                                                   *)
(***************************************************************************)
EXTENDS SmLists, Integers, FiniteSets, SequenceTheorems, FunctionTheorems, FiniteSetTheorems,
        WellFoundedInduction, NaturalsInduction, TLAPS

(* No node is in the list twice.                                           *)
Distinct(s) == \A i, j \in DOMAIN s : s[i] = s[j] => i = j

(* A set of numbers that is not empty has a least one.                     *)
LEMMA LeastNatural ==
  ASSUME NEW T, T \subseteq Nat, T # {}
  PROVE  \E x \in T : \A y \in T : x <= y
<1>1. \E x \in T : \A y \in T : ~ (<<y, x>> \in OpToRel(<, Nat))
  BY WFMin, NatLessThanWellFounded
<1>2. PICK x \in T : \A y \in T : ~ (<<y, x>> \in OpToRel(<, Nat))
  BY <1>1
<1>3. \A y \in T : ~ (y < x)
  BY <1>2 DEF OpToRel
<1> QED
  BY <1>3

(* The elements of two lists joined, and when such a list repeats none.    *)
LEMMA ElementsOfConcat ==
  ASSUME NEW S, NEW s \in Seq(S), NEW t \in Seq(S)
  PROVE  Elements(s \o t) = Elements(s) \cup Elements(t)
<1>1. /\ s \o t \in Seq(S) /\ Len(s \o t) = Len(s) + Len(t)
      /\ \A i \in 1 .. Len(s) + Len(t) :
           (s \o t)[i] = IF i <= Len(s) THEN s[i] ELSE t[i - Len(s)]
      /\ DOMAIN s = 1 .. Len(s) /\ DOMAIN t = 1 .. Len(t) /\ DOMAIN (s \o t) = 1 .. Len(s \o t)
      /\ Len(s) \in Nat /\ Len(t) \in Nat
  BY ConcatProperties, LenProperties
<1>2. ASSUME NEW i \in 1 .. Len(t)
      PROVE  t[i] = (s \o t)[Len(s) + i] /\ Len(s) + i \in 1 .. Len(s \o t)
  BY <1>1
<1>3. Elements(t) \subseteq Elements(s \o t)
  <2> SUFFICES ASSUME NEW i \in 1 .. Len(t)
               PROVE  t[i] \in Elements(s \o t)
    BY <1>1 DEF Elements
  <2>1. t[i] = (s \o t)[Len(s) + i] /\ Len(s) + i \in DOMAIN (s \o t)
    BY <1>1, <1>2
  <2> DEFINE u == s \o t
  <2> HIDE DEF u
  <2>2. t[i] = u[Len(s) + i] /\ Len(s) + i \in DOMAIN u
    BY <2>1 DEF u
  <2>3. t[i] \in Elements(u)
    BY <2>2 DEF Elements
  <2> QED
    BY <2>3 DEF u
<1>4. Elements(s) \subseteq Elements(s \o t)
  BY <1>1 DEF Elements
<1>5. Elements(s \o t) \subseteq Elements(s) \cup Elements(t)
  BY <1>1 DEF Elements
<1> QED
  BY <1>3, <1>4, <1>5

LEMMA DistinctConcat ==
  ASSUME NEW S, NEW s \in Seq(S), NEW t \in Seq(S)
  PROVE  Distinct(s \o t) <=>
           Distinct(s) /\ Distinct(t) /\ Elements(s) \cap Elements(t) = {}
<1>1. /\ s \o t \in Seq(S) /\ Len(s \o t) = Len(s) + Len(t)
      /\ \A i \in 1 .. Len(s) + Len(t) :
           (s \o t)[i] = IF i <= Len(s) THEN s[i] ELSE t[i - Len(s)]
      /\ DOMAIN s = 1 .. Len(s) /\ DOMAIN t = 1 .. Len(t) /\ DOMAIN (s \o t) = 1 .. Len(s \o t)
      /\ Len(s) \in Nat /\ Len(t) \in Nat
  BY ConcatProperties, LenProperties
<1> DEFINE u == s \o t
<1>2. ASSUME NEW i \in 1 .. Len(t)
      PROVE  t[i] = u[Len(s) + i] /\ Len(s) + i \in 1 .. Len(u)
  BY <1>1
<1>3. ASSUME NEW i \in 1 .. Len(s)
      PROVE  s[i] = u[i] /\ i \in 1 .. Len(u)
  BY <1>1
<1> HIDE DEF u
<1>4. ASSUME Distinct(u)
      PROVE  Distinct(s) /\ Distinct(t) /\ Elements(s) \cap Elements(t) = {}
  <2>1. Distinct(s)
    BY <1>1, <1>3, <1>4 DEF Distinct, u
  <2>2. Distinct(t)
    <3> SUFFICES ASSUME NEW i \in 1 .. Len(t), NEW j \in 1 .. Len(t), t[i] = t[j]
                 PROVE  i = j
      BY <1>1 DEF Distinct
    <3>1. /\ Len(s) + i \in DOMAIN u /\ Len(s) + j \in DOMAIN u
          /\ u[Len(s) + i] = u[Len(s) + j]
      BY <1>1, <1>2 DEF u
    <3>2. Len(s) + i = Len(s) + j
      BY <1>4, <3>1 DEF Distinct
    <3> QED
      BY <1>1, <3>2
  <2>3. Elements(s) \cap Elements(t) = {}
    <3>1. SUFFICES ASSUME NEW i \in 1 .. Len(s), NEW j \in 1 .. Len(t), s[i] = t[j]
                   PROVE  FALSE
      BY <1>1 DEF Elements
    <3>2. i = Len(s) + j
      BY <1>1, <1>2, <1>3, <1>4, <3>1 DEF Distinct, u
    <3> QED
      BY <1>1, <3>2
  <2> QED
    BY <2>1, <2>2, <2>3
<1>5. ASSUME Distinct(s), Distinct(t), Elements(s) \cap Elements(t) = {}
      PROVE  Distinct(u)
  <2>1. \A i \in 1 .. Len(s), j \in 1 .. Len(t) : s[i] # t[j]
    BY <1>1, <1>5 DEF Elements
  <2> SUFFICES ASSUME NEW i \in 1 .. Len(s) + Len(t), NEW j \in 1 .. Len(s) + Len(t), u[i] = u[j]
               PROVE  i = j
    BY <1>1 DEF Distinct, u
  <2>2. CASE i <= Len(s) /\ j <= Len(s)
    BY <1>1, <1>5, <2>2 DEF Distinct, u
  <2>3. CASE i > Len(s) /\ j > Len(s)
    <3>1. i - Len(s) \in 1 .. Len(t) /\ j - Len(s) \in 1 .. Len(t)
      BY <1>1, <2>3
    <3>2. t[i - Len(s)] = t[j - Len(s)]
      BY <1>1, <2>3 DEF u
    <3> QED
      BY <1>1, <1>5, <3>1, <3>2 DEF Distinct
  <2>4. CASE i <= Len(s) /\ j > Len(s)
    BY <1>1, <2>1, <2>4 DEF u
  <2>5. CASE i > Len(s) /\ j <= Len(s)
    BY <1>1, <2>1, <2>5 DEF u
  <2> QED
    BY <1>1, <2>2, <2>3, <2>4, <2>5
<1> QED
  BY <1>4, <1>5 DEF u

(* A list of one node.                                                     *)
LEMMA ElementsOfSingle ==
  ASSUME NEW x
  PROVE  Elements(<<x>>) = {x} /\ Distinct(<<x>>)
  BY DEF Elements, Distinct

(* Taking the first node off a list.                                       *)
LEMMA HeadAndTail ==
  ASSUME NEW S, NEW s \in Seq(S), s # <<>>
  PROVE  /\ Elements(s) = {Head(s)} \cup Elements(Tail(s))
         /\ Distinct(s) => Distinct(Tail(s)) /\ Head(s) \notin Elements(Tail(s))
<1>1. /\ Tail(s) \in Seq(S) /\ Len(Tail(s)) = Len(s) - 1
      /\ \A i \in 1 .. Len(Tail(s)) : Tail(s)[i] = s[i + 1]
      /\ Len(s) \in Nat \ {0} /\ DOMAIN s = 1 .. Len(s)
      /\ DOMAIN Tail(s) = 1 .. Len(Tail(s))
  BY HeadTailProperties, LenProperties, EmptySeq
<1>2. Head(s) = s[1]
  OBVIOUS
<1> DEFINE t == Tail(s)
<1> HIDE DEF t
<1>3. ASSUME NEW i \in 1 .. Len(s), i # 1
      PROVE  i - 1 \in 1 .. Len(t) /\ s[i] = t[i - 1]
  BY <1>1, <1>3 DEF t
<1>4. Elements(s) \subseteq {Head(s)} \cup Elements(t)
  <2> SUFFICES ASSUME NEW i \in 1 .. Len(s), i # 1
               PROVE  s[i] \in Elements(t)
    BY <1>1, <1>2 DEF Elements
  <2>1. i - 1 \in DOMAIN t /\ s[i] = t[i - 1]
    BY <1>1, <1>3 DEF t
  <2> QED
    BY <2>1 DEF Elements
<1>5. Elements(t) \subseteq Elements(s)
  BY <1>1 DEF Elements, t
<1>6. Head(s) \in Elements(s)
  BY <1>1, <1>2 DEF Elements
<1>7. ASSUME Distinct(s)
      PROVE  Distinct(t) /\ Head(s) \notin Elements(t)
  <2>1. Distinct(t)
    <3> SUFFICES ASSUME NEW i \in 1 .. Len(t), NEW j \in 1 .. Len(t), t[i] = t[j]
                 PROVE  i = j
      BY <1>1 DEF Distinct, t
    <3>1. s[i + 1] = s[j + 1] /\ i + 1 \in 1 .. Len(s) /\ j + 1 \in 1 .. Len(s)
      BY <1>1 DEF t
    <3> QED
      BY <1>1, <1>7, <3>1 DEF Distinct
  <2>2. Head(s) \notin Elements(t)
    <3> SUFFICES ASSUME NEW i \in 1 .. Len(t), t[i] = s[1]
                 PROVE  FALSE
      BY <1>1, <1>2 DEF Elements, t
    <3>1. s[i + 1] = s[1] /\ i + 1 \in 1 .. Len(s) /\ 1 \in 1 .. Len(s)
      BY <1>1 DEF t
    <3> QED
      BY <1>1, <1>7, <3>1 DEF Distinct
  <2> QED
    BY <2>1, <2>2
<1> QED
  BY <1>4, <1>5, <1>6, <1>7 DEF t

(* Taking any node off a list leaves the others, once each (list.c).       *)
LEMMA WithoutProperties ==
  ASSUME NEW S, NEW s \in Seq(S), NEW e \in Elements(s), Distinct(s)
  PROVE  /\ Without(s, e) \in Seq(S)
         /\ Elements(Without(s, e)) = Elements(s) \ {e}
         /\ Distinct(Without(s, e))
<1> DEFINE k == CHOOSE j \in DOMAIN s : s[j] = e
           t == SubSeq(s, 1, k - 1)
           u == SubSeq(s, k + 1, Len(s))
<1>1. /\ DOMAIN s = 1 .. Len(s) /\ Len(s) \in Nat
      /\ k \in 1 .. Len(s) /\ s[k] = e
  BY LenProperties DEF Elements
<1> HIDE DEF k
<1>2. /\ t \in Seq(S) /\ Len(t) = k - 1
      /\ \A i \in 1 .. k - 1 : t[i] = s[i]
  <2>1. \A i \in 1 .. k - 1 : s[i] \in S
    BY <1>1, ElementOfSeq
  <2> QED
    BY <1>1, <2>1, SubSeqProperties
<1>3. /\ u \in Seq(S) /\ Len(u) = Len(s) - k
      /\ \A i \in 1 .. Len(s) - k : u[i] = s[i + k]
  <2>1. \A i \in k + 1 .. Len(s) : s[i] \in S
    BY <1>1, ElementOfSeq
  <2>2. /\ u \in Seq(S) /\ Len(u) = IF k + 1 <= Len(s) THEN Len(s) - (k + 1) + 1 ELSE 0
        /\ \A i \in 1 .. Len(s) - (k + 1) + 1 : u[i] = s[(k + 1) + i - 1]
    BY <1>1, <2>1, SubSeqProperties
  <2> HIDE DEF u
  <2>3. Len(s) - (k + 1) + 1 = Len(s) - k
    BY <1>1
  <2>4. ASSUME NEW i \in 1 .. Len(s) - k
        PROVE  u[i] = s[i + k]
    <3>1. u[i] = s[(k + 1) + i - 1]
      BY <2>2, <2>3
    <3>2. (k + 1) + i - 1 = i + k
      BY <1>1
    <3> QED
      BY <3>1, <3>2
  <2>5. Len(u) = Len(s) - k
    BY <1>1, <2>2
  <2> QED
    BY <2>2, <2>4, <2>5
<1>4. DOMAIN t = 1 .. Len(t) /\ DOMAIN u = 1 .. Len(u)
  BY <1>2, <1>3, LenProperties
<1> HIDE DEF t, u
<1>5. Without(s, e) = t \o u
  BY DEF Without, k, t, u
<1>6. \A i \in 1 .. Len(s) : i = k \/ i \in 1 .. k - 1 \/ i - k \in 1 .. Len(s) - k
  BY <1>1
<1>7. Elements(t) \cup Elements(u) = Elements(s) \ {e}
  <2>1. Elements(s) \ {e} \subseteq Elements(t) \cup Elements(u)
    <3> SUFFICES ASSUME NEW i \in 1 .. Len(s), s[i] # e
                 PROVE  s[i] \in Elements(t) \cup Elements(u)
      BY <1>1 DEF Elements
    <3>1. CASE i \in 1 .. k - 1
      BY <1>2, <1>4, <3>1 DEF Elements
    <3>2. CASE i - k \in 1 .. Len(s) - k
      <4>1. u[i - k] = s[i]
        BY <1>1, <1>3, <3>2
      <4> QED
        BY <1>3, <1>4, <3>2, <4>1 DEF Elements
    <3> QED
      BY <1>1, <1>6, <3>1, <3>2
  <2>2. Elements(t) \subseteq Elements(s) \ {e}
    BY <1>1, <1>2, <1>4 DEF Elements, Distinct
  <2>3. Elements(u) \subseteq Elements(s) \ {e}
    <3> SUFFICES ASSUME NEW i \in 1 .. Len(s) - k
                 PROVE  u[i] \in Elements(s) \ {e}
      BY <1>3, <1>4 DEF Elements
    <3>1. i + k \in 1 .. Len(s) /\ i + k # k /\ u[i] = s[i + k]
      BY <1>1, <1>3
    <3> QED
      BY <1>1, <3>1 DEF Elements, Distinct
  <2> QED
    BY <2>1, <2>2, <2>3
<1>8. Distinct(t)
  BY <1>1, <1>2, <1>4 DEF Distinct
<1>9. Distinct(u)
  <2> SUFFICES ASSUME NEW i \in 1 .. Len(s) - k, NEW j \in 1 .. Len(s) - k, u[i] = u[j]
               PROVE  i = j
    BY <1>3, <1>4 DEF Distinct
  <2>1. i + k \in 1 .. Len(s) /\ j + k \in 1 .. Len(s) /\ s[i + k] = s[j + k]
    BY <1>1, <1>3
  <2> QED
    BY <1>1, <2>1 DEF Distinct
<1>10. Elements(t) \cap Elements(u) = {}
  <2> SUFFICES ASSUME NEW i \in 1 .. k - 1, NEW j \in 1 .. Len(s) - k, t[i] = u[j]
               PROVE  FALSE
    BY <1>2, <1>3, <1>4 DEF Elements
  <2>1. i \in 1 .. Len(s) /\ j + k \in 1 .. Len(s) /\ s[i] = s[j + k] /\ i # j + k
    BY <1>1, <1>2, <1>3
  <2> QED
    BY <1>1, <2>1 DEF Distinct
<1>11. t \o u \in Seq(S)
  BY <1>2, <1>3, ConcatProperties
<1>12. Elements(t \o u) = Elements(t) \cup Elements(u)
  BY <1>2, <1>3, ElementsOfConcat
<1>13. Distinct(t \o u)
  BY <1>2, <1>3, <1>8, <1>9, <1>10, DistinctConcat
<1> QED
  BY <1>5, <1>7, <1>11, <1>12, <1>13

(* Adding a node at either end.                                            *)
LEMMA AppendElement ==
  ASSUME NEW S, NEW s \in Seq(S), NEW x \in S
  PROVE  /\ Append(s, x) \in Seq(S)
         /\ Elements(Append(s, x)) = Elements(s) \cup {x}
         /\ Distinct(s) /\ x \notin Elements(s) => Distinct(Append(s, x))
<1> DEFINE one == <<x>>
<1>1. one \in Seq(S) /\ Elements(one) = {x} /\ Distinct(one)
  BY ElementsOfSingle
<1>2. Append(s, x) = s \o one
  BY AppendIsConcat
<1> HIDE DEF one
<1>3. s \o one \in Seq(S)
  BY <1>1, ConcatProperties
<1>4. Elements(s \o one) = Elements(s) \cup {x}
  BY <1>1, ElementsOfConcat
<1>5. Distinct(s \o one) <=> Distinct(s) /\ Distinct(one) /\ Elements(s) \cap Elements(one) = {}
  BY <1>1, DistinctConcat
<1> QED
  BY <1>1, <1>2, <1>3, <1>4, <1>5

LEMMA PrependElement ==
  ASSUME NEW S, NEW s \in Seq(S), NEW x \in S
  PROVE  /\ <<x>> \o s \in Seq(S)
         /\ Elements(<<x>> \o s) = Elements(s) \cup {x}
         /\ Distinct(s) /\ x \notin Elements(s) => Distinct(<<x>> \o s)
<1> DEFINE one == <<x>>
<1>1. one \in Seq(S) /\ Elements(one) = {x} /\ Distinct(one)
  BY ElementsOfSingle
<1> HIDE DEF one
<1>2. one \o s \in Seq(S)
  BY <1>1, ConcatProperties
<1>3. Elements(one \o s) = {x} \cup Elements(s)
  BY <1>1, ElementsOfConcat
<1>4. Distinct(one \o s) <=> Distinct(one) /\ Distinct(s) /\ Elements(one) \cap Elements(s) = {}
  BY <1>1, DistinctConcat
<1> QED
  BY <1>1, <1>2, <1>3, <1>4 DEF one

(* A list that repeats no element is as long as it has elements.           *)
LEMMA CountDistinct ==
  ASSUME NEW S, NEW s \in Seq(S), Distinct(s)
  PROVE  IsFiniteSet(Elements(s)) /\ Cardinality(Elements(s)) = Len(s)
<1>1. Len(s) \in Nat /\ DOMAIN s = 1 .. Len(s) /\ s \in [1 .. Len(s) -> S]
  BY LenProperties
<1>2. s \in [1 .. Len(s) -> Elements(s)]
  BY <1>1 DEF Elements
<1>3. \A a, b \in 1 .. Len(s) : s[a] = s[b] => a = b
  BY <1>1 DEF Distinct
<1>4. \A t \in Elements(s) : \E a \in 1 .. Len(s) : s[a] = t
  BY <1>1 DEF Elements
<1>5. s \in Bijection(1 .. Len(s), Elements(s))
  BY <1>2, <1>3, <1>4, Fun_IsBij
<1>6. ExistsBijection(1 .. Len(s), Elements(s))
  BY <1>5 DEF ExistsBijection
<1>7. IsFiniteSet(1 .. Len(s))
  BY <1>1, FS_Interval
<1> QED
  BY <1>1, <1>6, <1>7, FS_Bijection, FS_CountingElements
(* Induction over the numbers up to n.                                      *)
LEMMA BoundedInduction ==
  ASSUME NEW n \in Nat, NEW T, 0 \in T, \A i \in 1 .. n : i - 1 \in T => i \in T
  PROVE  \A i \in 0 .. n : i \in T
<1> DEFINE Bad == {i \in 0 .. n : i \notin T}
<1>1. SUFFICES ASSUME Bad # {}
               PROVE  FALSE
  OBVIOUS
<1>2. PICK k \in Bad : \A j \in Bad : k <= j
  <2>1. Bad \subseteq Nat
    OBVIOUS
  <2> HIDE DEF Bad
  <2> QED
    BY <1>1, <2>1, LeastNatural
<1>3. k \in 1 .. n
  OBVIOUS
<1>4. k - 1 \in 0 .. n /\ k - 1 \notin Bad
  BY <1>2, <1>3
<1> QED
  BY <1>3, <1>4

(* Definition by recursion over 0 .. n, with what holds of each value: f[i] *)
(* is in D[i] when the first value is and each step leads from a set to the *)
(* next.                                                                    *)
Follows(f, n, base, step, D) ==
  /\ f = [i \in 0 .. n |-> f[i]]
  /\ f[0] = base
  /\ \A i \in 0 .. n : f[i] \in D[i]
  /\ \A i \in 1 .. n : f[i] = step[<<i, f[i - 1]>>]

LEMMA Recursion ==
  ASSUME NEW n \in Nat, NEW D, NEW base \in D[0], NEW step,
         \A i \in 1 .. n : \A d \in D[i - 1] : step[<<i, d>>] \in D[i]
  PROVE  \E f : Follows(f, n, base, step, D)
<1> DEFINE T == {k \in 0 .. n : \E f : Follows(f, k, base, step, D)}
<1>1. 0 \in T
  <2> DEFINE f == [i \in 0 .. 0 |-> base]
  <2>1. f = [i \in 0 .. 0 |-> f[i]]
    OBVIOUS
  <2>2. f[0] = base /\ \A i \in 0 .. 0 : i = 0
    OBVIOUS
  <2> HIDE DEF f
  <2>3. Follows(f, 0, base, step, D)
    BY <2>1, <2>2 DEF Follows
  <2> QED
    BY <2>3
<1>2. ASSUME NEW k \in 1 .. n, k - 1 \in T
      PROVE  k \in T
  <2>1. PICK f : Follows(f, k - 1, base, step, D)
    BY <1>2
  <2> DEFINE new == step[<<k, f[k - 1]>>]
             g == [i \in 0 .. k |-> IF i = k THEN new ELSE f[i]]
  <2>2. /\ g = [i \in 0 .. k |-> g[i]] /\ g[k] = new
        /\ \A i \in 0 .. k - 1 : g[i] = f[i]
    OBVIOUS
  <2> HIDE DEF g
  <2>3. k - 1 \in 0 .. k - 1 /\ 0 \in 0 .. k - 1
    OBVIOUS
  <2>4. new \in D[k]
    BY <2>1, <2>3 DEF Follows
  <2>5. ASSUME NEW i \in 1 .. k
        PROVE  g[i] = step[<<i, g[i - 1]>>]
    <3>1. i - 1 \in 0 .. k - 1
      OBVIOUS
    <3>2. g[i - 1] = f[i - 1]
      BY <2>2, <3>1
    <3>3. CASE i = k
      BY <2>2, <3>2, <3>3
    <3>4. CASE i # k
      <4>1. i \in 1 .. k - 1 /\ i \in 0 .. k - 1
        BY <3>4
      <4>2. f[i] = step[<<i, f[i - 1]>>]
        BY <2>1, <4>1 DEF Follows
      <4> QED
        BY <2>2, <3>2, <4>1, <4>2
    <3> QED
      BY <3>3, <3>4
  <2>6. ASSUME NEW i \in 0 .. k
        PROVE  g[i] \in D[i]
    <3>1. CASE i = k
      BY <2>2, <2>4, <3>1
    <3>2. CASE i # k
      <4>1. i \in 0 .. k - 1
        BY <3>2
      <4> QED
        BY <2>1, <2>2, <4>1 DEF Follows
    <3> QED
      BY <3>1, <3>2
  <2>7. g[0] = base
    BY <2>1, <2>2, <2>3 DEF Follows
  <2>8. Follows(g, k, base, step, D)
    BY <2>2, <2>5, <2>6, <2>7 DEF Follows
  <2> QED
    BY <2>8
<1>3. n \in T
  <2> HIDE DEF T
  <2>1. \A i \in 0 .. n : i \in T
    BY <1>1, <1>2, BoundedInduction
  <2> QED
    BY <2>1
<1> QED
  BY <1>3

(* Taking a node off a list shortens it by one.                             *)
LEMMA WithoutLength ==
  ASSUME NEW S, NEW s \in Seq(S), NEW e \in Elements(s), Distinct(s)
  PROVE  Len(Without(s, e)) = Len(s) - 1
<1>1. Without(s, e) \in Seq(S) /\ Elements(Without(s, e)) = Elements(s) \ {e} /\ Distinct(Without(s, e))
  BY WithoutProperties
<1>2. /\ IsFiniteSet(Elements(s)) /\ Cardinality(Elements(s)) = Len(s)
  BY CountDistinct
<1>3. Cardinality(Elements(s) \ {e}) = Len(Without(s, e))
  BY <1>1, CountDistinct
<1>4. Cardinality(Elements(s) \ {e}) = Cardinality(Elements(s)) - 1
  BY <1>2, FS_RemoveElement
<1> QED
  BY <1>2, <1>3, <1>4

(* The nodes selected from a list are those of the set it has, once each if *)
(* the list has each once.                                                  *)
LEMMA SelectedProperties ==
  ASSUME NEW S, NEW s \in Seq(S), NEW set
  PROVE  /\ Selected(s, set) \in Seq(S)
         /\ Elements(Selected(s, set)) = Elements(s) \cap set
         /\ Distinct(s) => Distinct(Selected(s, set))
<1> DEFINE n == Len(s)
           Front(k) == {s[j] : j \in 1 .. k}
           Collects(k, t) == /\ t \in Seq(S)
                             /\ Elements(t) = Front(k) \cap set
                             /\ Distinct(s) => Distinct(t)
           More(k, t) == IF s[k] \in set THEN Append(t, s[k]) ELSE t
           IsUpto(f) == f = [k \in 0 .. n |->
                               IF k = 0 THEN <<>>
                               ELSE IF s[k] \in set THEN Append(f[k - 1], s[k])
                               ELSE f[k - 1]]
           D == [k \in 0 .. n |-> {t \in Seq(S) : Collects(k, t)}]
           step == [x \in (1 .. n) \X Seq(S) |-> More(x[1], x[2])]
<1>1. n \in Nat /\ DOMAIN s = 1 .. n /\ \A j \in 1 .. n : s[j] \in S
  BY LenProperties, ElementOfSeq
<1>2. Collects(0, <<>>)
  <2>1. <<>> \in Seq(S) /\ Elements(<<>>) = {} /\ Distinct(<<>>) /\ Front(0) = {}
    BY DEF Elements, Distinct
  <2> QED
    BY <2>1
<1>3. ASSUME NEW k \in 1 .. n, NEW t, Collects(k - 1, t)
      PROVE  Collects(k, More(k, t))
  <2>1. Front(k) = Front(k - 1) \cup {s[k]}
    BY <1>1
  <2>2. Distinct(s) => s[k] \notin Front(k - 1)
    BY <1>1 DEF Distinct
  <2>3. /\ t \in Seq(S) /\ Elements(t) = Front(k - 1) \cap set
        /\ Distinct(s) => Distinct(t)
    BY <1>3
  <2>4. /\ Append(t, s[k]) \in Seq(S)
        /\ Elements(Append(t, s[k])) = Elements(t) \cup {s[k]}
        /\ Distinct(t) /\ s[k] \notin Elements(t) => Distinct(Append(t, s[k]))
    BY <1>1, <2>3, AppendElement
  <2> HIDE DEF Front
  <2>5. CASE s[k] \in set
    BY <2>1, <2>2, <2>3, <2>4, <2>5
  <2>6. CASE s[k] \notin set
    BY <2>1, <2>3, <2>6
  <2> QED
    BY <2>5, <2>6
<1> HIDE DEF Collects
<1>4. \E f : IsUpto(f)
  <2>1. <<>> \in D[0]
    BY <1>1, <1>2
  <2>2. \A k \in 1 .. n : k \in 0 .. n /\ k - 1 \in 0 .. n
    BY <1>1
  <2>3. \A k \in 1 .. n, t \in Seq(S) : step[<<k, t>>] = More(k, t)
    OBVIOUS
  <2>4. ASSUME NEW k \in 1 .. n, NEW t \in D[k - 1]
        PROVE  step[<<k, t>>] \in D[k]
    <3>1. t \in Seq(S) /\ Collects(k - 1, t)
      BY <2>2
    <3>2. Collects(k, More(k, t))
      BY <1>3, <3>1
    <3>3. More(k, t) \in Seq(S)
      BY <3>2 DEF Collects
    <3> QED
      BY <2>2, <2>3, <3>1, <3>2, <3>3
  <2>5. \A k \in 0 .. n : D[k] \subseteq Seq(S)
    OBVIOUS
  <2> HIDE DEF D, step, n
  <2>6. PICK f : Follows(f, n, <<>>, step, D)
    BY <1>1, <2>1, <2>4, Recursion
  <2>7. ASSUME NEW k \in 1 .. n
        PROVE  f[k] = More(k, f[k - 1])
    BY <2>2, <2>3, <2>5, <2>6 DEF Follows
  <2>8. f = [k \in 0 .. n |-> f[k]] /\ f[0] = <<>>
    BY <2>6 DEF Follows
  <2>9. ASSUME NEW k \in 0 .. n
        PROVE  f[k] = IF k = 0 THEN <<>> ELSE More(k, f[k - 1])
    <3>1. k # 0 => k \in 1 .. n
      BY <1>1
    <3> QED
      BY <2>7, <2>8, <3>1
  <2>10. IsUpto(f)
    BY <2>8, <2>9
  <2> QED
    BY <2>10
<1> DEFINE u == CHOOSE g : IsUpto(g)
<1>5. IsUpto(u)
  <2> HIDE DEF IsUpto
  <2> QED
    BY <1>4
<1>6. Selected(s, set) = u[n]
  BY DEF Selected
<1> HIDE DEF u
<1>7. u[0] = <<>>
  BY <1>1, <1>5
<1>8. ASSUME NEW k \in 1 .. n
      PROVE  u[k] = More(k, u[k - 1])
  <2>1. k \in 0 .. n /\ k # 0
    BY <1>1
  <2> HIDE DEF n
  <2> QED
    BY <1>5, <2>1
<1> DEFINE T == {k \in 0 .. n : Collects(k, u[k])}
<1>9. n \in T
  <2>1. 0 \in T
    BY <1>1, <1>2, <1>7
  <2>2. \A k \in 1 .. n : k - 1 \in T => k \in T
    <3> SUFFICES ASSUME NEW k \in 1 .. n, k - 1 \in T
                 PROVE  k \in T
      OBVIOUS
    <3>1. Collects(k, More(k, u[k - 1]))
      BY <1>3
    <3>2. k \in 0 .. n
      BY <1>1
    <3> QED
      BY <1>8, <3>1, <3>2
  <2> HIDE DEF T, n
  <2>3. \A k \in 0 .. n : k \in T
    BY <1>1, <2>1, <2>2, BoundedInduction
  <2> QED
    BY <1>1, <2>3
<1>10. Collects(n, u[n])
  BY <1>9
<1>11. Front(n) = Elements(s)
  BY <1>1 DEF Elements
<1> QED
  BY <1>6, <1>10, <1>11 DEF Collects

(* An array without its i-th entry, which the last one replaces (services.c *)
(* and processes.c).                                                        *)
SwapLast(s, i) == SubSeq([s EXCEPT ![i] = s[Len(s)]], 1, Len(s) - 1)

LEMMA SwapLastProperties ==
  ASSUME NEW S, NEW s \in Seq(S), NEW i \in DOMAIN s, Distinct(s)
  PROVE  /\ SwapLast(s, i) \in Seq(S)
         /\ Len(SwapLast(s, i)) = Len(s) - 1
         /\ Distinct(SwapLast(s, i))
         /\ Elements(SwapLast(s, i)) = Elements(s) \ {s[i]}
         /\ \A j \in 1 .. Len(s) - 1 :
              SwapLast(s, i)[j] = IF j = i THEN s[Len(s)] ELSE s[j]
<1>1. /\ Len(s) \in Nat /\ i \in 1 .. Len(s) /\ DOMAIN s = 1 .. Len(s)
      /\ Len(s) \in 1 .. Len(s)
  BY LenProperties
<1> DEFINE n == Len(s)
           t == [s EXCEPT ![i] = s[n]]
           r == SubSeq(t, 1, n - 1)
<1>2. \A j \in 1 .. n : s[j] \in S
  BY ElementOfSeq
<1>3. /\ t \in Seq(S) /\ Len(t) = n
      /\ \A j \in 1 .. n : t[j] = IF j = i THEN s[n] ELSE s[j]
  BY <1>1, <1>2, ExceptSeq
<1> HIDE DEF t
<1>4. /\ r \in Seq(S) /\ Len(r) = n - 1
      /\ \A j \in 1 .. n - 1 : r[j] = IF j = i THEN s[n] ELSE s[j]
  <2>1. \A j \in 1 .. n - 1 : t[j] \in S
    BY <1>1, <1>3, ElementOfSeq
  <2>2. /\ r \in Seq(S) /\ Len(r) = IF 1 <= n - 1 THEN (n - 1) - 1 + 1 ELSE 0
        /\ \A j \in 1 .. (n - 1) - 1 + 1 : r[j] = t[1 + j - 1]
    BY <1>1, <2>1, SubSeqProperties
  <2> HIDE DEF r, n
  <2>5. n \in Nat \ {0} /\ (n - 1) - 1 + 1 = n - 1
    BY <1>1 DEF n
  <2>3. ASSUME NEW j \in 1 .. n - 1
        PROVE  r[j] = IF j = i THEN s[n] ELSE s[j]
    <3>1. r[j] = t[1 + j - 1]
      BY <2>2, <2>5
    <3>2. 1 + j - 1 = j /\ j \in 1 .. n
      BY <2>5
    <3> QED
      BY <1>3, <3>1, <3>2
  <2>4. Len(r) = n - 1
    <3>1. Len(r) = IF 1 <= n - 1 THEN n - 1 ELSE 0
      BY <2>2, <2>5
    <3> QED
      BY <2>5, <3>1
  <2> QED
    BY <2>2, <2>3, <2>4
<1> HIDE DEF r
<1>9. n \in Nat \ {0} /\ DOMAIN s = 1 .. n /\ i \in 1 .. n
  BY <1>1
<1> HIDE DEF n
<1>5. DOMAIN r = 1 .. n - 1
  BY <1>4, <1>9, LenProperties
<1>6. Distinct(r)
  <2> SUFFICES ASSUME NEW j \in 1 .. n - 1, NEW k \in 1 .. n - 1, r[j] = r[k]
               PROVE  j = k
    BY <1>5 DEF Distinct
  <2>1. \A x, y \in 1 .. n : s[x] = s[y] => x = y
    BY <1>9 DEF Distinct
  <2> QED
    BY <1>9, <1>4, <2>1
<1>7. Elements(r) = Elements(s) \ {s[i]}
  <2>1. ASSUME NEW j \in 1 .. n - 1
        PROVE  r[j] \in Elements(s) \ {s[i]}
    BY <1>9, <1>4 DEF Elements, Distinct
  <2>2. ASSUME NEW j \in 1 .. n, s[j] # s[i]
        PROVE  s[j] \in Elements(r)
    <3>1. CASE j = n
      <4>1. i \in 1 .. n - 1 /\ r[i] = s[j]
        BY <1>9, <1>4, <2>2, <3>1
      <4> QED
        BY <1>5, <4>1 DEF Elements
    <3>2. CASE j # n
      <4>1. j \in 1 .. n - 1 /\ r[j] = s[j]
        BY <1>9, <1>4, <2>2, <3>2
      <4> QED
        BY <1>5, <4>1 DEF Elements
    <3> QED
      BY <3>1, <3>2
  <2>3. Elements(r) \subseteq Elements(s) \ {s[i]}
    BY <1>5, <2>1 DEF Elements
  <2>4. Elements(s) \ {s[i]} \subseteq Elements(r)
    BY <1>9, <2>2 DEF Elements
  <2> QED
    BY <2>3, <2>4
<1> QED
  BY <1>4, <1>6, <1>7 DEF SwapLast, r, t, n

(* Lists that are linked through the nodes of a pool: every node is in one   *)
(* list, and there once.                                                    *)
Partition(ls, L, S) ==
  /\ ls \in [L -> Seq(S)]
  /\ \A l \in L : Distinct(ls[l])
  /\ \A l, m \in L : l # m => Elements(ls[l]) \cap Elements(ls[m]) = {}
  /\ \A s \in S : \E l \in L : s \in Elements(ls[l])

(* moveNode keeps the pool partitioned, moves the node and no other one, and *)
(* leaves alone the lists that the node neither leaves nor enters.           *)
MovedTo(ls, new, L, e, dst) ==
  /\ \A l \in L : Elements(new[l]) = IF l = dst THEN Elements(ls[l]) \cup {e}
                                     ELSE Elements(ls[l]) \ {e}
  /\ \A l \in L : l # dst /\ e \notin Elements(ls[l]) => new[l] = ls[l]

LEMMA MoveNode ==
  ASSUME NEW L, NEW S, NEW ls, Partition(ls, L, S), NEW e \in S, NEW dst \in L,
         NEW back \in BOOLEAN
  PROVE  /\ Partition(moveNode(ls, e, dst, back), L, S)
         /\ MovedTo(ls, moveNode(ls, e, dst, back), L, e, dst)
<1> DEFINE src == ParentOf(ls, e)
           new == moveNode(ls, e, dst, back)
<1>1. /\ ls \in [L -> Seq(S)] /\ DOMAIN ls = L
      /\ \A l \in L : Distinct(ls[l]) /\ ls[l] \in Seq(S)
      /\ \A l, m \in L : l # m => Elements(ls[l]) \cap Elements(ls[m]) = {}
  BY DEF Partition
<1>2. src \in L /\ e \in Elements(ls[src])
  BY <1>1 DEF Partition, ParentOf
<1>3. \A l \in L : l # src => e \notin Elements(ls[l])
  BY <1>1, <1>2
<1> HIDE DEF src
<1>4. CASE src = dst
  <2>1. new = ls
    BY <1>4 DEF moveNode, src
  <2>2. MovedTo(ls, ls, L, e, dst)
    BY <1>2, <1>3, <1>4 DEF MovedTo
  <2> QED
    BY <2>1, <2>2
<1>5. CASE src # dst
  <2> DEFINE less == Without(ls[src], e)
             more == IF back THEN Append(ls[dst], e) ELSE <<e>> \o ls[dst]
  <2>1. new = [ls EXCEPT ![src] = less, ![dst] = more]
    BY <1>5 DEF moveNode, src
  <2>2. less \in Seq(S) /\ Elements(less) = Elements(ls[src]) \ {e} /\ Distinct(less)
    BY <1>1, <1>2, WithoutProperties
  <2>3. more \in Seq(S) /\ Elements(more) = Elements(ls[dst]) \cup {e} /\ Distinct(more)
    <3>1. e \notin Elements(ls[dst])
      BY <1>3, <1>5
    <3>2. /\ Append(ls[dst], e) \in Seq(S)
          /\ Elements(Append(ls[dst], e)) = Elements(ls[dst]) \cup {e}
          /\ Distinct(Append(ls[dst], e))
      BY <1>1, <3>1, AppendElement
    <3>3. /\ <<e>> \o ls[dst] \in Seq(S)
          /\ Elements(<<e>> \o ls[dst]) = Elements(ls[dst]) \cup {e}
          /\ Distinct(<<e>> \o ls[dst])
      BY <1>1, <3>1, PrependElement
    <3>4. CASE back
      BY <3>2, <3>4
    <3>5. CASE ~back
      BY <3>3, <3>5
    <3> QED
      BY <3>4, <3>5
  <2> HIDE DEF less, more, new
  <2>4. /\ new \in [L -> Seq(S)] /\ new[src] = less /\ new[dst] = more
        /\ \A l \in L : l # src /\ l # dst => new[l] = ls[l]
    BY <1>1, <1>2, <1>5, <2>1, <2>2, <2>3
  <2>5. \A l \in L : Elements(new[l]) = IF l = dst THEN Elements(ls[l]) \cup {e}
                                        ELSE Elements(ls[l]) \ {e}
    <3> TAKE l \in L
    <3>1. CASE l = dst
      BY <2>3, <2>4, <3>1
    <3>2. CASE l = src
      BY <1>5, <2>2, <2>4, <3>2
    <3>3. CASE l # src /\ l # dst
      BY <1>3, <2>4, <3>3
    <3> QED
      BY <3>1, <3>2, <3>3
  <2>6. MovedTo(ls, new, L, e, dst)
    BY <1>2, <2>4, <2>5 DEF MovedTo
  <2>7. \A l \in L : Distinct(new[l])
    BY <1>1, <2>2, <2>3, <2>4
  <2>8. \A l, m \in L : l # m => Elements(new[l]) \cap Elements(new[m]) = {}
    BY <1>1, <2>5
  <2>9. \A s \in S : \E l \in L : s \in Elements(new[l])
    <3> TAKE s \in S
    <3>1. CASE s = e
      BY <2>5, <3>1
    <3>2. CASE s # e
      <4>1. PICK l \in L : s \in Elements(ls[l])
        BY DEF Partition
      <4>2. s \in Elements(new[l])
        BY <2>5, <3>2, <4>1
      <4> QED
        BY <4>2
    <3> QED
      BY <3>1, <3>2
  <2>10. Partition(new, L, S)
    BY <2>4, <2>7, <2>8, <2>9 DEF Partition
  <2> QED
    BY <2>6, <2>10 DEF new
<1> QED
  BY <1>4, <1>5

(* The list the node leaves.                                                *)
LEMMA MoveNodeSource ==
  ASSUME NEW L, NEW S, NEW ls, Partition(ls, L, S), NEW e \in S, NEW dst \in L,
         NEW src \in L, e \in Elements(ls[src]), src # dst, NEW back
  PROVE  moveNode(ls, e, dst, back)[src] = Without(ls[src], e)
<1>1. ls \in [L -> Seq(S)] /\ DOMAIN ls = L
  BY DEF Partition
<1>2. \A l \in L : e \in Elements(ls[l]) => l = src
  BY DEF Partition
<1>3. ParentOf(ls, e) = src
  BY <1>1, <1>2 DEF ParentOf
<1> QED
  BY <1>1, <1>3 DEF moveNode

(* Moving all the nodes of a list that are in a set to the end of another,  *)
(* in their order.                                                          *)
MovesSelected(ls, new, src, dst, set, rest) ==
  /\ src # dst
  /\ rest \cap Elements(ls[src]) = Elements(ls[src]) \ set
  /\ new = [ls EXCEPT ![src] = Selected(ls[src], rest),
                      ![dst] = ls[dst] \o Selected(ls[src], set)]

SelectedMoved(ls, new, L, src, dst, set) ==
  /\ Elements(new[src]) = Elements(ls[src]) \ set
  /\ Elements(new[dst]) = Elements(ls[dst]) \cup (Elements(ls[src]) \cap set)
  /\ \A l \in L : l # src /\ l # dst => new[l] = ls[l]
  /\ Len(new[dst]) = Len(ls[dst]) + Len(Selected(ls[src], set))

LEMMA MoveSelected ==
  ASSUME NEW L, NEW S, NEW ls, Partition(ls, L, S), NEW src \in L, NEW dst \in L,
         NEW new, NEW set, NEW rest, MovesSelected(ls, new, src, dst, set, rest)
  PROVE  /\ Partition(new, L, S)
         /\ SelectedMoved(ls, new, L, src, dst, set)
<1> USE DEF MovesSelected
<1> DEFINE x == Selected(ls[src], rest)
           y == Selected(ls[src], set)
           z == ls[dst] \o y
<1>1. /\ ls \in [L -> Seq(S)] /\ DOMAIN ls = L
      /\ \A l \in L : Distinct(ls[l]) /\ ls[l] \in Seq(S)
      /\ \A l, m \in L : l # m => Elements(ls[l]) \cap Elements(ls[m]) = {}
  BY DEF Partition
<1>2. x \in Seq(S) /\ Distinct(x) /\ Elements(x) = Elements(ls[src]) \ set
  BY <1>1, SelectedProperties
<1>3. y \in Seq(S) /\ Distinct(y) /\ Elements(y) = Elements(ls[src]) \cap set
  BY <1>1, SelectedProperties
<1> HIDE DEF x, y
<1>4. /\ z \in Seq(S) /\ Distinct(z) /\ Len(z) = Len(ls[dst]) + Len(y)
      /\ Elements(z) = Elements(ls[dst]) \cup (Elements(ls[src]) \cap set)
  <2>1. z \in Seq(S) /\ Len(z) = Len(ls[dst]) + Len(y)
    BY <1>1, <1>3, ConcatProperties
  <2>2. Elements(z) = Elements(ls[dst]) \cup Elements(y)
    BY <1>1, <1>3, ElementsOfConcat
  <2>3. Elements(ls[dst]) \cap Elements(y) = {}
    BY <1>1, <1>3
  <2>4. Distinct(z)
    BY <1>1, <1>3, <2>3, DistinctConcat
  <2> QED
    BY <1>3, <2>1, <2>2, <2>4
<1>5. new = [ls EXCEPT ![src] = x, ![dst] = z]
  BY DEF x, y
<1> HIDE DEF z
<1>6. /\ new \in [L -> Seq(S)] /\ new[src] = x /\ new[dst] = z
      /\ \A l \in L : l # src /\ l # dst => new[l] = ls[l]
  <2>1. ls \in [L -> Seq(S)] /\ x \in Seq(S) /\ z \in Seq(S)
    BY <1>1, <1>2, <1>4
  <2> QED
    BY <1>5, <2>1
<1>7. \A l \in L : Distinct(new[l])
  BY <1>1, <1>2, <1>4, <1>6
<1>8. \A l, m \in L : l # m => Elements(new[l]) \cap Elements(new[m]) = {}
  <2> SUFFICES ASSUME NEW l \in L, NEW m \in L, l # m, NEW e \in Elements(new[l]),
                      e \in Elements(new[m])
               PROVE  FALSE
    OBVIOUS
  <2>1. \A k \in L : k # dst => Elements(new[k]) \subseteq Elements(ls[k])
    BY <1>2, <1>6
  <2>2. CASE l # dst /\ m # dst
    BY <1>1, <2>1, <2>2
  <2>3. CASE l = dst
    BY <1>1, <1>2, <1>4, <1>6, <2>1, <2>3
  <2>4. CASE m = dst
    BY <1>1, <1>2, <1>4, <1>6, <2>1, <2>4
  <2> QED
    BY <2>2, <2>3, <2>4
<1>9. \A s \in S : \E l \in L : s \in Elements(new[l])
  <2> TAKE s \in S
  <2>1. PICK l \in L : s \in Elements(ls[l])
    BY DEF Partition
  <2>2. CASE l = src
    BY <1>2, <1>4, <1>6, <2>1, <2>2
  <2>3. CASE l # src
    BY <1>4, <1>6, <2>1, <2>3
  <2> QED
    BY <2>2, <2>3
<1>10. Partition(new, L, S)
  BY <1>6, <1>7, <1>8, <1>9 DEF Partition
<1> QED
  BY <1>2, <1>4, <1>6, <1>10 DEF SelectedMoved, y
=============================================================================
