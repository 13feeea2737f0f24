----------------------------- MODULE ListProofs -----------------------------
(***************************************************************************)
(* What the operators of module Lists do to a list without repetitions, the *)
(* form the ready, sleep and wait lists always have.                       *)
(***************************************************************************)
EXTENDS Lists, TLAPS, SequenceTheorems, WellFoundedInduction

\* The pids of a list of pids are pids.
LEMMA ElemsInSet ==
    ASSUME NEW S, NEW list \in Seq(S)
    PROVE  Elems(list) \subseteq S
BY DEF Elems

\* insertList adds exactly its node, and keeps a list free of repetitions when
\* the node was not on it.
LEMMA InsertProperties ==
    ASSUME NEW S, NEW list \in Seq(S), NEW x \in S
    PROVE  /\ insertList(list, x) \in Seq(S)
           /\ insertList(list, x) # <<>>
           /\ Elems(insertList(list, x)) = Elems(list) \cup {x}
           /\ IsInjectiveList(list) /\ x \notin Elems(list)
                => IsInjectiveList(insertList(list, x))
<1> DEFINE new == insertList(list, x)
<1>1. /\ new \in Seq(S) /\ Len(new) = Len(list) + 1
      /\ \A i \in 1 .. Len(list) : new[i] = list[i]
      /\ new[Len(list) + 1] = x
  BY DEF insertList
<1>2. Len(list) \in Nat
  OBVIOUS
<1>3. Elems(new) = Elems(list) \cup {x}
  BY <1>1, <1>2 DEF Elems
<1>4. IsInjectiveList(list) /\ x \notin Elems(list) => IsInjectiveList(new)
  BY <1>1, <1>2 DEF IsInjectiveList, Elems
<1> QED BY <1>1, <1>2, <1>3, <1>4

\* A node that is not on the list can be linked without harm.
LEMMA FreshInsert ==
    ASSUME NEW S, NEW list \in Seq(S), IsInjectiveList(list),
           NEW x \in S, x \notin Elems(list)
    PROVE  /\ insertList(list, x) \in Seq(S)
           /\ IsInjectiveList(insertList(list, x))
           /\ Elems(insertList(list, x)) = Elems(list) \cup {x}
BY InsertProperties

\* removeList's walk finds the node with the id it looks for.
LEMMA FirstAtProperties ==
    ASSUME NEW S, NEW list \in Seq(S), IsInjectiveList(list),
           NEW id \in Elems(list)
    PROVE  /\ FirstAt(list, id) \in 1 .. Len(list)
           /\ list[FirstAt(list, id)] = id
<1>1. PICK i \in 1 .. Len(list) : list[i] = id
  BY DEF Elems
<1>2. \A j \in 1 .. i - 1 : list[j] # id
  BY <1>1 DEF IsInjectiveList
<1> QED BY <1>1, <1>2 DEF FirstAt

\* On a list without repetitions a node is found at its own place, and its
\* next field leads to the place behind it.
LEMMA FirstAtIndex ==
    ASSUME NEW S, NEW list \in Seq(S), IsInjectiveList(list),
           NEW k \in 1 .. Len(list)
    PROVE  /\ list[k] \in Elems(list)
           /\ FirstAt(list, list[k]) = k
           /\ NextOf(list, list[k]) = IF k = Len(list) THEN NULL ELSE list[k + 1]
<1>1. list[k] \in Elems(list)
  BY DEF Elems
<1>2. FirstAt(list, list[k]) = k
  BY <1>1, FirstAtProperties DEF IsInjectiveList
<1> QED BY <1>1, <1>2 DEF NextOf

\* Where the nodes are after the k-th one was unlinked.
LEMMA RemoveShifts ==
    ASSUME NEW S, NEW list \in Seq(S), IsInjectiveList(list),
           NEW k \in 1 .. Len(list)
    PROVE  LET new == removeList(list, list[k])
               n   == Len(list)
           IN  /\ new \in Seq(S) /\ Len(new) = n - 1
               /\ \A i \in 1 .. n - 1 :
                    new[i] = IF i < k THEN list[i] ELSE list[i + 1]
<1> DEFINE new == removeList(list, list[k])
           n == Len(list)
           front == SubSeq(list, 1, k - 1)
           back == SubSeq(list, k + 1, n)
<1>1. k \in 1 .. n /\ n \in Nat
  OBVIOUS
<1>2. new = front \o back
  BY FirstAtIndex DEF removeList, RemoveAt
<1> HIDE DEF new
<1>3. /\ front \in Seq(S) /\ Len(front) = k - 1
      /\ \A i \in 1 .. k - 1 : front[i] = list[i]
  BY <1>1
<1>4. /\ back \in Seq(S) /\ Len(back) = n - k
      /\ \A i \in 1 .. n - k : back[i] = list[k + i]
  BY <1>1
<1> HIDE DEF front, back
<1>5. /\ new \in Seq(S) /\ Len(new) = Len(front) + Len(back)
      /\ \A i \in 1 .. Len(front) + Len(back) : new[i] =
            IF i <= Len(front) THEN front[i] ELSE back[i - Len(front)]
  BY ONLY <1>2, <1>3, <1>4, ConcatProperties, Zenon
<1>6. Len(new) = n - 1
  BY <1>1, <1>3, <1>4, <1>5
<1>7. ASSUME NEW i \in 1 .. n - 1
      PROVE  new[i] = IF i < k THEN list[i] ELSE list[i + 1]
  <2>1. i \in 1 .. Len(front) + Len(back)
    BY <1>1, <1>3, <1>4
  <2>2. CASE i < k
    BY <1>1, <1>3, <1>4, <1>5, <2>1, <2>2
  <2>3. CASE ~(i < k)
    <3>1. new[i] = back[i - (k - 1)] /\ i - (k - 1) \in 1 .. n - k
      BY <1>1, <1>3, <1>4, <1>5, <2>1, <2>3
    <3>2. k + (i - (k - 1)) = i + 1
      BY <1>1
    <3> QED BY <1>4, <2>3, <3>1, <3>2
  <2> QED BY <2>2, <2>3
<1> QED BY <1>5, <1>6, <1>7 DEF new

\* removeList takes exactly the named node off the list, and does nothing to a
\* list the node is not on.
LEMMA RemoveProperties ==
    ASSUME NEW S, NEW list \in Seq(S), IsInjectiveList(list), NEW id
    PROVE  /\ removeList(list, id) \in Seq(S)
           /\ IsInjectiveList(removeList(list, id))
           /\ Elems(removeList(list, id)) = Elems(list) \ {id}
<1> DEFINE new == removeList(list, id)
<1>1. CASE id \notin Elems(list)
  BY <1>1 DEF removeList
<1>2. CASE id \in Elems(list)
  <2> DEFINE k == FirstAt(list, id)
             n == Len(list)
  <2>1. k \in 1 .. n /\ list[k] = id /\ n \in Nat
    BY <1>2, FirstAtProperties
  <2> HIDE DEF k, new
  <2>5. /\ new \in Seq(S) /\ Len(new) = n - 1
        /\ \A i \in 1 .. n - 1 : new[i] = IF i < k THEN list[i] ELSE list[i + 1]
    <3>1. new = removeList(list, list[k])
      BY <2>1 DEF new
    <3> QED BY <2>1, <3>1, RemoveShifts
  <2> DEFINE old(i) == IF i < k THEN i ELSE i + 1
  <2>a. \A i \in 1 .. n - 1 : old(i) \in 1 .. n /\ old(i) # k /\ new[i] = list[old(i)]
    BY <2>1, <2>5
  <2>b. \A i, j \in 1 .. n - 1 : old(i) = old(j) => i = j
    BY <2>1
  <2> HIDE DEF old
  <2>6. IsInjectiveList(new)
    BY <2>5, <2>a, <2>b DEF IsInjectiveList
  <2>7. \A x \in Elems(new) : x \in Elems(list) \ {id}
    BY <2>1, <2>5, <2>a DEF IsInjectiveList, Elems
  <2>8. ASSUME NEW x \in Elems(list) \ {id}
        PROVE  x \in Elems(new)
    <3>1. PICK i \in 1 .. n : list[i] = x
      BY DEF Elems
    <3>2. i # k BY <2>1, <3>1
    <3>3. CASE i < k
      <4>1. i \in 1 .. n - 1 /\ new[i] = x BY <2>1, <2>5, <3>1, <3>3
      <4> QED BY <4>1, <2>5 DEF Elems
    <3>4. CASE i > k
      <4>1. i - 1 \in 1 .. n - 1 /\ new[i - 1] = x BY <2>1, <2>5, <3>1, <3>4
      <4> QED BY <4>1, <2>5 DEF Elems
    <3> QED BY <2>1, <3>2, <3>3, <3>4
  <2> QED BY <2>5, <2>6, <2>7, <2>8 DEF new
<1> QED BY <1>1, <1>2

\* HeadRemove of an empty list returns NULL and leaves it empty.
LEMMA EmptyProperties ==
    /\ HeadOf(<<>>) = NULL
    /\ HeadRemove(<<>>) = <<>>
    /\ Elems(<<>>) = {}
    /\ IsInjectiveList(<<>>)
BY DEF HeadOf, HeadRemove, Elems, IsInjectiveList

\* HeadRemove takes exactly the node it returns off the list.
LEMMA HeadProperties ==
    ASSUME NEW S, NEW list \in Seq(S), IsInjectiveList(list)
    PROVE  /\ HeadRemove(list) \in Seq(S)
           /\ IsInjectiveList(HeadRemove(list))
           /\ Elems(HeadRemove(list)) = Elems(list) \ {HeadOf(list)}
           /\ list # <<>> => /\ HeadOf(list) = Head(list)
                             /\ HeadOf(list) \in Elems(list)
                             /\ HeadOf(list) \in S
           /\ list = <<>> => /\ HeadOf(list) = NULL
                             /\ HeadRemove(list) = <<>>
<1>1. CASE list = <<>>
  <2>1. <<>> \in Seq(S)
    OBVIOUS
  <2> QED BY <1>1, <2>1, EmptyProperties
<1>2. CASE list # <<>>
  <2>1. HeadOf(list) = Head(list) /\ Head(list) = list[1] /\ 1 \in 1 .. Len(list)
    BY <1>2 DEF HeadOf
  <2>2. HeadOf(list) \in Elems(list)
    BY <2>1 DEF Elems
  <2>3. HeadRemove(list) = removeList(list, HeadOf(list))
    BY <1>2, <2>1 DEF HeadRemove
  <2> QED BY <1>2, <2>1, <2>2, <2>3, ElemsInSet, RemoveProperties
<1> QED BY <1>1, <1>2

\* A list is empty when it holds no pid.
LEMMA NonemptyElems ==
    ASSUME NEW S, NEW list \in Seq(S)
    PROVE  list = <<>> <=> Elems(list) = {}
<1>1. list # <<>> => 1 \in 1 .. Len(list)
  OBVIOUS
<1> QED BY <1>1 DEF Elems

\* HeadRemove, which removes by the id of the head, leaves the others in order.
LEMMA HeadRemoveIsTail ==
    ASSUME NEW S, NEW list \in Seq(S), IsInjectiveList(list), list # <<>>
    PROVE  HeadRemove(list) = Tail(list)
<1>1. Head(list) \in Elems(list) /\ Head(list) = list[1] /\ 1 \in 1 .. Len(list)
  BY DEF Elems
<1>2. FirstAt(list, Head(list)) = 1
  BY <1>1, FirstAtProperties DEF IsInjectiveList
<1>3. HeadRemove(list) = SubSeq(list, 1, 0) \o SubSeq(list, 2, Len(list))
  <2>1. HeadRemove(list) = RemoveAt(list, 1)
    BY <1>1, <1>2 DEF HeadRemove, removeList
  <2>2. 1 - 1 = 0 /\ 1 + 1 = 2
    OBVIOUS
  <2> QED BY <2>1, <2>2, Zenon DEF RemoveAt
<1>4. SubSeq(list, 1, 0) = <<>> 
  OBVIOUS
<1>5. SubSeq(list, 2, Len(list)) = Tail(list)
  OBVIOUS
<1> QED BY <1>3, <1>4, <1>5

-----------------------------------------------------------------------------
\* A set of numbers that holds 0 and with each number the next holds them all.
LEMMA NatInductionOnSets ==
    ASSUME NEW T, T \subseteq Nat, 0 \in T, \A n \in T : n + 1 \in T
    PROVE  T = Nat
<1> DEFINE R == OpToRel(<, Nat)
           C == Nat \ T
<1>1. IsWellFoundedOn(R, Nat)
  BY NatLessThanWellFounded
<1>2. ASSUME C # {} PROVE FALSE
  <2>1. C \subseteq Nat
    OBVIOUS
  <2>2. \E x \in C : \A y \in C : ~(<<y, x>> \in R)
    BY <1>1, <1>2, <2>1, WFMin
  <2>3. PICK x \in C : \A y \in C : ~(<<y, x>> \in R)
    BY <2>2
  <2>4. x \in Nat /\ x # 0 /\ x \notin T
    OBVIOUS
  <2>5. x - 1 \in Nat /\ x - 1 < x /\ (x - 1) + 1 = x
    BY <2>4
  <2>6. x - 1 \notin T
    BY <2>4, <2>5
  <2>7. <<x - 1, x>> \in R
    BY <2>4, <2>5 DEF OpToRel
  <2> QED BY <2>3, <2>5, <2>6, <2>7
<1> QED BY <1>2
=============================================================================
