----------------------------- MODULE RtIpcProof -----------------------------
(***************************************************************************)
(* What the operations on suspend lists do, for lists of any length.  The  *)
(* proofs about the objects that use the lists rest on these lemmas.       *)
(***************************************************************************)
EXTENDS RtIpc, WellFoundedInduction, TLAPS

\* A list a thread of RT_IPC_FLAG_PRIO waits in: urgent threads first.
Sorted(list, prio) ==
  \A j, k \in 1 .. Len(list) : j < k => prio[list[j]] <= prio[list[k]]

\* The first position at which rt_ipc_list_suspend's search stops exists.
LEMMA MinExists == ASSUME NEW S \in SUBSET Nat, S # {} PROVE \E k \in S : \A j \in S : k <= j
<1> DEFINE R == OpToRel(<, Nat)
<1>1. IsWellFoundedOn(R, Nat)
  BY NatLessThanWellFounded
<1>2. \A i, j \in Nat : i < j => <<i, j>> \in R
  BY DEF OpToRel
<1> HIDE DEF R
<1>3. \E x \in S : \A y \in S : ~ (<<y, x>> \in R)
  BY <1>1, WFMin, Zenon
<1>4. PICK x \in S : \A y \in S : ~ (<<y, x>> \in R)
  BY <1>3
<1>5. \A y \in S : ~ (y < x)
  BY <1>2, <1>4, Zenon
<1>6. \A y \in S : x <= y
  BY <1>5
<1> QED BY <1>6

\* rt_ipc_list_suspend stays within the list, behind every thread that is as
\* urgent and before the first that is less.
LEMMA PositionRange ==
  ASSUME NEW T, NEW list \in Seq(T), NEW p \in Nat, NEW flag, NEW prio \in [T -> Nat]
  PROVE  /\ InsertPosition(list, p, flag, prio) \in 1 .. Len(list) + 1
         /\ flag # RT_IPC_FLAG_FIFO =>
              /\ \A k \in 1 .. Len(list) : k < InsertPosition(list, p, flag, prio) => prio[list[k]] <= p
              /\ InsertPosition(list, p, flag, prio) <= Len(list)
                   => p < prio[list[InsertPosition(list, p, flag, prio)]]
<1> DEFINE lower == {k \in 1 .. Len(list) : p < prio[list[k]]}
           pos == CHOOSE k \in lower : \A j \in lower : k <= j
<1>1. CASE flag = RT_IPC_FLAG_FIFO
  BY <1>1 DEF InsertPosition
<1>2. CASE flag # RT_IPC_FLAG_FIFO /\ lower = {}
  <2>1. InsertPosition(list, p, flag, prio) = Len(list) + 1
    BY <1>2 DEF InsertPosition
  <2>2. \A k \in 1 .. Len(list) : list[k] \in T /\ prio[list[k]] \in Nat
    OBVIOUS
  <2> QED
    BY <1>2, <2>1, <2>2
<1>3. CASE flag # RT_IPC_FLAG_FIFO /\ lower # {}
  <2>1. InsertPosition(list, p, flag, prio) = pos
    BY <1>3, SMTT(30) DEF InsertPosition
  <2>2. \E k \in lower : \A j \in lower : k <= j
    <3>1. lower \in SUBSET Nat
      OBVIOUS
    <3> HIDE DEF lower
    <3> QED
      BY <1>3, <3>1, MinExists
  <2>3. pos \in lower /\ \A j \in lower : pos <= j
    <3> HIDE DEF lower
    <3> QED
      BY <2>2
  <2>4. \A k \in 1 .. Len(list) : list[k] \in T /\ prio[list[k]] \in Nat
    OBVIOUS
  <2> HIDE DEF pos
  <2> QED
    BY <1>3, <2>1, <2>3, <2>4
<1> QED
  BY <1>1, <1>2, <1>3

\* Inserting at a position.
LEMMA InsertAtElements ==
  ASSUME NEW T, NEW s \in Seq(T), NEW e \in T, NEW i \in 1 .. Len(s) + 1
  PROVE  /\ InsertAt(s, i, e) \in Seq(T)
         /\ Len(InsertAt(s, i, e)) = Len(s) + 1
         /\ \A k \in 1 .. i - 1 : InsertAt(s, i, e)[k] = s[k]
         /\ InsertAt(s, i, e)[i] = e
         /\ \A k \in i .. Len(s) : InsertAt(s, i, e)[k + 1] = s[k]
<1>1. Len(s) \in Nat /\ i \in Nat /\ 1 <= i /\ i <= Len(s) + 1
  OBVIOUS
<1>2. \A k \in 1 .. Len(s) : s[k] \in T
  OBVIOUS
<1>3. InsertAt(s, i, e) \in [1 .. Len(s) + 1 -> T]
  BY <1>1, <1>2 DEF InsertAt
<1>4. \A k \in 1 .. Len(s) + 1 :
        InsertAt(s, i, e)[k] = IF k < i THEN s[k] ELSE IF k = i THEN e ELSE s[k - 1]
  BY DEF InsertAt
<1> QED
  BY <1>1, <1>3, <1>4

\* What rt_ipc_list_suspend does to a list.
LEMMA SuspendProperties ==
  ASSUME NEW T, NEW list \in Seq(T), NEW t \in T, NEW flag, NEW prio \in [T -> Nat],
         IsInjective(list), ~ Contains(list, t)
  PROVE  /\ ListSuspend(list, t, flag, prio) \in Seq(T)
         /\ IsInjective(ListSuspend(list, t, flag, prio))
         /\ \A u \in T : Contains(ListSuspend(list, t, flag, prio), u) <=> Contains(list, u) \/ u = t
         /\ flag # RT_IPC_FLAG_FIFO /\ Sorted(list, prio)
              => Sorted(ListSuspend(list, t, flag, prio), prio)
<1> DEFINE i == InsertPosition(list, prio[t], flag, prio)
           new == InsertAt(list, i, t)
<1>1. i \in 1 .. Len(list) + 1
  BY PositionRange
<1>0. i \in Nat /\ Len(list) \in Nat /\ 1 <= i /\ i <= Len(list) + 1
  BY <1>1
<1>11. flag # RT_IPC_FLAG_FIFO =>
         /\ \A k \in 1 .. Len(list) : k < i => prio[list[k]] <= prio[t]
         /\ i <= Len(list) => prio[t] < prio[list[i]]
  <2>1. prio[t] \in Nat
    OBVIOUS
  <2> QED
    BY <2>1, PositionRange
<1>2. ListSuspend(list, t, flag, prio) = new
  BY DEF ListSuspend
<1> HIDE DEF i
<1>3. /\ new \in Seq(T)
      /\ Len(new) = Len(list) + 1
      /\ \A k \in 1 .. i - 1 : new[k] = list[k]
      /\ new[i] = t
      /\ \A k \in i .. Len(list) : new[k + 1] = list[k]
  <2> HIDE DEF new
  <2>1. \A l \in 1 .. Len(list) + 1 :
          /\ InsertAt(list, l, t) \in Seq(T)
          /\ Len(InsertAt(list, l, t)) = Len(list) + 1
          /\ \A k \in 1 .. l - 1 : InsertAt(list, l, t)[k] = list[k]
          /\ InsertAt(list, l, t)[l] = t
          /\ \A k \in l .. Len(list) : InsertAt(list, l, t)[k + 1] = list[k]
    BY InsertAtElements
  <2> QED
    BY <1>1, <2>1 DEF new
<1> HIDE DEF new
<1>33. \A k \in 1 .. i - 1 : new[k] = list[k]
  BY <1>3
<1>34. \A k \in i .. Len(list) : new[k + 1] = list[k]
  BY <1>3
<1>35. new[i] = t
  BY <1>3
<1>30. ASSUME NEW k \in 1 .. Len(list) + 1
       PROVE  \/ k < i /\ k \in 1 .. Len(list) /\ new[k] = list[k]
              \/ k = i /\ new[k] = t
              \/ k > i /\ k - 1 \in 1 .. Len(list) /\ new[k] = list[k - 1]
  <2>1. CASE k > i
    <3>1. k - 1 \in i .. Len(list) /\ (k - 1) + 1 = k
      BY <1>0, <2>1
    <3>2. new[k] = list[k - 1] /\ k - 1 \in 1 .. Len(list)
      BY <1>0, <1>34, <3>1
    <3> QED
      BY <2>1, <3>2
  <2>2. CASE k < i
    <3>1. k \in 1 .. i - 1 /\ k \in 1 .. Len(list)
      BY <1>0, <2>2
    <3> QED
      BY <1>33, <2>2, <3>1
  <2>3. CASE k = i
    BY <1>35, <2>3
  <2> QED
    BY <1>0, <2>1, <2>2, <2>3
<1>31. ASSUME NEW k \in 1 .. Len(list)
       PROVE  \/ k < i /\ k \in 1 .. Len(list) + 1 /\ new[k] = list[k]
              \/ k >= i /\ k + 1 \in 1 .. Len(list) + 1 /\ new[k + 1] = list[k]
  <2>1. CASE k < i
    <3>1. k \in 1 .. i - 1 /\ k \in 1 .. Len(list) + 1
      BY <1>0, <2>1
    <3> QED
      BY <1>33, <2>1, <3>1
  <2>2. CASE k >= i
    <3>1. k \in i .. Len(list) /\ k + 1 \in 1 .. Len(list) + 1
      BY <1>0, <2>2
    <3> QED
      BY <1>34, <2>2, <3>1
  <2> QED
    BY <1>0, <2>1, <2>2
<1>32. DOMAIN new = 1 .. Len(list) + 1 /\ DOMAIN list = 1 .. Len(list)
  BY <1>3
<1>4. \A k \in 1 .. Len(list) : list[k] # t
  BY DEF Contains
<1>5. \A j, k \in 1 .. Len(list) : list[j] = list[k] => j = k
  BY DEF IsInjective
<1>6. IsInjective(new)
  <2> SUFFICES ASSUME NEW j \in 1 .. Len(list) + 1, NEW k \in 1 .. Len(list) + 1, new[j] = new[k]
               PROVE  j = k
    BY <1>32 DEF IsInjective
  <2>1. j \in Int /\ k \in Int
    BY <1>0
  <2> QED
    <3>1. CASE j = i
      <4>1. new[k] = t
        BY <1>35, <3>1
      <4>2. k = i
        BY <1>30, <1>4, <4>1, Zenon
      <4> QED
        BY <3>1, <4>2
    <3>2. CASE k = i
      <4>1. new[j] = t
        BY <1>35, <3>2
      <4>2. j = i
        BY <1>30, <1>4, <4>1, Zenon
      <4> QED
        BY <3>2, <4>2
    <3>3. CASE j # i /\ k # i
      <4>1. PICK x \in 1 .. Len(list) : new[j] = list[x] /\ ((j < i /\ x = j) \/ (j > i /\ x = j - 1))
        BY <1>30, <2>1, <3>3
      <4>2. PICK y \in 1 .. Len(list) : new[k] = list[y] /\ ((k < i /\ y = k) \/ (k > i /\ y = k - 1))
        BY <1>30, <2>1, <3>3
      <4>3. x = y
        BY <1>5, <4>1, <4>2, Zenon
      <4> QED
        BY <1>0, <2>1, <4>1, <4>2, <4>3
    <3> QED
      BY <3>1, <3>2, <3>3
<1>7. ASSUME NEW u \in T PROVE Contains(new, u) <=> Contains(list, u) \/ u = t
  <2>1. Contains(new, u) => Contains(list, u) \/ u = t
    BY <1>3, <1>30, Zenon DEF Contains
  <2>2. i \in 1 .. Len(new) /\ new[i] = t
    BY <1>1, <1>3
  <2>3. Contains(list, u) => Contains(new, u)
    BY <1>3, <1>31, Zenon DEF Contains
  <2> QED
    BY <2>1, <2>2, <2>3 DEF Contains
<1>8. ASSUME flag # RT_IPC_FLAG_FIFO, Sorted(list, prio) PROVE Sorted(new, prio)
  <2> SUFFICES ASSUME NEW j \in 1 .. Len(list) + 1, NEW k \in 1 .. Len(list) + 1, j < k
               PROVE  prio[new[j]] <= prio[new[k]]
    BY <1>3, Zenon DEF Sorted
  <2>1. j \in Int /\ k \in Int /\ prio[t] \in Nat /\ \A x \in 1 .. Len(list) : prio[list[x]] \in Nat
    BY <1>0
  <2>2. CASE k = i
    BY <1>0, <1>11, <1>30, <1>8, <2>1, <2>2
  <2>3. CASE j = i
    <3>1. k - 1 \in 1 .. Len(list) /\ new[k] = list[k - 1] /\ new[j] = t /\ i \in 1 .. Len(list)
      BY <1>0, <1>30, <2>1, <2>3
    <3>2. prio[t] < prio[list[i]]
      BY <1>8, <1>11, <3>1
    <3>3. i = k - 1 \/ i < k - 1
      BY <1>0, <2>1, <2>3
    <3>4. prio[list[i]] <= prio[list[k - 1]]
      <4>1. prio[list[i]] \in Nat
        BY <2>1, <3>1, SMTT(30)
      <4>2. CASE i = k - 1
        BY <4>1, <4>2
      <4>3. CASE i < k - 1
        BY <1>8, <3>1, <4>3, Zenon DEF Sorted
      <4> QED
        BY <3>3, <4>2, <4>3
    <3> QED
      BY <2>1, <3>1, <3>2, <3>4, SMTT(30)
  <2>4. CASE j # i /\ k # i
    <3>1. PICK x \in 1 .. Len(list) : new[j] = list[x] /\ ((j < i /\ x = j) \/ (j > i /\ x = j - 1))
      BY <1>30, <2>1, <2>4, Zenon
    <3>2. PICK y \in 1 .. Len(list) : new[k] = list[y] /\ ((k < i /\ y = k) \/ (k > i /\ y = k - 1))
      BY <1>30, <2>1, <2>4
    <3>3. x < y
      BY <1>0, <2>1, <3>1, <3>2, SMTT(30)
    <3> QED
      BY <1>8, <3>1, <3>2, <3>3, SMTT(30) DEF Sorted
  <2> QED
    BY <2>2, <2>3, <2>4
<1> QED
  BY <1>2, <1>3, <1>6, <1>7, <1>8

\* What taking a thread out of a list does to it.
LEMMA RemoveProperties ==
  ASSUME NEW T, NEW list \in Seq(T), NEW t \in T, IsInjective(list), Contains(list, t)
  PROVE  /\ ListRemove(list, t) \in Seq(T)
         /\ IsInjective(ListRemove(list, t))
         /\ \A u \in T : Contains(ListRemove(list, t), u) <=> Contains(list, u) /\ u # t
         /\ \A prio : Sorted(list, prio) => Sorted(ListRemove(list, t), prio)
<1> DEFINE new == ListRemove(list, t)
<1>1. PICK p \in 1 .. Len(list) : list[p] = t
  BY DEF Contains
<1>2. p = CHOOSE k \in 1 .. Len(list) : list[k] = t
  BY <1>1 DEF IsInjective
<1>3. new = [k \in 1 .. Len(list) - 1 |-> IF k < p THEN list[k] ELSE list[k + 1]]
  BY <1>2 DEF ListRemove
<1>5. p \in Nat /\ Len(list) \in Nat /\ 1 <= p /\ p <= Len(list)
  OBVIOUS
<1> HIDE DEF new
<1>6. \A k \in 1 .. Len(list) : list[k] \in T
  OBVIOUS
<1>7. new \in [1 .. Len(list) - 1 -> T]
  BY <1>3, <1>5, <1>6
<1>8. new \in Seq(T)
  BY <1>5, <1>7
<1>9. Len(new) = Len(list) - 1 /\ DOMAIN new = 1 .. Len(list) - 1 /\ DOMAIN list = 1 .. Len(list)
  BY <1>5, <1>7
<1>10. ASSUME NEW k \in 1 .. Len(list) - 1
       PROVE  \/ k < p /\ k \in 1 .. Len(list) /\ new[k] = list[k]
              \/ k >= p /\ k + 1 \in 1 .. Len(list) /\ new[k] = list[k + 1]
  BY <1>3, <1>5
<1>11. \A j, k \in 1 .. Len(list) : list[j] = list[k] => j = k
  BY DEF IsInjective
<1>12. IsInjective(new)
  <2> SUFFICES ASSUME NEW j \in 1 .. Len(list) - 1, NEW k \in 1 .. Len(list) - 1, new[j] = new[k]
               PROVE  j = k
    BY <1>9 DEF IsInjective
  <2> QED
    BY <1>5, <1>10, <1>11, SMTT(30)
<1>13. ASSUME NEW u \in T PROVE Contains(new, u) <=> Contains(list, u) /\ u # t
  <2>1. Contains(new, u) => Contains(list, u) /\ u # t
    <3> SUFFICES ASSUME NEW k \in 1 .. Len(list) - 1, new[k] = u PROVE Contains(list, u) /\ u # t
      BY <1>9 DEF Contains
    <3> QED
      BY <1>1, <1>5, <1>10, <1>11, SMTT(30) DEF Contains
  <2>2. ASSUME NEW k \in 1 .. Len(list), list[k] = u, u # t PROVE Contains(new, u)
    <3>1. CASE k < p
      <4>1. k \in 1 .. Len(list) - 1 /\ new[k] = u
        BY <1>5, <1>10, <2>2, <3>1
      <4> QED
        BY <1>9, <4>1 DEF Contains
    <3>2. CASE k > p
      <4>1. k - 1 \in 1 .. Len(list) - 1 /\ k - 1 >= p /\ (k - 1) + 1 = k
        BY <1>5, <3>2
      <4>2. new[k - 1] = u
        BY <1>5, <1>10, <2>2, <4>1
      <4> QED
        BY <1>9, <4>1, <4>2 DEF Contains
    <3> QED
      BY <1>1, <1>5, <2>2, <3>1, <3>2
  <2> QED
    BY <2>1, <2>2 DEF Contains
<1>14. ASSUME NEW prio, Sorted(list, prio) PROVE Sorted(new, prio)
  <2> SUFFICES ASSUME NEW j \in 1 .. Len(list) - 1, NEW k \in 1 .. Len(list) - 1, j < k
               PROVE  prio[new[j]] <= prio[new[k]]
    BY <1>9 DEF Sorted
  <2>1. PICK x \in 1 .. Len(list) : new[j] = list[x] /\ ((j < p /\ x = j) \/ (j >= p /\ x = j + 1))
    BY <1>10, Zenon
  <2>2. PICK y \in 1 .. Len(list) : new[k] = list[y] /\ ((k < p /\ y = k) \/ (k >= p /\ y = k + 1))
    BY <1>10, Zenon
  <2>3. x < y
    BY <1>5, <2>1, <2>2
  <2> QED
    BY <1>14, <2>1, <2>2, <2>3 DEF Sorted
<1> QED
  BY <1>8, <1>12, <1>13, <1>14 DEF new

\* What resuming the first thread does to a list.
LEMMA TailProperties ==
  ASSUME NEW T, NEW list \in Seq(T), IsInjective(list), list # <<>>
  PROVE  /\ Head(list) \in T /\ Contains(list, Head(list))
         /\ Tail(list) \in Seq(T)
         /\ IsInjective(Tail(list))
         /\ \A u \in T : Contains(Tail(list), u) <=> Contains(list, u) /\ u # Head(list)
         /\ \A prio : Sorted(list, prio) =>
              /\ Sorted(Tail(list), prio)
              /\ \A k \in 1 .. Len(Tail(list)) : prio[Head(list)] <= prio[Tail(list)[k]]
<1> DEFINE new == Tail(list)
<1>1. /\ Len(list) \in Nat \ {0} /\ Head(list) = list[1] /\ list[1] \in T
      /\ DOMAIN list = 1 .. Len(list)
  OBVIOUS
<1>2. /\ new \in Seq(T) /\ Len(new) = Len(list) - 1 /\ DOMAIN new = 1 .. Len(list) - 1
      /\ \A k \in 1 .. Len(list) - 1 : new[k] = list[k + 1] /\ k + 1 \in 1 .. Len(list)
  BY <1>1
<1> HIDE DEF new
<1>3. \A j, k \in 1 .. Len(list) : list[j] = list[k] => j = k
  BY <1>1 DEF IsInjective
<1>4. IsInjective(new)
  BY <1>1, <1>2, <1>3 DEF IsInjective
<1>5. ASSUME NEW u \in T PROVE Contains(new, u) <=> Contains(list, u) /\ u # Head(list)
  <2>1. Contains(new, u) => Contains(list, u) /\ u # Head(list)
    BY <1>1, <1>2, <1>3 DEF Contains
  <2>2. ASSUME NEW k \in 1 .. Len(list), list[k] = u, u # Head(list) PROVE Contains(new, u)
    <3>1. k - 1 \in 1 .. Len(list) - 1 /\ (k - 1) + 1 = k
      BY <1>1, <2>2
    <3> QED
      BY <1>2, <2>2, <3>1, Zenon DEF Contains
  <2> QED
    BY <2>1, <2>2 DEF Contains
<1>6. ASSUME NEW prio, Sorted(list, prio)
      PROVE  /\ Sorted(new, prio)
             /\ \A k \in 1 .. Len(new) : prio[Head(list)] <= prio[new[k]]
  BY <1>1, <1>2, <1>6 DEF Sorted
<1> QED
  BY <1>1, <1>2, <1>4, <1>5, <1>6 DEF Contains, new

=============================================================================
