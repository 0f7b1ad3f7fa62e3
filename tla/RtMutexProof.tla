---------------------------- MODULE RtMutexProof ----------------------------
(***************************************************************************)
(* The mutex is mutually exclusive, never stranded, gives raised           *)
(* priorities back and, with RT_IPC_FLAG_PRIO, lets no owner be less       *)
(* urgent than a thread waiting for it: for any threads and priorities.    *)
(* A mutex of periodic threads (PeriodicMutex) stays a sound object        *)
(* whenever their periods end: in the middle of a wait, with the mutex     *)
(* held, or on time.                                                       *)
(***************************************************************************)
EXTENDS PeriodicMutex, RtIpcProof, TLAPS

\* A thread the mutex was handed over to, on its way out of rt_mutex_take.
HandedOver(t) == call[t] # "out" /\ ~ Suspended(t) /\ error[t] = "EOK"

\* The threads in rt_mutex_take: a suspended one is not the owner and has no
\* error yet, a resumed one without error has become the owner.
CallInv ==
  \A t \in Threads :
    /\ call[t] # "out" => depth[t] = 0
    /\ Suspended(t) => call[t] # "out" /\ t # owner /\ error[t] = "EOK"
    /\ HandedOver(t) => owner = t /\ hold = 1

\* The owner's priority before it was raised is kept in the mutex.
PriorityInv ==
  /\ PriorityRestored
  /\ owner # NoThread => original_priority = Priority[owner]
  /\ flag = RT_IPC_FLAG_PRIO => Sorted(waiters, current_priority)
  /\ NoInversion

IInv == TypeOK /\ TakenMeansOwned /\ NoStrandedOwner /\ CallInv /\ PriorityInv

LEMMA SmallModulo == \A n \in 0 .. MaxHold : n % HoldRange = n
BY MutexAssumption

LEMMA InitInv == Init => IInv
<1> SUFFICES ASSUME Init PROVE IInv
  BY Zenon
<1>1. ~ \E t \in Threads : Suspended(t)
  BY DEF Init, Suspended, Contains
<1> QED
  BY <1>1, MutexAssumption DEF Init, IInv, TypeOK, TakenMeansOwned, NoStrandedOwner, CallInv,
     HandedOver, PriorityInv, PriorityRestored, Sorted, NoInversion, Errors, IsInjective, NoPriority

\* The holds of the owner: as many as its takes, or the one it was handed.
LEMMA OwnerHolds ==
  ASSUME IInv, owner # NoThread, call[owner] = "out"
  PROVE  owner \in Threads /\ value = 0 /\ hold = depth[owner] /\ hold \in 1 .. MaxHold
BY DEF IInv, TypeOK, TakenMeansOwned, NoStrandedOwner

LEMMA TakeAgainInv == ASSUME IInv, NEW t \in Threads, TakeAgain(t) PROVE IInv'
<1>1. hold = depth[t] /\ hold \in 1 .. MaxHold /\ value = 0
  BY OwnerHolds, MutexAssumption, Zenon DEF TakeAgain
<1>2. hold' = hold + 1 /\ hold + 1 \in 1 .. MaxHold
  BY <1>1, SmallModulo, MutexAssumption DEF TakeAgain
<1>3. depth' = [depth EXCEPT ![t] = hold + 1]
  BY <1>1, Zenon DEF TakeAgain
<1> USE DEF TakeAgain
<1>4. TypeOK'
  BY <1>2, <1>3 DEF IInv, TypeOK, Errors
<1>5. TakenMeansOwned'
  BY <1>2, <1>3, Zenon DEF IInv, TypeOK, TakenMeansOwned
<1>6. NoStrandedOwner'
  BY <1>1, <1>2, <1>3 DEF IInv, TypeOK, NoStrandedOwner, Suspended
<1>7. CallInv'
  BY <1>2, <1>3, Zenon DEF IInv, TypeOK, CallInv, HandedOver, Suspended
<1>8. PriorityInv'
  BY Zenon DEF IInv, PriorityInv, PriorityRestored, Sorted, NoInversion
<1> QED
  BY <1>4, <1>5, <1>6, <1>7, <1>8, Zenon DEF IInv

LEMMA TakeFreeInv == ASSUME IInv, NEW t \in Threads, TakeFree(t) PROVE IInv'
<1>1. owner = NoThread /\ value = 1 /\ hold = 0 /\ waiters = <<>> /\ \A u \in Threads : depth[u] = 0
  BY MutexAssumption DEF TakeFree, IInv, TypeOK, NoStrandedOwner, TakenMeansOwned
<1>2. hold' = 1 /\ 1 \in 0 .. MaxHold
  BY <1>1, SmallModulo, MutexAssumption DEF TakeFree
<1>3. depth' = [depth EXCEPT ![t] = 1]
  <2>1. depth[t] + 1 = 1 /\ depth' = [depth EXCEPT ![t] = depth[t] + 1]
    BY <1>1 DEF TakeFree
  <2> QED
    BY <2>1, Zenon
<1> USE DEF TakeFree, Own
<1>4. TypeOK'
  BY <1>1, <1>2, <1>3 DEF IInv, TypeOK, Errors
<1>5. TakenMeansOwned'
  BY <1>1, <1>2, <1>3, Zenon DEF IInv, TypeOK, TakenMeansOwned
<1>6. NoStrandedOwner'
  BY <1>1, <1>2, <1>3, MutexAssumption DEF IInv, TypeOK, NoStrandedOwner, Suspended
<1>7. CallInv'
  BY <1>1, <1>2, <1>3, MutexAssumption DEF IInv, TypeOK, CallInv, HandedOver, Suspended, Contains
<1>8. PriorityInv'
  BY <1>1, MutexAssumption DEF IInv, PriorityInv, PriorityRestored, Sorted, NoInversion
<1> QED
  BY <1>4, <1>5, <1>6, <1>7, <1>8, Zenon DEF IInv

LEMMA ReleaseByOtherInv == ASSUME IInv, NEW t \in Threads, ReleaseByOther(t) PROVE IInv'
<1>1. depth[t] = 0
  BY DEF ReleaseByOther, IInv, TypeOK, TakenMeansOwned
<1>2. depth' = depth
  BY <1>1 DEF ReleaseByOther, IInv, TypeOK
<1> USE DEF ReleaseByOther, mutex
<1>4. TypeOK'
  BY <1>2, Zenon DEF IInv, TypeOK, Errors
<1>5. TakenMeansOwned' /\ PriorityInv'
  BY <1>2, Zenon DEF IInv, TakenMeansOwned, PriorityInv, PriorityRestored, Sorted, NoInversion
<1>6. NoStrandedOwner'
  BY <1>2, Zenon DEF IInv, TypeOK, NoStrandedOwner, Suspended
<1>7. CallInv'
  BY <1>2, Zenon DEF IInv, TypeOK, CallInv, HandedOver, Suspended
<1> QED
  BY <1>4, <1>5, <1>6, <1>7, Zenon DEF IInv

LEMMA TakeReturnInv == ASSUME IInv, NEW t \in Threads, TakeReturn(t) PROVE IInv'
<1>0. depth[t] = 0 /\ depth[t] + 1 = 1
  BY DEF TakeReturn, IInv, CallInv
<1>1. depth[t] = 0 /\ depth' = [depth EXCEPT ![t] = IF error[t] = "EOK" THEN 1 ELSE 0]
  <2>1. depth' = [depth EXCEPT ![t] = IF error[t] = "EOK" THEN depth[t] + 1 ELSE depth[t]]
    BY Zenon DEF TakeReturn
  <2> QED
    BY <1>0, <2>1, Zenon
<1>2. error[t] = "EOK" => owner = t /\ hold = 1
  BY Zenon DEF TakeReturn, IInv, CallInv, HandedOver
<1>3. error[t] # "EOK" => owner # t
  BY <1>1, MutexAssumption DEF IInv, TypeOK, NoStrandedOwner
<1> USE DEF TakeReturn, mutex
<1>4. TypeOK'
  BY <1>1, MutexAssumption DEF IInv, TypeOK
<1>5. TakenMeansOwned'
  BY <1>1, <1>2, <1>3, Zenon DEF IInv, TypeOK, TakenMeansOwned
<1>6. NoStrandedOwner'
  BY <1>1, <1>2, <1>3, MutexAssumption DEF IInv, TypeOK, NoStrandedOwner, Suspended
<1>7. CallInv'
  BY <1>1, Zenon DEF IInv, TypeOK, CallInv, HandedOver, Suspended
<1>8. PriorityInv'
  BY Zenon DEF IInv, PriorityInv, PriorityRestored, Sorted, NoInversion
<1> QED
  BY <1>4, <1>5, <1>6, <1>7, <1>8, Zenon DEF IInv

LEMMA TimeoutInv == ASSUME IInv, NEW t \in Threads, Timeout(t) PROVE IInv'
<1> DEFINE new == ListRemove(waiters, t)
<1>1. /\ new \in Seq(Threads) /\ IsInjective(new)
      /\ \A u \in Threads : Contains(new, u) <=> Contains(waiters, u) /\ u # t
      /\ \A prio : Sorted(waiters, prio) => Sorted(new, prio)
  BY RemoveProperties, Zenon DEF Timeout, IInv, TypeOK, Suspended
<1>2. waiters' = new
  BY Zenon DEF Timeout
<1> HIDE DEF new
<1>3. owner # NoThread /\ owner # t /\ call[t] # "out"
  <2>1. waiters # <<>>
    BY DEF Timeout, Suspended, Contains
  <2> QED
    BY <2>1, Zenon DEF Timeout, Suspended, IInv, NoStrandedOwner, CallInv
<1>4. \A u \in Threads : Suspended(u)' <=> Suspended(u) /\ u # t
  BY <1>1, <1>2, Zenon DEF Suspended
<1> USE DEF Timeout, mutex
<1>5. TypeOK'
  BY <1>1, <1>2, Zenon DEF IInv, TypeOK, Errors
<1>6. TakenMeansOwned'
  BY Zenon DEF IInv, TakenMeansOwned
<1>7. NoStrandedOwner'
  BY <1>3, <1>4, Zenon DEF IInv, TypeOK, NoStrandedOwner
<1>8. CallInv'
  BY <1>3, <1>4, Zenon DEF IInv, TypeOK, CallInv, HandedOver
<1>9. NoInversion'
  <2> SUFFICES ASSUME flag = RT_IPC_FLAG_PRIO, NEW k \in 1 .. Len(new)
               PROVE  current_priority[owner] <= current_priority[new[k]]
    BY <1>2, Zenon DEF NoInversion
  <2>1. new[k] \in Threads /\ Contains(new, new[k])
    BY <1>1 DEF Contains
  <2>2. PICK j \in 1 .. Len(waiters) : waiters[j] = new[k]
    BY <1>1, <2>1, Zenon DEF Contains
  <2> QED
    BY <2>2, Zenon DEF IInv, PriorityInv, NoInversion
<1>10. PriorityInv'
  BY <1>1, <1>2, <1>9, Zenon DEF IInv, PriorityInv, PriorityRestored
<1> QED
  BY <1>5, <1>6, <1>7, <1>8, <1>10, Zenon DEF IInv

\* A thread that begins to wait: it joins the list, the owner's priority is
\* raised if need be and nothing else changes.
LEMMA TakeBusyInv == ASSUME IInv, NEW t \in Threads, NEW time \in Times, TakeBusy(t, time) PROVE IInv'
<1>1. CASE time = "zero"
  <2> USE <1>1 DEF TakeBusy, mutex
  <2>1. TypeOK'
    BY Zenon DEF IInv, TypeOK, Errors
  <2>2. TakenMeansOwned' /\ PriorityInv'
    BY Zenon DEF IInv, TakenMeansOwned, PriorityInv, PriorityRestored, Sorted, NoInversion
  <2>3. NoStrandedOwner'
    BY Zenon DEF IInv, TypeOK, NoStrandedOwner, Suspended
  <2>4. CallInv'
    BY Zenon DEF IInv, TypeOK, CallInv, HandedOver, Suspended
  <2> QED
    BY <2>1, <2>2, <2>3, <2>4, Zenon DEF IInv
<1>2. CASE time # "zero"
  <2> DEFINE new == ListSuspend(waiters, t, flag, current_priority)
  <2>1. ~ Suspended(t) /\ owner \in Threads /\ owner # NoThread /\ owner # t /\ depth[t] = 0
    BY MutexAssumption DEF TakeBusy, IInv, TypeOK, NoStrandedOwner, CallInv, TakenMeansOwned
  <2>2. /\ new \in Seq(Threads) /\ IsInjective(new)
        /\ \A u \in Threads : Contains(new, u) <=> Contains(waiters, u) \/ u = t
        /\ flag # RT_IPC_FLAG_FIFO /\ Sorted(waiters, current_priority) => Sorted(new, current_priority)
    BY <2>1, SuspendProperties, SMTT(30) DEF IInv, TypeOK, Suspended
  <2>3. waiters' = new /\ current_priority' = Raised(t) /\ call' = [call EXCEPT ![t] = time]
        /\ error' = [error EXCEPT ![t] = "EOK"] /\ UNCHANGED <<mutex, depth>>
    BY <1>2, Zenon DEF TakeBusy
  <2> HIDE DEF new
  <2>4. \A u \in Threads : Suspended(u)' <=> Suspended(u) \/ u = t
    BY <2>2, <2>3, Zenon DEF Suspended
  <2>5. /\ Raised(t) \in [Threads -> Nat]
        /\ \A u \in Threads : u # owner => Raised(t)[u] = current_priority[u]
        /\ Raised(t)[owner] <= current_priority[owner] /\ Raised(t)[owner] <= current_priority[t]
    BY <2>1 DEF IInv, TypeOK, Raised
  <2>6. \A k \in 1 .. Len(new) : new[k] \in Threads /\ new[k] # owner
    <3> TAKE k \in 1 .. Len(new)
    <3>1. new[k] \in Threads /\ Contains(new, new[k])
      BY <2>2 DEF Contains
    <3> QED
      BY <2>1, <2>2, <3>1, Zenon DEF IInv, CallInv, Suspended
  <2> USE <2>3 DEF mutex
  <2>7. TypeOK'
    BY <1>2, <2>2, <2>5, Zenon DEF IInv, TypeOK, Errors, Times
  <2>8. TakenMeansOwned'
    BY Zenon DEF IInv, TakenMeansOwned
  <2>9. NoStrandedOwner'
    BY <2>1, <2>4, Zenon DEF IInv, TypeOK, NoStrandedOwner
  <2>10. CallInv'
    BY <1>2, <2>1, <2>4, Zenon DEF IInv, TypeOK, CallInv, HandedOver, Times
  <2>11. NoInversion'
    <3> SUFFICES ASSUME flag = RT_IPC_FLAG_PRIO, NEW k \in 1 .. Len(new)
                 PROVE  Raised(t)[owner] <= Raised(t)[new[k]]
      BY Zenon DEF NoInversion
    <3>1. new[k] \in Threads /\ Contains(new, new[k]) /\ Raised(t)[new[k]] = current_priority[new[k]]
      BY <2>2, <2>5, <2>6, Zenon DEF Contains
    <3>2. CASE new[k] = t
      BY <2>5, <3>1, <3>2, Zenon
    <3>3. CASE Contains(waiters, new[k])
      <4>1. current_priority[owner] <= current_priority[new[k]]
        BY <3>3, Zenon DEF Contains, IInv, PriorityInv, NoInversion
      <4>2. /\ Raised(t)[owner] \in Nat /\ Raised(t)[owner] <= current_priority[owner]
            /\ current_priority[owner] \in Nat /\ current_priority[new[k]] \in Nat
        BY <2>1, <2>5, <3>1, Zenon DEF IInv, TypeOK
      <4> QED
        BY <3>1, <4>1, <4>2
    <3> QED
      BY <2>2, <3>1, <3>2, <3>3, Zenon
  <2>12. flag = RT_IPC_FLAG_PRIO => Sorted(new, Raised(t))
    <3> SUFFICES ASSUME flag = RT_IPC_FLAG_PRIO PROVE Sorted(new, Raised(t))
      BY Zenon
    <3>1. Sorted(new, current_priority)
      BY <2>2 DEF IInv, PriorityInv, RT_IPC_FLAG_PRIO, RT_IPC_FLAG_FIFO
    <3>2. \A k \in 1 .. Len(new) : Raised(t)[new[k]] = current_priority[new[k]]
      BY <2>5, <2>6, Zenon
    <3> QED
      BY <3>1, <3>2, Zenon DEF Sorted
  <2>13. PriorityInv'
    BY <2>5, <2>11, <2>12, Zenon DEF IInv, PriorityInv, PriorityRestored
  <2> QED
    BY <2>7, <2>8, <2>9, <2>10, <2>13, Zenon DEF IInv
<1> QED
  BY <1>1, <1>2, Zenon

\* One of several holds is given up.
LEMMA ReleaseOneInv == ASSUME IInv, NEW t \in Threads, Release(t), hold # 1 PROVE IInv'
<1>1. hold = depth[t] /\ hold \in 2 .. MaxHold /\ value = 0 /\ owner # NoThread
  BY OwnerHolds, MutexAssumption DEF Release
<1>2. hold' = hold - 1 /\ hold - 1 \in 1 .. MaxHold
  BY <1>1, SmallModulo, MutexAssumption DEF Release
<1>3. depth' = [depth EXCEPT ![t] = hold - 1]
  BY <1>1, Zenon DEF Release
<1>4. /\ UNCHANGED <<flag, owner, value, original_priority, waiters, current_priority, error, call>>
      /\ call[t] = "out" /\ owner = t
  BY Zenon DEF Release
<1>5. TypeOK'
  BY <1>2, <1>3, <1>4 DEF IInv, TypeOK
<1>6. TakenMeansOwned'
  BY <1>2, <1>3, <1>4, Zenon DEF IInv, TypeOK, TakenMeansOwned
<1>7. NoStrandedOwner'
  BY <1>1, <1>2, <1>3, <1>4 DEF IInv, TypeOK, NoStrandedOwner, Suspended
<1>8. CallInv'
  BY <1>2, <1>3, <1>4, Zenon DEF IInv, TypeOK, CallInv, HandedOver, Suspended
<1>9. PriorityInv'
  BY <1>4, Zenon DEF IInv, PriorityInv, PriorityRestored, Sorted, NoInversion
<1> QED
  BY <1>5, <1>6, <1>7, <1>8, <1>9, Zenon DEF IInv

\* The last hold is given up: to the first waiting thread, or to nobody.
LEMMA ReleaseLastInv == ASSUME IInv, NEW t \in Threads, Release(t), hold = 1 PROVE IInv'
<1>1. depth[t] = 1 /\ value = 0 /\ owner # NoThread /\ owner = t /\ call[t] = "out"
  BY OwnerHolds, MutexAssumption, Zenon DEF Release
<1>2. depth' = [depth EXCEPT ![t] = 0]
  <2>1. depth[t] - 1 = 0 /\ depth' = [depth EXCEPT ![t] = depth[t] - 1]
    BY <1>1 DEF Release
  <2> QED
    BY <2>1, Zenon
<1>3. \A u \in Threads : depth'[u] = 0
  BY <1>1, <1>2 DEF IInv, TypeOK, TakenMeansOwned
<1>4. current_priority' = Restored(t) /\ PassOn /\ UNCHANGED <<flag, error, call>>
  BY Zenon DEF Release
<1>10. /\ depth' \in [Threads -> 0 .. MaxHold]
       /\ error' \in [Threads -> Errors]
       /\ call' \in [Threads -> {"out", "ticks", "forever"}]
       /\ 1 \in 0 .. MaxHold /\ 0 \in 0 .. MaxHold
       /\ flag' \in {RT_IPC_FLAG_FIFO, RT_IPC_FLAG_PRIO}
  BY <1>2, <1>4, MutexAssumption DEF IInv, TypeOK
<1>5. Restored(t) = Priority
  <2>1. Restored(t) = [current_priority EXCEPT ![t] = Priority[t]]
    BY <1>1, Zenon DEF Restored, IInv, PriorityInv
  <2>2. \A u \in Threads : Restored(t)[u] = Priority[u]
    BY <1>1, <2>1, Zenon DEF IInv, TypeOK, PriorityInv, PriorityRestored
  <2>3. Restored(t) \in [Threads -> Nat]
    BY <2>1, MutexAssumption, Zenon DEF IInv, TypeOK
  <2> QED
    BY <2>2, <2>3, MutexAssumption
<1>6. \A k \in 1 .. Len(waiters) : waiters[k] \in Threads /\ waiters[k] # owner
  <2> TAKE k \in 1 .. Len(waiters)
  <2>1. waiters[k] \in Threads /\ Contains(waiters, waiters[k])
    BY SMTT(30) DEF Contains, IInv, TypeOK
  <2> QED
    BY <2>1, Zenon DEF IInv, CallInv, Suspended
<1>7. flag = RT_IPC_FLAG_PRIO => Sorted(waiters, Priority)
  <2>1. \A k \in 1 .. Len(waiters) : current_priority[waiters[k]] = Priority[waiters[k]]
    BY <1>6, Zenon DEF IInv, PriorityInv, PriorityRestored
  <2> QED
    BY <2>1, Zenon DEF IInv, PriorityInv, Sorted
<1>8. CASE waiters = <<>>
  <2>1. /\ owner' = NoThread /\ original_priority' = NoPriority /\ value' = 1 /\ hold' = 0
        /\ waiters' = <<>> /\ current_priority' = Priority
    BY <1>1, <1>4, <1>5, <1>8 DEF PassOn
  <2>2. \A u \in Threads : ~ Suspended(u)' /\ ~ Suspended(u)
    BY <1>8, <2>1 DEF Suspended, Contains
  <2>3. TypeOK'
    BY <1>10, <2>1, MutexAssumption DEF TypeOK, NoPriority, IsInjective
  <2>4. TakenMeansOwned'
    BY <1>3 DEF TakenMeansOwned
  <2>5. NoStrandedOwner'
    BY <2>1, Zenon DEF NoStrandedOwner
  <2>6. CallInv'
    BY <1>1, <1>3, <1>4, <2>2, Zenon DEF IInv, CallInv, HandedOver
  <2>7. PriorityInv'
    BY <2>1 DEF PriorityInv, PriorityRestored, NoInversion, Sorted
  <2> QED
    BY <2>3, <2>4, <2>5, <2>6, <2>7, Zenon DEF IInv
<1>9. CASE waiters # <<>>
  <2> DEFINE h == Head(waiters)  new == Tail(waiters)
  <2>1. /\ h \in Threads /\ Contains(waiters, h)
        /\ new \in Seq(Threads) /\ IsInjective(new)
        /\ \A u \in Threads : Contains(new, u) <=> Contains(waiters, u) /\ u # h
        /\ Sorted(waiters, Priority) => /\ Sorted(new, Priority)
                                       /\ \A k \in 1 .. Len(new) : Priority[h] <= Priority[new[k]]
    BY <1>9, TailProperties, Zenon DEF IInv, TypeOK
  <2>2. owner' = h /\ original_priority' = current_priority[h] /\ hold' = 1 /\ waiters' = new
        /\ value' = 0 /\ current_priority' = Priority
    BY <1>1, <1>4, <1>5, <1>9, Zenon DEF PassOn, Own
  <2> HIDE DEF h, new
  <2>3. h # t /\ call[h] # "out" /\ error[h] = "EOK" /\ current_priority[h] = Priority[h]
    BY <1>1, <2>1, Zenon DEF IInv, CallInv, Suspended, PriorityInv, PriorityRestored
  <2>4. \A u \in Threads : Suspended(u)' <=> Suspended(u) /\ u # h
    BY <2>1, <2>2, Zenon DEF Suspended
  <2>5. TypeOK'
    <3>1. original_priority' \in Nat
      BY <2>1, <2>2, <2>3, MutexAssumption, Zenon
    <3> QED
      BY <1>10, <2>1, <2>2, <3>1, MutexAssumption, Zenon DEF TypeOK
  <2>6. TakenMeansOwned'
    BY <1>3 DEF TakenMeansOwned
  <2>7. NoStrandedOwner'
    BY <1>4, <2>1, <2>2, <2>3, <2>4, MutexAssumption DEF NoStrandedOwner
  <2>8. CallInv'
    BY <1>1, <1>3, <1>4, <2>1, <2>2, <2>3, <2>4, Zenon DEF IInv, CallInv, HandedOver
  <2>9. PriorityInv'
    BY <1>4, <1>7, <2>1, <2>2, <2>3, Zenon DEF PriorityInv, PriorityRestored, NoInversion
  <2> QED
    BY <2>5, <2>6, <2>7, <2>8, <2>9, Zenon DEF IInv
<1> QED
  BY <1>8, <1>9, Zenon

LEMMA Invariance == Spec => []IInv
<1>1. IInv /\ UNCHANGED vars => IInv'
  BY DEF vars, mutex, IInv, TypeOK, TakenMeansOwned, NoStrandedOwner, CallInv, HandedOver, Suspended,
     PriorityInv, PriorityRestored, Sorted, NoInversion
<1>2. IInv /\ Next => IInv'
  BY TakeAgainInv, TakeFreeInv, TakeBusyInv, TakeReturnInv, ReleaseOneInv, ReleaseLastInv,
     ReleaseByOtherInv, TimeoutInv, Zenon DEF Next, Step
<1> QED
  BY InitInv, <1>1, <1>2, PTL DEF Spec

-----------------------------------------------------------------------------
\* Mutual exclusion: whoever has taken the mutex and not released it owns it,
\* whichever of the three ways rt_mutex_take succeeded.
THEOREM MutexExcludes == Spec => []TakenMeansOwned
<1>1. IInv => TakenMeansOwned
  BY Zenon DEF IInv
<1> QED
  BY Invariance, <1>1, PTL

\* The hand-over of rt_mutex_release and the timers of the waiting threads
\* never leave the mutex with an owner that does not know of it.
THEOREM MutexNotStranded == Spec => []NoStrandedOwner
<1>1. IInv => NoStrandedOwner
  BY Zenon DEF IInv
<1> QED
  BY Invariance, <1>1, PTL

\* A priority raised by rt_mutex_take is back when the mutex is released.
THEOREM PriorityComesBack == Spec => []PriorityRestored
<1>1. IInv => PriorityRestored
  BY Zenon DEF IInv, PriorityInv
<1> QED
  BY Invariance, <1>1, PTL

\* With RT_IPC_FLAG_PRIO no owner is less urgent than a waiting thread.
THEOREM MutexNotInverted == Spec => []NoInversion
<1>1. IInv => NoInversion
  BY Zenon DEF IInv, PriorityInv
<1> QED
  BY Invariance, <1>1, PTL

-----------------------------------------------------------------------------
\* What is left of the invariant of RtMutex when a thread may be resumed from
\* a wait that is not over, and the owner may be deleted: a waiting thread is
\* in rt_mutex_take and not the owner, and the mutex keeps the owner's own
\* priority.  Nothing is known of error and depth any more.
SoundInv ==
  /\ owner \in Threads \cup {NoThread} /\ value \in {0, 1}
  /\ waiters \in Seq(Threads) /\ IsInjective(waiters)
  /\ current_priority \in [Threads -> Nat]
  /\ call \in [Threads -> {"out", "ticks", "forever"}]
  /\ \A t \in Threads : Suspended(t) => call[t] # "out" /\ t # owner
  /\ owner # NoThread => original_priority = Priority[owner]
  /\ ObjectSound

LEMMA InitSound == PeriodicInit => SoundInv
<1> SUFFICES ASSUME PeriodicInit PROVE SoundInv
  BY Zenon
<1>1. ~ \E t \in Threads : Suspended(t)
  BY DEF PeriodicInit, Init, Suspended, Contains
<1> QED
  BY <1>1, MutexAssumption DEF PeriodicInit, Init, SoundInv, ObjectSound, PriorityRestored, IsInjective

LEMMA TakeAgainSound == ASSUME SoundInv, NEW t \in Threads, TakeAgain(t) PROVE SoundInv'
BY MutexAssumption, Zenon DEF TakeAgain, SoundInv, ObjectSound, PriorityRestored, Suspended

LEMMA TakeFreeSound == ASSUME SoundInv, NEW t \in Threads, TakeFree(t) PROVE SoundInv'
<1>1. owner = NoThread /\ value = 1 /\ waiters = <<>>
  BY DEF TakeFree, SoundInv, ObjectSound
<1>2. value' = 0 /\ owner' = t /\ original_priority' = Priority[t]
  BY <1>1, MutexAssumption DEF TakeFree, Own, SoundInv, ObjectSound, PriorityRestored
<1>3. waiters' = waiters /\ current_priority' = current_priority /\ call' = call
  BY Zenon DEF TakeFree
<1>4. \A u \in Threads : ~ Suspended(u)'
  BY <1>1, <1>3 DEF Suspended, Contains
<1> QED
  BY <1>1, <1>2, <1>3, <1>4, MutexAssumption DEF SoundInv, ObjectSound, PriorityRestored

LEMMA TakeBusySound ==
  ASSUME SoundInv, NEW t \in Threads, NEW time \in Times, TakeBusy(t, time)
  PROVE  SoundInv'
<1>1. owner \in Threads /\ owner # t /\ value = 0 /\ ~ Suspended(t)
  BY DEF TakeBusy, SoundInv, ObjectSound
<1>2. CASE time = "zero"
  BY <1>2, Zenon DEF TakeBusy, mutex, SoundInv, ObjectSound, PriorityRestored, Suspended
<1>3. CASE time # "zero"
  <2>1. current_priority' = Raised(t) /\ call' = [call EXCEPT ![t] = time]
    BY <1>3, Zenon DEF TakeBusy
  <2>2. /\ current_priority' \in [Threads -> Nat]
        /\ \A u \in Threads : u # owner => current_priority'[u] = current_priority[u]
    BY <1>1, <2>1, Zenon DEF Raised, SoundInv
  <2>3. waiters' = ListSuspend(waiters, t, flag, current_priority)
    BY <1>3, Zenon DEF TakeBusy
  <2>4. /\ waiters' \in Seq(Threads) /\ IsInjective(waiters')
        /\ \A u \in Threads : Contains(waiters', u) <=> Contains(waiters, u) \/ u = t
    BY <1>1, <2>3, SuspendProperties DEF SoundInv, Suspended
  <2>5. \A u \in Threads : Suspended(u)' <=> Suspended(u) \/ u = t
    BY <2>4, Zenon DEF Suspended
  <2>6. UNCHANGED mutex
    BY Zenon DEF TakeBusy
  <2> QED
    BY <1>1, <1>3, <2>1, <2>2, <2>4, <2>5, <2>6, MutexAssumption, Zenon
       DEF SoundInv, ObjectSound, PriorityRestored, mutex, Times
<1> QED
  BY <1>2, <1>3, Zenon

LEMMA TakeReturnSound == ASSUME SoundInv, NEW t \in Threads, TakeReturn(t) PROVE SoundInv'
BY Zenon DEF TakeReturn, mutex, SoundInv, ObjectSound, PriorityRestored, Suspended

LEMMA ReleaseByOtherSound == ASSUME SoundInv, NEW t \in Threads, ReleaseByOther(t) PROVE SoundInv'
BY Zenon DEF ReleaseByOther, mutex, SoundInv, ObjectSound, PriorityRestored, Suspended

LEMMA ReleaseSound == ASSUME SoundInv, NEW t \in Threads, Release(t) PROVE SoundInv'
<1>1. owner = t /\ t # NoThread /\ value = 0 /\ original_priority = Priority[t] /\ call' = call
  BY MutexAssumption, Zenon DEF Release, SoundInv, ObjectSound
<1>2. CASE hold # 1
  BY <1>1, <1>2, Zenon DEF Release, SoundInv, ObjectSound, PriorityRestored, Suspended
<1>3. CASE hold = 1
  <2>1. /\ current_priority' = [current_priority EXCEPT ![t] = Priority[t]]
        /\ PassOn
    BY <1>1, <1>3, Zenon DEF Release, Restored
  <2>2. current_priority' = Priority
    BY <1>1, <2>1, MutexAssumption, Zenon DEF SoundInv, ObjectSound, PriorityRestored
  <2>3. CASE waiters # <<>>
    <3>1. /\ owner' = Head(waiters) /\ original_priority' = current_priority[Head(waiters)]
          /\ waiters' = Tail(waiters) /\ value' = value
      BY <2>1, <2>3, Zenon DEF PassOn, Own
    <3>2. /\ Head(waiters) \in Threads /\ Suspended(Head(waiters))
          /\ waiters' \in Seq(Threads) /\ IsInjective(waiters')
          /\ \A u \in Threads : Suspended(u)' <=> Suspended(u) /\ u # Head(waiters)
      BY <2>3, <3>1, TailProperties, Zenon DEF SoundInv, Suspended
    <3>3. original_priority' = Priority[owner']
      BY <1>1, <3>1, <3>2, Zenon DEF SoundInv, ObjectSound, PriorityRestored
    <3> QED
      BY <1>1, <2>2, <3>1, <3>2, <3>3, MutexAssumption, Zenon DEF SoundInv, ObjectSound, PriorityRestored
  <2>4. CASE waiters = <<>>
    <3>1. owner' = NoThread /\ value' = 1 /\ hold' = 0 /\ waiters' = <<>>
      BY <1>1, <2>1, <2>4 DEF PassOn
    <3>2. \A u \in Threads : ~ Suspended(u)'
      BY <3>1 DEF Suspended, Contains
    <3> QED
      BY <1>1, <2>2, <2>4, <3>1, <3>2, MutexAssumption, Zenon DEF SoundInv, ObjectSound, PriorityRestored
  <2> QED
    BY <2>3, <2>4, Zenon
<1> QED
  BY <1>2, <1>3, Zenon

\* A thread leaves the list: rt_thread_timeout, or rt_thread_timer_f.
LEMMA LeaveSound ==
  ASSUME SoundInv, NEW t \in Threads, Suspended(t), waiters' = ListRemove(waiters, t),
         UNCHANGED <<mutex, current_priority, call>>
  PROVE  SoundInv'
<1>1. /\ waiters' \in Seq(Threads) /\ IsInjective(waiters')
      /\ \A u \in Threads : Suspended(u)' <=> Suspended(u) /\ u # t
  BY RemoveProperties, Zenon DEF SoundInv, Suspended
<1>2. owner # NoThread
  BY DEF SoundInv, ObjectSound, Suspended, Contains
<1> QED
  BY <1>1, <1>2, Zenon DEF SoundInv, ObjectSound, PriorityRestored, mutex

LEMMA NextSound == ASSUME SoundInv, [PeriodicNext]_periodicVars PROVE SoundInv'
<1>1. CASE UNCHANGED periodicVars
  BY <1>1, Zenon DEF periodicVars, vars, mutex, SoundInv, ObjectSound, PriorityRestored, Suspended
<1>2. ASSUME NEW t \in Threads, JobStep(t) PROVE SoundInv'
  BY <1>2, TakeAgainSound, TakeFreeSound, TakeBusySound, TakeReturnSound, ReleaseSound,
     ReleaseByOtherSound, Zenon DEF JobStep, Step
<1>3. ASSUME NEW t \in Threads, JobTimeout(t) PROVE SoundInv'
  BY <1>3, LeaveSound, Zenon DEF JobTimeout, Timeout
<1>4. ASSUME NEW t \in Threads, ResumeWaiting(t) PROVE SoundInv'
  BY <1>4, LeaveSound, Zenon DEF ResumeWaiting
<1>5. ASSUME NEW t \in Threads, JobEnd(t) \/ Begin(t) \/ Overrun(t) PROVE SoundInv'
  BY <1>5, Zenon DEF JobEnd, Begin, Overrun, vars, mutex, SoundInv, ObjectSound, PriorityRestored, Suspended
<1> QED
  BY <1>1, <1>2, <1>3, <1>4, <1>5, Zenon DEF PeriodicNext

\* Whenever rt_thread_timer_f resumes or deletes the users of a mutex, the
\* mutex is free exactly if nobody owns it, nobody waits for a free mutex and
\* a raised priority does not outlive the ownership.
THEOREM MutexSurvivesPeriods == PeriodicSpec => []ObjectSound
<1>1. SoundInv => ObjectSound
  BY Zenon DEF SoundInv
<1> QED
  BY <1>1, InitSound, NextSound, PTL DEF PeriodicSpec

=============================================================================
