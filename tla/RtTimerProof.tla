---------------------------- MODULE RtTimerProof ----------------------------
(***************************************************************************)
(* RtTimer keeps its types and an inductive invariant about the sorted     *)
(* list, for every number of timers and cores and every range of the tick  *)
(* counter.  The second part shows what the list promises: every timer     *)
(* counts down as Countdown says, the flags tell the truth, and a stopped  *)
(* timer stays stopped.                                                    *)
(***************************************************************************)
EXTENDS RtTimer, RtIpcProof

TickType == 0 .. TickRange - 1

\* What may be left for a timer in the list: the window in which ticks can be
\* compared.
Window == - (MaxLate + 1) .. MaxInit

\* What is left for each timer at the tick now.
LeftOf(due, now) == [u \in Timers |-> Until(due[u], now)]

\* A list sorted by what is left.
DueList(l, due, now) ==
  /\ l \in Seq(Timers) /\ IsInjective(l)
  /\ \A u \in Timers : Contains(l, u) => Until(due[u], now) \in Window
  /\ Sorted(l, LeftOf(due, now))

\* One core at a time is in the loop of rt_timer_check; it has an expiring
\* timer during the call of a timeout function and a restart.
LockInv ==
  /\ \A c, d \in CPUs : isr[c] \in Locks /\ isr[d] \in Locks => c = d
  /\ expiring # NoTimer <=> \E c \in CPUs : isr[c] \in {"callback", "restart"}

\* Which timers are in the list.
OpInv ==
  \A t \in Timers :
    /\ op[t] \in {"removed", "computed", "unlinked", "gone"} => ~Listed(t) /\ expiring # t
    /\ op[t] = "computed" => Left(t) \in - MaxLate .. MaxInit

\* The list is sorted, and no timer in it is overdue by more than a tick
\* beyond MaxLate; by no more than MaxLate between the interrupts of core 0.
ListInv ==
  /\ DueList(list, timeout_tick, tick)
  /\ isr[Cpu0] = "none" => \A t \in Timers : Listed(t) => Left(t) >= - MaxLate

\* The tick that rt_timer_check has read is at most MaxLate old.
TickInv ==
  \A c \in CPUs : isr[c] # "none" =>
    /\ TickSub(tick, current_tick[c]) <= MaxLate
    /\ c = Cpu0 => current_tick[c] = tick

IInv == TypeOK /\ LockInv /\ OpInv /\ ListInv /\ TickInv

-----------------------------------------------------------------------------
\* RT_TICK_MAX / 2 is less than half of the range.
LEMMA HalfFacts == Half \in Nat /\ 2 * Half < TickRange /\ MaxInit + MaxLate + 1 < Half
                   /\ TickRange \in Nat /\ MaxInit \in Nat /\ MaxLate \in Nat /\ MaxLate > 0
BY TimerAssumption DEF Half, RT_TICK_MAX

\* A timer started now is due in its init_tick.
LEMMA UntilAdd ==
  ASSUME NEW now \in TickType, NEW k \in 0 .. MaxInit
  PROVE  TickAdd(now, k) \in TickType /\ Until(TickAdd(now, k), now) = k
BY HalfFacts DEF TickType, TickAdd, TickSub, Until

\* A tick takes one from what is left.
LEMMA UntilTick ==
  ASSUME NEW now \in TickType, NEW a \in TickType, Until(a, now) \in - MaxLate .. MaxInit
  PROVE  TickAdd(now, 1) \in TickType /\ Until(a, TickAdd(now, 1)) = Until(a, now) - 1
BY HalfFacts DEF TickType, TickAdd, TickSub, Until

\* The comparison that sorts the list compares what is left.
LEMMA BeforeUntil ==
  ASSUME NEW now \in TickType, NEW a \in TickType, NEW b \in TickType,
         Until(a, now) \in Window, Until(b, now) \in Window
  PROVE  Before(a, b) <=> Until(a, now) < Until(b, now)
BY HalfFacts DEF TickType, TickSub, Until, Before, Window

\* What an interrupt that has read an old tick finds expired is due; and with
\* the current tick it finds everything that is due.
LEMMA ExpiredUntil ==
  ASSUME NEW now \in TickType, NEW a \in TickType, NEW old \in TickType,
         Until(a, now) \in Window, TickSub(now, old) <= MaxLate
  PROVE  /\ TickSub(old, a) < Half => Until(a, now) <= 0
         /\ old = now => (TickSub(old, a) < Half <=> Until(a, now) <= 0)
BY HalfFacts DEF TickType, TickSub, Until, Window

LEMMA LeftOfType ==
  ASSUME NEW due \in [Timers -> TickType], NEW now \in TickType
  PROVE  LeftOf(due, now) \in [Timers -> Int]
BY HalfFacts DEF LeftOf, Until, TickSub, TickType

\* A list stays sorted when every value in it changes by the same amount.
LEMMA SortedShift ==
  ASSUME NEW l \in Seq(Timers), NEW f \in [Timers -> Int], NEW g \in [Timers -> Int],
         NEW c \in Int, \A k \in 1 .. Len(l) : f[l[k]] = g[l[k]] + c
  PROVE  Sorted(l, f) <=> Sorted(l, g)
<1>1. ASSUME NEW j \in 1 .. Len(l), NEW k \in 1 .. Len(l)
      PROVE  f[l[j]] <= f[l[k]] <=> g[l[j]] <= g[l[k]]
  <2>1. l[j] \in Timers /\ l[k] \in Timers
    BY SMTT(30)
  <2>2. g[l[j]] \in Int /\ g[l[k]] \in Int
    BY <2>1, Zenon
  <2>3. f[l[j]] = g[l[j]] + c /\ f[l[k]] = g[l[k]] + c
    BY Zenon
  <2>4. \A a, b \in Int : a + c <= b + c <=> a <= b
    OBVIOUS
  <2> QED
    BY ONLY <2>2, <2>3, <2>4
<1> QED
  BY <1>1, Zenon DEF Sorted

\* What taking a timer out of the list does to it.
LEMMA RemovedProperties ==
  ASSUME NEW l \in Seq(Timers), IsInjective(l), NEW t \in Timers
  PROVE  /\ Removed(l, t) \in Seq(Timers) /\ IsInjective(Removed(l, t))
         /\ \A u \in Timers : Contains(Removed(l, t), u) <=> Contains(l, u) /\ u # t
         /\ \A prio : Sorted(l, prio) => Sorted(Removed(l, t), prio)
<1>1. CASE Contains(l, t)
  BY <1>1, RemoveProperties, Zenon DEF Removed
<1>2. CASE ~Contains(l, t)
  BY <1>2, Zenon DEF Removed, ListRemove
<1> QED
  BY <1>1, <1>2, Zenon

\* What rt_timer_start does to the list: it inserts by what is left, as
\* rt_ipc_list_suspend does by priority.
LEMMA InsertedProperties ==
  ASSUME NEW l \in Seq(Timers), IsInjective(l), NEW t \in Timers, ~Contains(l, t),
         NEW due \in [Timers -> TickType], NEW now \in TickType,
         \A u \in Timers : Contains(l, u) \/ u = t => Until(due[u], now) \in Window
  PROVE  /\ Inserted(l, t, due) \in Seq(Timers) /\ IsInjective(Inserted(l, t, due))
         /\ \A u \in Timers : Contains(Inserted(l, t, due), u) <=> Contains(l, u) \/ u = t
         /\ Sorted(l, LeftOf(due, now)) => Sorted(Inserted(l, t, due), LeftOf(due, now))
<1> DEFINE prio == [u \in Timers |-> IF Until(due[u], now) \in Window
                                       THEN Until(due[u], now) + MaxLate + 1 ELSE 0]
           new == ListSuspend(l, t, RT_IPC_FLAG_PRIO, prio)
<1>1. prio \in [Timers -> Nat]
  BY HalfFacts DEF Window
<1>2. ASSUME NEW k \in 1 .. Len(l)
      PROVE  l[k] \in Timers /\ Contains(l, l[k]) /\ Until(due[l[k]], now) \in Window
  BY DEF Contains
<1>3. ASSUME NEW k \in 1 .. Len(l) PROVE Before(due[t], due[l[k]]) <=> prio[t] < prio[l[k]]
  <2>1. Before(due[t], due[l[k]]) <=> Until(due[t], now) < Until(due[l[k]], now)
    BY <1>2, BeforeUntil, Zenon
  <2>2. Until(due[t], now) \in Window /\ Until(due[l[k]], now) \in Window
    BY <1>2, Zenon
  <2>3. prio[t] = Until(due[t], now) + MaxLate + 1 /\ prio[l[k]] = Until(due[l[k]], now) + MaxLate + 1
    BY <1>2, <2>2, Zenon
  <2> HIDE DEF prio
  <2> QED
    BY <2>1, <2>2, <2>3, HalfFacts DEF Window
<1> DEFINE later == {k \in 1 .. Len(l) : Before(due[t], due[l[k]])}
           lower == {k \in 1 .. Len(l) : prio[t] < prio[l[k]]}
<1>4. later = lower
  BY <1>3, Zenon
<1>5. Inserted(l, t, due) = new
  <2>1. Inserted(l, t, due) = InsertAt(l, IF later = {} THEN Len(l) + 1
                                          ELSE CHOOSE k \in later : \A j \in later : k <= j, t)
    BY Zenon DEF Inserted
  <2>2. new = InsertAt(l, IF lower = {} THEN Len(l) + 1
                          ELSE CHOOSE k \in lower : \A j \in lower : k <= j, t)
    <3> HIDE DEF prio
    <3> QED
      BY DEF ListSuspend, InsertPosition, RT_IPC_FLAG_PRIO, RT_IPC_FLAG_FIFO
  <2> HIDE DEF later, lower, new
  <2> QED
    BY <1>4, <2>1, <2>2, Zenon
<1>6. /\ new \in Seq(Timers) /\ IsInjective(new)
      /\ \A u \in Timers : Contains(new, u) <=> Contains(l, u) \/ u = t
      /\ Sorted(l, prio) => Sorted(new, prio)
  <2> HIDE DEF prio
  <2> QED
    BY <1>1, SuspendProperties DEF RT_IPC_FLAG_PRIO, RT_IPC_FLAG_FIFO
<1> HIDE DEF new
<1>7. ASSUME NEW s \in Seq(Timers), \A k \in 1 .. Len(s) : Contains(l, s[k]) \/ s[k] = t
      PROVE  Sorted(s, prio) <=> Sorted(s, LeftOf(due, now))
  <2>1. ASSUME NEW u \in Timers, Contains(l, u) \/ u = t
        PROVE  prio[u] = LeftOf(due, now)[u] + (MaxLate + 1)
    BY <2>1, HalfFacts, SMTT(30) DEF LeftOf, Window
  <2>2. LeftOf(due, now) \in [Timers -> Int] /\ prio \in [Timers -> Int] /\ MaxLate + 1 \in Int
    BY <1>1, LeftOfType, HalfFacts
  <2> HIDE DEF prio
  <2>3. \A k \in 1 .. Len(s) : prio[s[k]] = LeftOf(due, now)[s[k]] + (MaxLate + 1)
    BY <1>7, <2>1
  <2> QED
    BY <2>2, <2>3, SortedShift, Zenon
<1>8. \A k \in 1 .. Len(l) : Contains(l, l[k]) \/ l[k] = t
  BY <1>2, Zenon
<1>9. \A k \in 1 .. Len(new) : Contains(l, new[k]) \/ new[k] = t
  <2> TAKE k \in 1 .. Len(new)
  <2>1. new[k] \in Timers /\ Contains(new, new[k])
    BY <1>6 DEF Contains
  <2> QED
    BY <1>6, <2>1, Zenon
<1> HIDE DEF prio
<1> QED
  BY <1>5, <1>6, <1>7, <1>8, <1>9, Zenon

-----------------------------------------------------------------------------
\* Taking a timer out of the list, and forgetting when it is due.
LEMMA RemoveKeeps ==
  ASSUME NEW l, NEW due \in [Timers -> TickType], NEW now \in TickType, DueList(l, due, now),
         NEW t \in Timers, NEW later \in [Timers -> TickType],
         \A u \in Timers : u # t => later[u] = due[u]
  PROVE  /\ DueList(Removed(l, t), later, now)
         /\ \A u \in Timers : Contains(Removed(l, t), u) <=> Contains(l, u) /\ u # t
<1> DEFINE r == Removed(l, t)
<1>1. /\ r \in Seq(Timers) /\ IsInjective(r)
      /\ \A u \in Timers : Contains(r, u) <=> Contains(l, u) /\ u # t
      /\ Sorted(r, LeftOf(due, now))
  BY RemovedProperties, Zenon DEF DueList
<1> HIDE DEF r
<1>2. \A k \in 1 .. Len(r) : r[k] \in Timers /\ r[k] # t
  BY <1>1 DEF Contains
<1>3. \A k \in 1 .. Len(r) : LeftOf(later, now)[r[k]] = LeftOf(due, now)[r[k]]
  BY <1>2, Zenon DEF LeftOf
<1>4. Sorted(r, LeftOf(later, now))
  BY <1>1, <1>3, Zenon DEF Sorted
<1> QED
  BY <1>1, <1>4, Zenon DEF DueList, r

\* Putting a timer into the list.
LEMMA InsertKeeps ==
  ASSUME NEW l, NEW due \in [Timers -> TickType], NEW now \in TickType, DueList(l, due, now),
         NEW t \in Timers, ~Contains(l, t), Until(due[t], now) \in Window
  PROVE  /\ DueList(Inserted(l, t, due), due, now)
         /\ \A u \in Timers : Contains(Inserted(l, t, due), u) <=> Contains(l, u) \/ u = t
BY InsertedProperties, Zenon DEF DueList

\* Taking the first timer out of the list.
LEMMA TailKeeps ==
  ASSUME NEW l, NEW due \in [Timers -> TickType], NEW now \in TickType, DueList(l, due, now),
         l # <<>>, NEW later \in [Timers -> TickType],
         \A u \in Timers : u # Head(l) => later[u] = due[u]
  PROVE  /\ Head(l) \in Timers /\ Contains(l, Head(l))
         /\ DueList(Tail(l), later, now)
         /\ \A u \in Timers : Contains(Tail(l), u) <=> Contains(l, u) /\ u # Head(l)
         /\ \A u \in Timers : Contains(l, u) => Until(due[Head(l)], now) <= Until(due[u], now)
<1>1. l \in Seq(Timers) /\ IsInjective(l)
  BY Zenon DEF DueList
<1>2. Head(l) \in Timers /\ Contains(l, Head(l)) /\ Head(l) = l[1] /\ 1 \in 1 .. Len(l)
  BY <1>1 DEF Contains
<1> DEFINE r == Tail(l)
<1>3. /\ r \in Seq(Timers) /\ IsInjective(r)
      /\ \A u \in Timers : Contains(r, u) <=> Contains(l, u) /\ u # Head(l)
      /\ Sorted(r, LeftOf(due, now))
  BY <1>1, TailProperties, Zenon DEF DueList
<1> HIDE DEF r
<1>4. \A k \in 1 .. Len(r) : r[k] \in Timers /\ r[k] # Head(l)
  BY <1>3 DEF Contains
<1>5. \A k \in 1 .. Len(r) : LeftOf(later, now)[r[k]] = LeftOf(due, now)[r[k]]
  BY <1>4, Zenon DEF LeftOf
<1>6. Sorted(r, LeftOf(later, now))
  BY <1>3, <1>5, Zenon DEF Sorted
<1>7. DueList(r, later, now)
  BY <1>3, <1>6, Zenon DEF DueList
<1>8. ASSUME NEW u \in Timers, Contains(l, u)
      PROVE  Until(due[Head(l)], now) <= Until(due[u], now)
  <2>1. PICK k \in 1 .. Len(l) : l[k] = u
    BY <1>8, Zenon DEF Contains
  <2>2. LeftOf(due, now)[Head(l)] \in Int
    BY <1>2, LeftOfType, Zenon
  <2>3. LeftOf(due, now)[l[1]] <= LeftOf(due, now)[l[k]]
    <3>1. CASE k = 1
      BY <1>2, <2>2, <3>1
    <3>2. CASE k # 1
      <4>1. 1 < k
        BY <1>1, <2>1, <3>2
      <4> QED
        BY <1>2, <2>1, <4>1, Zenon DEF DueList, Sorted
    <3> QED
      BY <3>1, <3>2, Zenon
  <2> QED
    BY <1>2, <2>1, <2>3, Zenon DEF LeftOf
<1> QED
  BY <1>2, <1>3, <1>7, <1>8, Zenon DEF r

\* A tick that finds no timer overdue by more than MaxLate.
LEMMA TickKeeps ==
  ASSUME NEW l, NEW due \in [Timers -> TickType], NEW now \in TickType, DueList(l, due, now),
         \A u \in Timers : Contains(l, u) => Until(due[u], now) >= - MaxLate
  PROVE  /\ DueList(l, due, TickAdd(now, 1))
         /\ \A u \in Timers : Contains(l, u) =>
              Until(due[u], TickAdd(now, 1)) = Until(due[u], now) - 1
<1>1. ASSUME NEW u \in Timers, Contains(l, u)
      PROVE  /\ Until(due[u], TickAdd(now, 1)) = Until(due[u], now) - 1
             /\ Until(due[u], now) \in - MaxLate .. MaxInit
  <2>1. Until(due[u], now) \in - MaxLate .. MaxInit
    BY <1>1, HalfFacts DEF DueList, Window
  <2> QED
    BY <2>1, UntilTick, Zenon
<1>2. TickAdd(now, 1) \in TickType /\ l \in Seq(Timers) /\ - 1 \in Int
  BY HalfFacts DEF DueList, TickAdd, TickType
<1> DEFINE f == LeftOf(due, TickAdd(now, 1))
           g == LeftOf(due, now)
<1>3. PICK c \in Int : \A u \in Timers : Contains(l, u) => f[u] = g[u] + c
  <2>1. \A u \in Timers : Contains(l, u) => f[u] = g[u] + (- 1)
    BY <1>1, HalfFacts, Zenon DEF LeftOf
  <2> QED
    BY <2>1
<1>4. Sorted(l, f)
  <2>1. f \in [Timers -> Int] /\ g \in [Timers -> Int] /\ Sorted(l, g)
    BY <1>2, LeftOfType, Zenon DEF DueList
  <2> HIDE DEF f, g
  <2>2. \A k \in 1 .. Len(l) : f[l[k]] = g[l[k]] + c
    BY <1>2, <1>3 DEF Contains
  <2> QED
    BY <1>2, <2>1, <2>2, SortedShift, Zenon
<1>5. \A u \in Timers : Contains(l, u) => Until(due[u], TickAdd(now, 1)) \in Window
  BY <1>1, HalfFacts DEF Window
<1> QED
  BY <1>1, <1>4, <1>5, Zenon DEF DueList

-----------------------------------------------------------------------------
\* A step that takes t out of the list.
LEMMA TakesOut ==
  ASSUME TypeOK, ListInv, NEW t \in Timers,
         list' = Removed(list, t), timeout_tick' = Forgotten(t), tick' = tick
  PROVE  /\ DueList(list', timeout_tick', tick') /\ timeout_tick' \in [Timers -> TickType]
         /\ \A u \in Timers : Listed(u)' <=> Listed(u) /\ u # t
         /\ \A u \in Timers : u # t => Left(u)' = Left(u)
<1>1. timeout_tick \in [Timers -> TickType] /\ tick \in TickType
  BY Zenon DEF TypeOK, RT_TICK_MAX, TickType
<1>2. /\ timeout_tick' \in [Timers -> TickType]
      /\ \A u \in Timers : u # t => timeout_tick'[u] = timeout_tick[u]
  BY <1>1, HalfFacts DEF Forgotten, TickType
<1>3. /\ DueList(list', timeout_tick', tick)
      /\ \A u \in Timers : Contains(list', u) <=> Contains(list, u) /\ u # t
  BY <1>1, <1>2, RemoveKeeps, Zenon DEF ListInv
<1> QED
  BY <1>2, <1>3, Zenon DEF Listed, Left

\* A step that takes the first timer out of the list.
LEMMA TakesFirst ==
  ASSUME TypeOK, ListInv, list # <<>>,
         list' = Tail(list), timeout_tick' = Forgotten(Head(list)), tick' = tick
  PROVE  /\ DueList(list', timeout_tick', tick') /\ timeout_tick' \in [Timers -> TickType]
         /\ Head(list) \in Timers /\ Listed(Head(list))
         /\ \A u \in Timers : Listed(u)' <=> Listed(u) /\ u # Head(list)
         /\ \A u \in Timers : u # Head(list) => Left(u)' = Left(u)
         /\ \A u \in Timers : Listed(u) => Left(Head(list)) <= Left(u)
<1>1. /\ timeout_tick \in [Timers -> TickType] /\ tick \in TickType
      /\ list \in Seq(Timers) /\ Head(list) \in Timers
  BY DEF TypeOK, RT_TICK_MAX, TickType
<1>2. /\ timeout_tick' \in [Timers -> TickType]
      /\ \A u \in Timers : u # Head(list) => timeout_tick'[u] = timeout_tick[u]
  BY <1>1, HalfFacts DEF Forgotten, TickType
<1>3. /\ DueList(list', timeout_tick', tick)
      /\ Contains(list, Head(list))
      /\ \A u \in Timers : Contains(list', u) <=> Contains(list, u) /\ u # Head(list)
      /\ \A u \in Timers : Contains(list, u) =>
           Until(timeout_tick[Head(list)], tick) <= Until(timeout_tick[u], tick)
  BY <1>1, <1>2, TailKeeps, Zenon DEF ListInv
<1> QED
  BY <1>1, <1>2, <1>3, Zenon DEF Listed, Left

\* A step that starts t now.
LEMMA StartsNow ==
  ASSUME TypeOK, ListInv, NEW t \in Timers, tick' = tick,
         timeout_tick' = [timeout_tick EXCEPT ![t] = TickAdd(tick, init_tick[t])],
         list' = Inserted(Removed(list, t), t, timeout_tick')
  PROVE  /\ DueList(list', timeout_tick', tick') /\ timeout_tick' \in [Timers -> TickType]
         /\ \A u \in Timers : Listed(u)' <=> Listed(u) \/ u = t
         /\ \A u \in Timers : u # t => Left(u)' = Left(u)
         /\ Left(t)' = init_tick[t]
<1>1. /\ timeout_tick \in [Timers -> TickType] /\ tick \in TickType
      /\ init_tick[t] \in 0 .. MaxInit
  BY Zenon DEF TypeOK, RT_TICK_MAX, TickType
<1>2. /\ timeout_tick' \in [Timers -> TickType]
      /\ \A u \in Timers : u # t => timeout_tick'[u] = timeout_tick[u]
      /\ Until(timeout_tick'[t], tick) = init_tick[t]
  BY <1>1, UntilAdd, Zenon
<1> DEFINE r == Removed(list, t)
           due == timeout_tick'
<1>3. due \in [Timers -> TickType] /\ \A u \in Timers : u # t => due[u] = timeout_tick[u]
  BY <1>2, Zenon
<1>4. Until(due[t], tick) \in Window
  BY <1>1, <1>2, HalfFacts DEF Window
<1>5. list' = Inserted(r, t, due) /\ DueList(list, timeout_tick, tick)
  BY Zenon DEF ListInv
<1> HIDE DEF due
<1>6. /\ DueList(r, due, tick)
      /\ \A u \in Timers : Contains(r, u) <=> Contains(list, u) /\ u # t
  BY ONLY <1>1, <1>3, <1>5, t \in Timers, RemoveKeeps, Zenon
<1> HIDE DEF r
<1>7. ~Contains(r, t)
  BY <1>6, Zenon
<1>8. /\ DueList(Inserted(r, t, due), due, tick)
      /\ \A u \in Timers : Contains(Inserted(r, t, due), u) <=> Contains(r, u) \/ u = t
  BY ONLY <1>1, <1>3, <1>4, <1>6, <1>7, t \in Timers, InsertKeeps, Zenon
<1>9. /\ DueList(list', due, tick)
      /\ \A u \in Timers : Contains(list', u) <=> Contains(list, u) \/ u = t
  BY <1>5, <1>6, <1>8, Zenon
<1> QED
  BY <1>2, <1>9, Zenon DEF Listed, Left, due

\* IInv speaks only of these.
LEMMA IInvUnchanged == ASSUME IInv, UNCHANGED vars PROVE IInv'
BY Zenon DEF IInv, TypeOK, LockInv, OpInv, ListInv, TickInv, Listed, Left, vars, flags, check

\* Every step of a thread keeps IInv.
LEMMA IInvThread == ASSUME IInv, NEW t \in Timers, ThreadStep(t) PROVE IInv'
<1> USE DEF IInv
<1>1. CASE StartRemove(t)
  <2>1. /\ DueList(list', timeout_tick', tick') /\ timeout_tick' \in [Timers -> TickType]
        /\ \A u \in Timers : Listed(u)' <=> Listed(u) /\ u # t
        /\ \A u \in Timers : u # t => Left(u)' = Left(u)
    BY <1>1, TakesOut, Zenon DEF StartRemove, check
  <2>2. TypeOK'
    BY <1>1, <2>1, Zenon DEF StartRemove, TypeOK, Ops, flags, check, DueList, TickType, RT_TICK_MAX
  <2>3. LockInv' /\ TickInv'
    BY <1>1, Zenon DEF StartRemove, LockInv, TickInv, check
  <2>4. OpInv'
    <3>1. expiring # t
      BY <1>1, TimerAssumption, Zenon DEF StartRemove, LockInv, Locks, Locked
    <3> QED
      BY <1>1, <2>1, <3>1, Zenon DEF StartRemove, OpInv, TypeOK, check
  <2>5. ListInv'
    BY <1>1, <2>1, Zenon DEF StartRemove, ListInv, check
  <2> QED
    BY <2>2, <2>3, <2>4, <2>5, Zenon
<1>2. CASE StartCompute(t)
  <2>1. /\ timeout_tick' \in [Timers -> TickType] /\ Left(t)' \in 0 .. MaxInit
        /\ \A u \in Timers : u # t => timeout_tick'[u] = timeout_tick[u]
    <3>1. tick \in TickType /\ init_tick[t] \in 0 .. MaxInit /\ timeout_tick \in [Timers -> TickType]
      BY Zenon DEF TypeOK, TickType, RT_TICK_MAX
    <3> QED
      BY <1>2, <3>1, UntilAdd, Zenon DEF StartCompute, Left
  <2>2. TypeOK'
    BY <1>2, <2>1, Zenon DEF StartCompute, TypeOK, Ops, flags, check, TickType, RT_TICK_MAX
  <2>3. LockInv' /\ TickInv'
    BY <1>2, Zenon DEF StartCompute, LockInv, TickInv, check
  <2>4. \A u \in Timers : u # t => Left(u)' = Left(u)
    BY <1>2, <2>1, Zenon DEF StartCompute, Left
  <2>5. OpInv'
    BY <1>2, <2>1, <2>4, HalfFacts DEF StartCompute, OpInv, TypeOK, Listed, check
  <2>6. ListInv'
    <3>1. ~Contains(list, t)
      BY <1>2, Zenon DEF StartCompute, OpInv, Listed
    <3>2. list = Removed(list, t)
      BY <3>1, Zenon DEF Removed, ListRemove
    <3>3. DueList(list, timeout_tick', tick)
      <4>1. timeout_tick \in [Timers -> TickType] /\ tick \in TickType
        BY Zenon DEF TypeOK, TickType, RT_TICK_MAX
      <4> QED
        BY <2>1, <3>2, <4>1, RemoveKeeps DEF ListInv
    <3> QED
      BY <1>2, <2>4, <3>1, <3>3, Zenon DEF StartCompute, ListInv, Listed, check
  <2> QED
    BY <2>2, <2>3, <2>5, <2>6, Zenon
<1>3. CASE StartInsert(t)
  <2>1. /\ timeout_tick \in [Timers -> TickType] /\ tick \in TickType
        /\ ~Contains(list, t) /\ Until(timeout_tick[t], tick) \in Window
        /\ Left(t) >= - MaxLate /\ DueList(list, timeout_tick, tick)
    BY <1>3, HalfFacts DEF StartInsert, TypeOK, TickType, RT_TICK_MAX, OpInv, ListInv, Listed, Left, Window
  <2>2. /\ DueList(list', timeout_tick, tick)
        /\ \A u \in Timers : Contains(list', u) <=> Contains(list, u) \/ u = t
    BY <1>3, <2>1, InsertKeeps, Zenon DEF StartInsert
  <2>3. TypeOK'
    BY <1>3, <2>2, Zenon DEF StartInsert, TypeOK, Ops, check, DueList
  <2>4. LockInv' /\ TickInv'
    BY <1>3, Zenon DEF StartInsert, LockInv, TickInv, check
  <2>5. OpInv'
    BY <1>3, <2>2, Zenon DEF StartInsert, OpInv, TypeOK, Listed, Left, check
  <2>6. ListInv'
    BY <1>3, <2>1, <2>2, Zenon DEF StartInsert, ListInv, Listed, Left, check
  <2> QED
    BY <2>3, <2>4, <2>5, <2>6, Zenon
<1>4. CASE StopTest(t)
  <2>1. TypeOK'
    BY <1>4, Zenon DEF StopTest, TypeOK, Ops, flags, check
  <2>2. LockInv' /\ TickInv'
    BY <1>4, Zenon DEF StopTest, LockInv, TickInv, check
  <2>3. OpInv'
    BY <1>4, Zenon DEF StopTest, OpInv, TypeOK, Listed, Left, check
  <2>4. ListInv'
    BY <1>4, Zenon DEF StopTest, ListInv, Listed, Left, check
  <2> QED
    BY <2>1, <2>2, <2>3, <2>4, Zenon
<1>5. CASE StopRemove(t)
  <2>1. /\ DueList(list', timeout_tick', tick') /\ timeout_tick' \in [Timers -> TickType]
        /\ \A u \in Timers : Listed(u)' <=> Listed(u) /\ u # t
        /\ \A u \in Timers : u # t => Left(u)' = Left(u)
    BY <1>5, TakesOut, Zenon DEF StopRemove, check
  <2>2. TypeOK'
    BY <1>5, <2>1, Zenon DEF StopRemove, TypeOK, Ops, flags, check, DueList, TickType, RT_TICK_MAX
  <2>3. LockInv' /\ TickInv'
    BY <1>5, Zenon DEF StopRemove, LockInv, TickInv, check
  <2>4. OpInv'
    <3>1. expiring # t
      BY <1>5, TimerAssumption, Zenon DEF StopRemove, LockInv, Locks, Locked
    <3> QED
      BY <1>5, <2>1, <3>1, Zenon DEF StopRemove, OpInv, TypeOK, check
  <2>5. ListInv'
    BY <1>5, <2>1, Zenon DEF StopRemove, ListInv, check
  <2> QED
    BY <2>2, <2>3, <2>4, <2>5, Zenon
<1>6. CASE StopClear(t)
  <2>1. TypeOK'
    BY <1>6, Zenon DEF StopClear, TypeOK, Ops, flags, check
  <2>2. LockInv' /\ TickInv'
    BY <1>6, Zenon DEF StopClear, LockInv, TickInv, check
  <2>3. OpInv'
    BY <1>6, Zenon DEF StopClear, OpInv, TypeOK, Listed, Left, check
  <2>4. ListInv'
    BY <1>6, Zenon DEF StopClear, ListInv, Listed, Left, check
  <2> QED
    BY <2>1, <2>2, <2>3, <2>4, Zenon
<1>7. CASE Detach(t)
  <2>1. /\ DueList(list', timeout_tick', tick') /\ timeout_tick' \in [Timers -> TickType]
        /\ \A u \in Timers : Listed(u)' <=> Listed(u) /\ u # t
        /\ \A u \in Timers : u # t => Left(u)' = Left(u)
    BY <1>7, TakesOut, Zenon DEF Detach, check
  <2>2. TypeOK'
    BY <1>7, <2>1, Zenon DEF Detach, TypeOK, Ops, flags, check, DueList, TickType, RT_TICK_MAX
  <2>3. LockInv' /\ TickInv'
    BY <1>7, Zenon DEF Detach, LockInv, TickInv, check
  <2>4. OpInv'
    <3>1. expiring # t
      BY <1>7, TimerAssumption, Zenon DEF Detach, LockInv, Locks, Locked
    <3> QED
      BY <1>7, <2>1, <3>1, Zenon DEF Detach, OpInv, TypeOK, check
  <2>5. ListInv'
    BY <1>7, <2>1, Zenon DEF Detach, ListInv, check
  <2> QED
    BY <2>2, <2>3, <2>4, <2>5, Zenon
<1>8. CASE \E n \in 0 .. MaxInit : SetTime(t, n)
  <2>1. TypeOK'
    BY <1>8, SMTT(30) DEF SetTime, TypeOK, Ops, flags, check
  <2>2. LockInv' /\ TickInv'
    BY <1>8, Zenon DEF SetTime, LockInv, TickInv, check
  <2>3. OpInv'
    BY <1>8 DEF SetTime, OpInv, TypeOK, Listed, Left, check
  <2>4. ListInv'
    BY <1>8, Zenon DEF SetTime, ListInv, Listed, Left, check
  <2> QED
    BY <2>1, <2>2, <2>3, <2>4, Zenon
<1>9. CASE \E p \in BOOLEAN : SetMode(t, p)
  <2>1. TypeOK'
    BY <1>9, Zenon DEF SetMode, TypeOK, Ops, flags, check
  <2>2. LockInv' /\ TickInv'
    BY <1>9, Zenon DEF SetMode, LockInv, TickInv, check
  <2>3. OpInv'
    BY <1>9 DEF SetMode, OpInv, TypeOK, Listed, Left, check
  <2>4. ListInv'
    BY <1>9, Zenon DEF SetMode, ListInv, Listed, Left, check
  <2> QED
    BY <2>1, <2>2, <2>3, <2>4, Zenon
<1>10. CASE \E n \in 0 .. MaxInit, p \in BOOLEAN : Create(t, n, p)
  <2>1. ~Contains(list, t) /\ timeout_tick \in [Timers -> TickType] /\ tick \in TickType
    BY <1>10, Zenon DEF Create, OpInv, Listed, TypeOK, TickType, RT_TICK_MAX
  <2>2. /\ timeout_tick' \in [Timers -> TickType]
        /\ \A u \in Timers : u # t => timeout_tick'[u] = timeout_tick[u]
    BY <1>10, <2>1, HalfFacts DEF Create, TickType
  <2>3. TypeOK'
    BY <1>10, <2>2 DEF Create, TypeOK, Ops, check, TickType, RT_TICK_MAX
  <2>4. LockInv' /\ TickInv'
    BY <1>10, Zenon DEF Create, LockInv, TickInv, check
  <2>5. \A u \in Timers : u # t => Left(u)' = Left(u)
    BY <1>10, <2>2, Zenon DEF Create, Left
  <2>6. OpInv'
    BY <1>10, <2>5 DEF Create, OpInv, TypeOK, Listed, check
  <2>7. ListInv'
    <3>1. list = Removed(list, t)
      BY <2>1, Zenon DEF Removed, ListRemove
    <3>2. DueList(list, timeout_tick', tick)
      BY <2>1, <2>2, <3>1, RemoveKeeps DEF ListInv
    <3> QED
      BY <1>10, <2>1, <2>5, <3>2 DEF Create, ListInv, Listed, check
  <2> QED
    BY <2>3, <2>4, <2>6, <2>7, Zenon
<1> QED
  BY <1>1, <1>2, <1>3, <1>4, <1>5, <1>6, <1>7, <1>8, <1>9, <1>10, Zenon DEF ThreadStep

\* The tick keeps IInv: between its interrupts core 0 leaves no timer overdue
\* by more than MaxLate, so the tick leaves none beyond the window.
LEMMA IInvTick == ASSUME IInv, TickIncrease PROVE IInv'
<1> USE DEF IInv
<1>1. /\ timeout_tick \in [Timers -> TickType] /\ tick \in TickType /\ Cpu0 \in CPUs
      /\ tick' = TickAdd(tick, 1) /\ tick' \in TickType
  <2>1. timeout_tick \in [Timers -> TickType] /\ tick \in TickType
    BY Zenon DEF TypeOK, TickType, RT_TICK_MAX
  <2>2. tick' = TickAdd(tick, 1)
    BY Zenon DEF TickIncrease
  <2>3. TickAdd(tick, 1) \in TickType
    BY <2>1, HalfFacts DEF TickType, TickAdd
  <2> QED
    BY <2>1, <2>2, <2>3, TimerAssumption, Zenon
<1>2. TypeOK'
  BY <1>1, Zenon DEF TickIncrease, TypeOK, Phases, flags, TickType, RT_TICK_MAX
<1>3. LockInv'
  BY <1>1, Zenon DEF TickIncrease, LockInv, TypeOK, Locks
<1>4. \A u \in Timers : Contains(list, u) => Until(timeout_tick[u], tick) >= - MaxLate
  BY Zenon DEF TickIncrease, ListInv, Listed, Left
<1>5. DueList(list, timeout_tick, TickAdd(tick, 1))
  BY <1>1, <1>4, TickKeeps, Zenon DEF ListInv
<1>6. ListInv'
  BY <1>1, <1>5, Zenon DEF TickIncrease, ListInv, TypeOK
<1>7. OpInv'
  <2>1. ASSUME NEW t \in Timers, op[t] = "computed"
        PROVE  Until(timeout_tick[t], TickAdd(tick, 1)) \in - MaxLate .. MaxInit
    <3>1. Until(timeout_tick[t], tick) \in - MaxLate .. MaxInit
      BY <2>1, Zenon DEF OpInv, Left
    <3>2. Until(timeout_tick[t], tick) # - MaxLate
      <4>1. TickSub(timeout_tick[t], tick) # TickRange - MaxLate /\ timeout_tick[t] \in TickType
        BY <1>1, <2>1, Zenon DEF TickIncrease, InTime
      <4> QED
        BY <1>1, <4>1, HalfFacts DEF Until, TickSub, TickType
    <3>3. Until(timeout_tick[t], TickAdd(tick, 1)) = Until(timeout_tick[t], tick) - 1
      BY <1>1, <3>1, UntilTick, Zenon
    <3> QED
      BY <3>1, <3>2, <3>3, HalfFacts
  <2> QED
    BY <1>1, <2>1, Zenon DEF TickIncrease, OpInv, Listed, Left
<1>8. TickInv'
  <2>1. ASSUME NEW c \in CPUs, isr[c] # "none"
        PROVE  TickSub(TickAdd(tick, 1), current_tick[c]) <= MaxLate
    <3>1. /\ TickSub(tick, current_tick[c]) <= MaxLate
          /\ TickSub(tick, current_tick[c]) # MaxLate
          /\ current_tick[c] \in TickType
      BY <2>1, Zenon DEF TickIncrease, InTime, TickInv, TypeOK, TickType, RT_TICK_MAX
    <3> QED
      BY <1>1, <3>1, HalfFacts DEF TickSub, TickAdd, TickType
  <2>2. TickSub(tick', tick') <= MaxLate
    BY <1>1, HalfFacts DEF TickSub, TickType
  <2> QED
    BY <1>1, <2>1, <2>2, Zenon DEF TickIncrease, TickInv, TypeOK
<1> QED
  BY <1>2, <1>3, <1>6, <1>7, <1>8, Zenon

\* A core in the loop of rt_timer_check is the only one.
LEMMA OnlyOne ==
  ASSUME IInv, NEW c \in CPUs, isr[c] \in Locks
  PROVE  \A d \in CPUs : isr[d] \in Locks => d = c
BY Zenon DEF IInv, LockInv

\* A core in the call of a timeout function or in a restart has a timer.
LEMMA HasTimer ==
  ASSUME IInv, NEW c \in CPUs, isr[c] \in {"callback", "restart"}
  PROVE  expiring \in Timers /\ op[expiring] \in {"none", "tested"}
BY Zenon DEF IInv, LockInv, TypeOK, OpInv, Ops

\* Every step of rt_timer_check keeps IInv.
LEMMA IInvCheck ==
  ASSUME IInv, NEW c \in CPUs,
         CheckRead(c) \/ CheckStep(c) \/ \E t \in Timers : CallbackStart(c, t) \/ CallbackStop(c, t)
  PROVE  IInv'
<1> USE DEF IInv
<1>1. CASE CheckRead(c)
  <2>1. TypeOK'
    BY <1>1, Zenon DEF CheckRead, TypeOK, Phases, flags
  <2>2. LockInv'
    BY <1>1, Zenon DEF CheckRead, LockInv, TypeOK, Locks
  <2>3. OpInv' /\ ListInv'
    BY <1>1 DEF CheckRead, OpInv, ListInv, TypeOK, Listed, Left
  <2>4. TickInv'
    <3>1. TickSub(tick, tick) = 0
      BY DEF TickSub, TypeOK, RT_TICK_MAX
    <3> QED
      BY <1>1, <3>1, HalfFacts DEF CheckRead, TickInv, TypeOK
  <2> QED
    BY <2>1, <2>2, <2>3, <2>4, Zenon
<1>2. CASE CheckLock(c)
  <2>1. TypeOK'
    BY <1>2, Zenon DEF CheckLock, TypeOK, Phases, flags
  <2>2. LockInv'
    BY <1>2, Zenon DEF CheckLock, LockInv, TypeOK, Locks, Locked
  <2>3. OpInv' /\ ListInv'
    BY <1>2 DEF CheckLock, OpInv, ListInv, TypeOK, Listed, Left
  <2>4. TickInv'
    BY <1>2, Zenon DEF CheckLock, TickInv, TypeOK
  <2> QED
    BY <2>1, <2>2, <2>3, <2>4, Zenon
<1>3. CASE CheckExpire(c)
  <2>1. /\ DueList(list', timeout_tick', tick') /\ timeout_tick' \in [Timers -> TickType]
        /\ Head(list) \in Timers /\ Listed(Head(list))
        /\ \A u \in Timers : Listed(u)' <=> Listed(u) /\ u # Head(list)
        /\ \A u \in Timers : u # Head(list) => Left(u)' = Left(u)
    BY <1>3, TakesFirst, Zenon DEF CheckExpire, FirstExpired
  <2>2. TypeOK'
    BY <1>3, <2>1, ZenonT(30) DEF CheckExpire, TypeOK, Phases, flags, DueList, TickType, RT_TICK_MAX
  <2>3. LockInv'
    BY <1>3, <2>1, OnlyOne, TimerAssumption, SMTT(30) DEF CheckExpire, LockInv, TypeOK, Locks
  <2>4. OpInv'
    BY <1>3, <2>1, Zenon DEF CheckExpire, OpInv, TypeOK
  <2>5. ListInv'
    BY <1>3, <2>1, SMTT(30) DEF CheckExpire, ListInv, TypeOK
  <2>6. TickInv'
    BY <1>3, Zenon DEF CheckExpire, TickInv, TypeOK
  <2> QED
    BY <2>2, <2>3, <2>4, <2>5, <2>6, Zenon
<1>4. ASSUME NEW t \in Timers, CallbackStart(c, t) PROVE IInv'
  <2>1. /\ DueList(list', timeout_tick', tick') /\ timeout_tick' \in [Timers -> TickType]
        /\ \A u \in Timers : Listed(u)' <=> Listed(u) \/ u = t
        /\ \A u \in Timers : u # t => Left(u)' = Left(u)
        /\ Left(t)' = init_tick[t] /\ init_tick[t] \in 0 .. MaxInit
    BY <1>4, StartsNow, Zenon DEF CallbackStart, TypeOK
  <2>2. TypeOK'
    BY <1>4, <2>1, SMTT(30) DEF CallbackStart, TypeOK, check, DueList, TickType, RT_TICK_MAX
  <2>3. LockInv' /\ TickInv'
    BY <1>4, Zenon DEF CallbackStart, LockInv, TickInv, check
  <2>4. OpInv'
    BY <1>4, <2>1, Zenon DEF CallbackStart, OpInv, check
  <2>5. ListInv'
    <3>1. isr' = isr
      BY <1>4, Zenon DEF CallbackStart, check
    <3>2. \A u \in Timers : Listed(u)' => (Left(u)' = Left(u) /\ Listed(u)) \/ Left(u)' >= - MaxLate
      BY <2>1, HalfFacts, SMTT(30)
    <3> QED
      BY <2>1, <3>1, <3>2, Zenon DEF ListInv
  <2> QED
    BY <2>2, <2>3, <2>4, <2>5, Zenon
<1>5. ASSUME NEW t \in Timers, CallbackStop(c, t) PROVE IInv'
  <2>1. /\ DueList(list', timeout_tick', tick') /\ timeout_tick' \in [Timers -> TickType]
        /\ \A u \in Timers : Listed(u)' <=> Listed(u) /\ u # t
        /\ \A u \in Timers : u # t => Left(u)' = Left(u)
    BY <1>5, TakesOut, Zenon DEF CallbackStop
  <2>2. TypeOK'
    BY <1>5, <2>1, Zenon DEF CallbackStop, TypeOK, check, DueList, TickType, RT_TICK_MAX
  <2>3. LockInv' /\ TickInv'
    BY <1>5, Zenon DEF CallbackStop, LockInv, TickInv, check
  <2>4. OpInv'
    BY <1>5, <2>1, Zenon DEF CallbackStop, OpInv, check
  <2>5. ListInv'
    BY <1>5, <2>1, SMTT(30) DEF CallbackStop, ListInv, check
  <2> QED
    BY <2>2, <2>3, <2>4, <2>5, Zenon
<1>6. CASE CheckReturn(c)
  <2>1. expiring \in Timers
    BY <1>6, HasTimer, Zenon DEF CheckReturn
  <2>2. TypeOK'
    BY <1>6, <2>1, ZenonT(30) DEF CheckReturn, TypeOK, Phases
  <2>3. LockInv'
    BY <1>6, <2>1, OnlyOne, TimerAssumption, ZenonT(30) DEF CheckReturn, LockInv, TypeOK, Locks
  <2>4. OpInv' /\ ListInv'
    BY <1>6, <2>1, TimerAssumption, Zenon DEF CheckReturn, OpInv, ListInv, TypeOK, Listed, Left
  <2>5. TickInv'
    <3>1. TickSub(tick, tick) = 0
      BY DEF TickSub, TypeOK, RT_TICK_MAX
    <3> QED
      BY <1>6, <3>1, HalfFacts DEF CheckReturn, TickInv, TypeOK
  <2> QED
    BY <2>2, <2>3, <2>4, <2>5, Zenon
<1>7. CASE CheckRestart(c)
  <2>1. PICK t \in Timers : t = expiring /\ op[t] \notin {"removed", "computed", "unlinked", "gone"}
    BY <1>7, HasTimer, Zenon DEF CheckRestart
  <2>2. /\ DueList(list', timeout_tick', tick') /\ timeout_tick' \in [Timers -> TickType]
        /\ \A u \in Timers : Listed(u)' <=> Listed(u) \/ u = t
        /\ \A u \in Timers : u # t => Left(u)' = Left(u)
        /\ Left(t)' = init_tick[t] /\ init_tick[t] \in 0 .. MaxInit
    <3>1. /\ tick' = tick /\ init_tick[t] \in 0 .. MaxInit
          /\ timeout_tick' = [timeout_tick EXCEPT ![t] = TickAdd(tick, init_tick[t])]
          /\ list' = Inserted(Removed(list, t), t, timeout_tick')
      BY <1>7, <2>1, Zenon DEF CheckRestart, TypeOK
    <3> QED
      BY <3>1, StartsNow, Zenon
  <2>3. TypeOK'
    BY <1>7, <2>1, <2>2, SMTT(30) DEF CheckRestart, TypeOK, Phases, DueList, TickType, RT_TICK_MAX
  <2>4. LockInv'
    BY <1>7, OnlyOne, SMTT(30) DEF CheckRestart, LockInv, TypeOK, Locks
  <2>5. OpInv'
    BY <1>7, <2>1, <2>2, TimerAssumption, Zenon DEF CheckRestart, OpInv
  <2>6. ListInv'
    <3>1. isr'[Cpu0] = "none" => isr[Cpu0] = "none"
      BY <1>7, TimerAssumption, Zenon DEF CheckRestart, TypeOK
    <3>2. \A u \in Timers : Listed(u)' => (Left(u)' = Left(u) /\ Listed(u)) \/ Left(u)' >= - MaxLate
      BY <2>2, HalfFacts
    <3> QED
      BY <2>2, <3>1, <3>2, Zenon DEF ListInv
  <2>7. TickInv'
    BY <1>7, Zenon DEF CheckRestart, TickInv, TypeOK
  <2> QED
    BY <2>3, <2>4, <2>5, <2>6, <2>7, Zenon
<1>8. CASE CheckDone(c)
  <2>1. TypeOK'
    BY <1>8, HalfFacts, SMTT(30) DEF CheckDone, TypeOK, Phases, flags, RT_TICK_MAX
  <2>2. LockInv'
    BY <1>8, OnlyOne, Zenon DEF CheckDone, LockInv, TypeOK, Locks
  <2>3. OpInv'
    BY <1>8, Zenon DEF CheckDone, OpInv, Listed, Left
  <2>4. ASSUME c = Cpu0, NEW u \in Timers, Listed(u) PROVE Left(u) > 0
    <3>1. /\ list # <<>> /\ Head(list) \in Timers /\ Listed(Head(list))
          /\ Left(Head(list)) <= Left(u)
      <4>1. timeout_tick \in [Timers -> TickType] /\ tick \in TickType /\ list # <<>>
        BY <2>4, SMTT(30) DEF TypeOK, TickType, RT_TICK_MAX, Listed, Contains
      <4> QED
        BY <2>4, <4>1, TailKeeps, Zenon DEF ListInv, Listed, Left
    <3>2. /\ current_tick[c] = tick /\ TickSub(tick, tick) <= MaxLate /\ tick \in TickType
          /\ timeout_tick[Head(list)] \in TickType
          /\ Until(timeout_tick[Head(list)], tick) \in Window
      BY <1>8, <2>4, <3>1, HalfFacts, SMTT(30)
         DEF CheckDone, TickInv, ListInv, DueList, Listed, TypeOK, TickType, RT_TICK_MAX, TickSub
    <3>3. ~(TickSub(tick, timeout_tick[Head(list)]) < Half)
      BY <1>8, <3>1, <3>2, Zenon DEF CheckDone, FirstExpired
    <3>4. ~(Left(Head(list)) <= 0)
      BY <3>2, <3>3, ExpiredUntil, Zenon DEF Left
    <3>5. Left(Head(list)) \in Int /\ Left(u) \in Int
      BY <2>4, <3>1 DEF ListInv, DueList, Listed, Left, Window
    <3> QED
      BY <3>1, <3>4, <3>5
  <2>5. ListInv'
    <3>1. \A u \in Timers : Listed(u) => Left(u) \in Int
      BY DEF ListInv, DueList, Listed, Left, Window
    <3> QED
      BY <1>8, <2>4, <3>1, HalfFacts, SMTT(30) DEF CheckDone, ListInv, TypeOK, Listed, Left
  <2>6. TickInv'
    BY <1>8, Zenon DEF CheckDone, TickInv, TypeOK
  <2> QED
    BY <2>1, <2>2, <2>3, <2>5, <2>6, Zenon
<1> QED
  BY <1>1, <1>2, <1>3, <1>4, <1>5, <1>6, <1>7, <1>8, Zenon DEF CheckStep

\* The inductive invariant.
LEMMA IInvInit == Init => IInv
<1> SUFFICES ASSUME Init PROVE IInv
  BY Zenon
<1>1. list = <<>> /\ ~(\E u \in Timers : Contains(list, u))
  BY DEF Init, Contains
<1>2. TypeOK
  BY <1>1, HalfFacts DEF Init, TypeOK, RT_TICK_MAX, Ops, Phases, IsInjective
<1>3. LockInv /\ OpInv /\ TickInv
  BY <1>1, Zenon DEF Init, LockInv, OpInv, TickInv, Locks
<1>4. ListInv
  BY <1>1, <1>2 DEF ListInv, DueList, TypeOK, Listed, Sorted
<1> QED
  BY <1>2, <1>3, <1>4, Zenon DEF IInv

LEMMA IInvNext == IInv /\ [Next]_vars => IInv'
BY IInvUnchanged, IInvThread, IInvTick, IInvCheck, Zenon DEF Next

\* For every number of timers and cores and every range of the tick: the
\* variables keep their types, and the list is never corrupt.
THEOREM TypesPreserved == Spec => []TypeOK
<1>1. IInv => TypeOK
  BY Zenon DEF IInv
<1> QED
  BY <1>1, IInvInit, IInvNext, PTL DEF Spec

-----------------------------------------------------------------------------
\* The history variables: a stopped timer is not about to be started by
\* rt_timer_check, nor by a thread.
HistInv ==
  /\ StopSticks
  /\ FlagTellsTheTruth
  /\ \A t \in stopped : /\ expiring = t => ~activated[t]
                        /\ op[t] \notin {"removed", "computed"}
  /\ \A t \in restarted : Listed(t) /\ expiring # t

-----------------------------------------------------------------------------
\* Every step of a thread keeps the history.
LEMMA HistThread == ASSUME IInv, HistInv, NEW t \in Timers, ThreadStep(t) PROVE HistInv'
<1>0. TypeOK /\ ListInv /\ OpInv /\ LockInv
  BY Zenon DEF IInv
<1> USE <1>0 DEF HistInv, StopSticks, FlagTellsTheTruth, TypeOK
<1>1. CASE StartRemove(t)
  <2>1. \A u \in Timers : Listed(u)' <=> Listed(u) /\ u # t
    BY <1>1, TakesOut, SMTT(30) DEF StartRemove, check
  <2> QED
    BY <1>1, <2>1, Zenon DEF StartRemove, check
<1>2. CASE StartCompute(t)
  BY <1>2, Zenon DEF StartCompute, flags, check, Listed
<1>3. CASE StartInsert(t)
  <2>1. /\ timeout_tick \in [Timers -> TickType] /\ tick \in TickType
        /\ ~Contains(list, t) /\ Until(timeout_tick[t], tick) \in Window
        /\ DueList(list, timeout_tick, tick)
    BY <1>3, HalfFacts DEF StartInsert, TickType, RT_TICK_MAX, OpInv, ListInv, Listed, Left, Window
  <2>2. \A u \in Timers : Listed(u)' <=> Listed(u) \/ u = t
    BY <1>3, <2>1, InsertKeeps, Zenon DEF StartInsert, Listed
  <2> QED
    BY <1>3, <2>1, <2>2, Zenon DEF StartInsert, check, Listed
<1>4. CASE StopTest(t)
  BY <1>4, Zenon DEF StopTest, flags, check, Listed
<1>5. CASE StopRemove(t)
  <2>1. \A u \in Timers : Listed(u)' <=> Listed(u) /\ u # t
    BY <1>5, TakesOut, Zenon DEF StopRemove, check
  <2> QED
    BY <1>5, <2>1, Zenon DEF StopRemove, flags, check
<1>6. CASE StopClear(t)
  BY <1>6, Zenon DEF StopClear, flags, check, Listed, OpInv
<1>7. CASE Detach(t)
  <2>1. \A u \in Timers : Listed(u)' <=> Listed(u) /\ u # t
    BY <1>7, TakesOut, ZenonT(30) DEF Detach, check
  <2> QED
    BY <1>7, <2>1, Zenon DEF Detach, flags, check
<1>8. CASE \E n \in 0 .. MaxInit : SetTime(t, n)
  BY <1>8, SMTT(30) DEF SetTime, flags, check, Listed
<1>9. CASE \E p \in BOOLEAN : SetMode(t, p)
  BY <1>9, SMTT(30) DEF SetMode, flags, check, Listed
<1>10. CASE \E n \in 0 .. MaxInit, p \in BOOLEAN : Create(t, n, p)
  BY <1>10 DEF Create, flags, check, Listed, OpInv
<1> QED
  BY <1>1, <1>2, <1>3, <1>4, <1>5, <1>6, <1>7, <1>8, <1>9, <1>10, Zenon DEF ThreadStep

\* Every step of rt_timer_check keeps the history.
LEMMA HistCheck ==
  ASSUME IInv, HistInv, NEW c \in CPUs,
         CheckRead(c) \/ CheckStep(c) \/ \E t \in Timers : CallbackStart(c, t) \/ CallbackStop(c, t)
  PROVE  HistInv'
<1>0. TypeOK /\ ListInv /\ OpInv /\ LockInv
  BY Zenon DEF IInv
<1> USE <1>0 DEF HistInv, StopSticks, FlagTellsTheTruth, TypeOK
<1>1. CASE CheckRead(c)
  BY <1>1, Zenon DEF CheckRead, flags, Listed
<1>2. CASE CheckLock(c)
  BY <1>2, Zenon DEF CheckLock, flags, Listed
<1>3. CASE CheckExpire(c)
  <2>1. /\ Head(list) \in Timers /\ Listed(Head(list))
        /\ \A u \in Timers : Listed(u)' <=> Listed(u) /\ u # Head(list)
    BY <1>3, TakesFirst, SMTT(30) DEF CheckExpire, FirstExpired
  <2>2. expiring = NoTimer /\ \A d \in CPUs : isr'[d] # "restart"
    BY <1>3, OnlyOne, Zenon DEF CheckExpire, LockInv, Locks
  <2> QED
    BY <1>3, <2>1, <2>2, TimerAssumption, Zenon DEF CheckExpire, flags
<1>4. ASSUME NEW t \in Timers, CallbackStart(c, t) PROVE HistInv'
  <2>1. \A u \in Timers : Listed(u)' <=> Listed(u) \/ u = t
    BY <1>4, StartsNow, Zenon DEF CallbackStart
  <2> QED
    BY <1>4, <2>1, Zenon DEF CallbackStart, check
<1>5. ASSUME NEW t \in Timers, CallbackStop(c, t) PROVE HistInv'
  <2>1. \A u \in Timers : Listed(u)' <=> Listed(u) /\ u # t
    BY <1>5, TakesOut, SMTT(30) DEF CallbackStop
  <2>2. \A d \in CPUs : isr[d] # "restart"
    BY <1>5, OnlyOne, Zenon DEF CallbackStop, Locks
  <2> QED
    BY <1>5, <2>1, <2>2, SMTT(30) DEF CallbackStop, check
<1>6. CASE CheckReturn(c)
  <2>1. expiring \in Timers
    BY <1>6, HasTimer, Zenon DEF CheckReturn
  <2>2. CASE Repeats(expiring)
    BY <1>6, <2>1, <2>2, Zenon DEF CheckReturn, Listed, Repeats
  <2>3. CASE ~Repeats(expiring)
    <3>1. /\ UNCHANGED <<list, op, stopped>> /\ expiring' = NoTimer /\ \A u \in Timers : u # NoTimer
          /\ restarted' = IF Listed(expiring) THEN restarted \cup {expiring} ELSE restarted
      BY <1>6, <2>3, TimerAssumption, Zenon DEF CheckReturn
    <3>2. ~activated'[expiring] /\ \A u \in Timers \ {expiring} : activated'[u] = activated[u]
      BY <1>6, <2>1, Zenon DEF CheckReturn
    <3>3. \A u \in Timers : Listed(u)' <=> Listed(u)
      BY <3>1, Zenon DEF Listed
    <3>4. FlagTellsTheTruth'
      BY <2>1, <3>1, <3>2, <3>3, ZenonT(30)
    <3> QED
      BY <2>1, <3>1, <3>3, <3>4, Zenon
  <2> QED
    BY <2>2, <2>3, Zenon
<1>7. CASE CheckRestart(c)
  <2>1. PICK t \in Timers : t = expiring
    BY <1>7, HasTimer, Zenon DEF CheckRestart
  <2>2. \A u \in Timers : Listed(u)' <=> Listed(u) \/ u = t
    <3>1. /\ tick' = tick
          /\ timeout_tick' = [timeout_tick EXCEPT ![t] = TickAdd(tick, init_tick[t])]
          /\ list' = Inserted(Removed(list, t), t, timeout_tick')
      BY <1>7, <2>1, Zenon DEF CheckRestart
    <3> QED
      BY <3>1, StartsNow, Zenon
  <2>3. t \notin stopped /\ t \notin restarted
    BY <1>7, <2>1, Zenon DEF CheckRestart
  <2> QED
    BY <1>7, <2>1, <2>2, <2>3, TimerAssumption, SMTT(30) DEF CheckRestart
<1>8. CASE CheckDone(c)
  BY <1>8, Zenon DEF CheckDone, flags, Listed
<1> QED
  BY <1>1, <1>2, <1>3, <1>4, <1>5, <1>6, <1>7, <1>8, Zenon DEF CheckStep

LEMMA HistNext == IInv /\ HistInv /\ [Next]_vars => HistInv'
<1> SUFFICES ASSUME IInv, HistInv, [Next]_vars PROVE HistInv'
  BY Zenon
<1>1. CASE UNCHANGED vars
  BY <1>1, Zenon DEF HistInv, StopSticks, FlagTellsTheTruth, Listed, vars, flags, check
<1>2. CASE TickIncrease
  BY <1>2, Zenon DEF TickIncrease, IInv, TypeOK, HistInv, StopSticks, FlagTellsTheTruth, Listed, flags
<1> QED
  BY <1>1, <1>2, HistThread, HistCheck, Zenon DEF Next

LEMMA HistInit == Init => HistInv
BY DEF Init, HistInv, StopSticks, FlagTellsTheTruth, Listed, Contains

\* rt_timer_stop that returns RT_EOK sticks, also against the other core that
\* is just expiring the timer.
THEOREM StopsStick == Spec => []StopSticks
<1>1. HistInv => StopSticks
  BY Zenon DEF HistInv
<1> QED
  BY <1>1, IInvInit, IInvNext, HistInit, HistNext, PTL DEF Spec

\* The flag of a timer at rest says whether it is in the list, except for
\* one-shot timers that their own timeout function has started.
THEOREM FlagsTellTheTruth == Spec => []FlagTellsTheTruth
<1>1. HistInv => FlagTellsTheTruth
  BY Zenon DEF HistInv
<1> QED
  BY <1>1, IInvInit, IInvNext, HistInit, HistNext, PTL DEF Spec

-----------------------------------------------------------------------------
\* The variables of Countdown as RtTimer implements them.
LeftBar == [t \in {list[k] : k \in 1 .. Len(list)} |-> Left(t)]
CallingBar == IF Calling THEN expiring ELSE NoTimer

LEMMA BarFacts ==
  ASSUME TypeOK
  PROVE  /\ DOMAIN LeftBar = {u \in Timers : Listed(u)}
         /\ \A u \in Timers : Listed(u) => LeftBar[u] = Left(u)
         /\ LeftBar = [u \in {v \in Timers : Listed(v)} |-> Left(u)]
<1>0. list \in Seq(Timers)
  BY Zenon DEF TypeOK
<1>1. {list[k] : k \in 1 .. Len(list)} = {u \in Timers : Listed(u)}
  BY <1>0 DEF Listed, Contains
<1> QED
  BY <1>1, Zenon DEF LeftBar

LEMMA BarFactsNext ==
  ASSUME TypeOK'
  PROVE  LeftBar' = [u \in {v \in Timers : Listed(v)'} |-> Left(u)']
<1>0. list' \in Seq(Timers)
  BY Zenon DEF TypeOK
<1>1. {list'[k] : k \in 1 .. Len(list')} = {u \in Timers : Listed(u)'}
  BY <1>0 DEF Listed, Contains
<1> QED
  BY <1>1, Zenon DEF LeftBar

\* Taking a timer out of the list is Stop.
LEMMA BarWithout ==
  ASSUME TypeOK, TypeOK', NEW t \in Timers,
         \A u \in Timers : Listed(u)' <=> Listed(u) /\ u # t,
         \A u \in Timers : u # t => Left(u)' = Left(u)
  PROVE  LeftBar' = [u \in DOMAIN LeftBar \ {t} |-> LeftBar[u]]
<1>1. {v \in Timers : Listed(v)'} = DOMAIN LeftBar \ {t}
  BY BarFacts, Zenon
<1>2. \A u \in DOMAIN LeftBar \ {t} : LeftBar[u] = Left(u)'
  BY BarFacts, Zenon
<1> QED
  BY <1>1, <1>2, BarFactsNext, Zenon

\* Putting a timer into it is Start.
LEMMA BarWith ==
  ASSUME TypeOK, TypeOK', NEW t \in Timers,
         \A u \in Timers : Listed(u)' <=> Listed(u) \/ u = t,
         \A u \in Timers : u # t => Left(u)' = Left(u)
  PROVE  LeftBar' = [u \in DOMAIN LeftBar \cup {t} |-> IF u = t THEN Left(t)' ELSE LeftBar[u]]
<1>1. {v \in Timers : Listed(v)'} = DOMAIN LeftBar \cup {t}
  BY BarFacts, Zenon
<1>2. \A u \in DOMAIN LeftBar \cup {t} : Left(u)' = IF u = t THEN Left(t)' ELSE LeftBar[u]
  BY BarFacts, Zenon
<1> QED
  BY <1>1, <1>2, BarFactsNext, Zenon

\* Nothing that Countdown sees changes.
LEMMA BarSame ==
  ASSUME TypeOK, TypeOK', list' = list, \A u \in Timers : Listed(u) => Left(u)' = Left(u)
  PROVE  LeftBar' = LeftBar
<1>1. {v \in Timers : Listed(v)'} = {v \in Timers : Listed(v)}
  BY Zenon DEF Listed
<1>2. \A u \in {v \in Timers : Listed(v)} : Left(u)' = Left(u)
  BY Zenon
<1> QED
  BY <1>1, <1>2, BarFacts, BarFactsNext, Zenon

\* Every step of a thread is a Start, a Stop or nothing to Countdown.
LEMMA RefinesThread ==
  ASSUME IInv, IInv', NEW t \in Timers, ThreadStep(t)
  PROVE  /\ CallingBar' = CallingBar
         /\ \/ LeftBar' = LeftBar
            \/ LeftBar' = [u \in DOMAIN LeftBar \ {t} |-> LeftBar[u]]
            \/ \E n \in - MaxLate .. MaxInit :
                 LeftBar' = [u \in DOMAIN LeftBar \cup {t} |-> IF u = t THEN n ELSE LeftBar[u]]
<1>0. TypeOK /\ TypeOK' /\ ListInv /\ OpInv
  BY Zenon DEF IInv
<1>1. CASE StartRemove(t) \/ StopRemove(t) \/ Detach(t)
  <2>1. list' = Removed(list, t) /\ timeout_tick' = Forgotten(t) /\ tick' = tick /\ UNCHANGED check
    BY <1>1, Zenon DEF StartRemove, StopRemove, Detach
  <2>2. /\ \A u \in Timers : Listed(u)' <=> Listed(u) /\ u # t
        /\ \A u \in Timers : u # t => Left(u)' = Left(u)
    BY <1>0, <2>1, TakesOut, Zenon
  <2>3. LeftBar' = [u \in DOMAIN LeftBar \ {t} |-> LeftBar[u]]
    BY <1>0, <2>2, BarWithout, Zenon
  <2> QED
    BY <2>1, <2>3, Zenon DEF CallingBar, Calling, check
<1>2. CASE StartInsert(t)
  <2>1. /\ timeout_tick \in [Timers -> TickType] /\ tick \in TickType
        /\ ~Contains(list, t) /\ Until(timeout_tick[t], tick) \in Window
        /\ Left(t) \in - MaxLate .. MaxInit /\ DueList(list, timeout_tick, tick)
        /\ UNCHANGED <<timeout_tick, tick, check>>
    <3>1. timeout_tick \in [Timers -> TickType] /\ tick \in TickType
      BY <1>0, Zenon DEF TypeOK, TickType, RT_TICK_MAX
    <3>2. op[t] = "computed" /\ UNCHANGED <<timeout_tick, tick, check>>
      BY <1>2, Zenon DEF StartInsert
    <3>3. ~Contains(list, t) /\ Left(t) \in - MaxLate .. MaxInit
      BY <1>0, <3>2, Zenon DEF OpInv, Listed
    <3>4. Until(timeout_tick[t], tick) \in Window
      BY <3>3, HalfFacts DEF Left, Window
    <3> QED
      BY <1>0, <3>1, <3>2, <3>3, <3>4, Zenon DEF ListInv
  <2>2. \A u \in Timers : Listed(u)' <=> Listed(u) \/ u = t
    BY <1>2, <2>1, InsertKeeps, Zenon DEF StartInsert, Listed
  <2>3. \A u \in Timers : Left(u)' = Left(u)
    BY <2>1, Zenon DEF Left
  <2>4. LeftBar' = [u \in DOMAIN LeftBar \cup {t} |-> IF u = t THEN Left(t)' ELSE LeftBar[u]]
    BY <1>0, <2>2, <2>3, BarWith, Zenon
  <2> QED
    BY <2>1, <2>3, <2>4, Zenon DEF CallingBar, Calling, check
<1>3. CASE \/ StartCompute(t) \/ StopTest(t) \/ StopClear(t)
           \/ \E n \in 0 .. MaxInit, p \in BOOLEAN : SetTime(t, n) \/ SetMode(t, p) \/ Create(t, n, p)
  <2>1. /\ list' = list /\ tick' = tick /\ UNCHANGED check
        /\ \A u \in Timers : Listed(u) => timeout_tick'[u] = timeout_tick[u]
    BY <1>0, <1>3, SMTT(30) DEF StartCompute, StopTest, StopClear, SetTime, SetMode, Create, OpInv, TypeOK, flags
  <2>2. LeftBar' = LeftBar
    BY <1>0, <2>1, BarSame, Zenon DEF Left
  <2> QED
    BY <2>1, <2>2, ZenonT(30) DEF CallingBar, Calling, check
<1> QED
  BY <1>1, <1>2, <1>3, Zenon DEF ThreadStep

\* The steps of rt_timer_check that Countdown does not see.
LEMMA RefinesNothing ==
  ASSUME IInv, IInv', NEW c \in CPUs, CheckRead(c) \/ CheckLock(c) \/ CheckDone(c)
  PROVE  CallingBar' = CallingBar /\ LeftBar' = LeftBar
<1>1. /\ UNCHANGED <<tick, list, timeout_tick, expiring>>
      /\ \A d \in CPUs : isr[d] = "callback" <=> isr'[d] = "callback"
  BY Zenon DEF CheckRead, CheckLock, CheckDone, IInv, TypeOK
<1>2. LeftBar' = LeftBar
  BY <1>1, BarSame, Zenon DEF Left, IInv
<1> QED
  BY <1>1, <1>2, Zenon DEF CallingBar, Calling

\* A timer that expires is due, and none is due before it.
LEMMA RefinesExpire ==
  ASSUME IInv, IInv', NEW c \in CPUs, CheckExpire(c)
  PROVE  \E t \in Timers :
           /\ t \in DOMAIN LeftBar /\ LeftBar[t] <= 0
           /\ \A u \in DOMAIN LeftBar : LeftBar[t] <= LeftBar[u]
           /\ LeftBar' = [u \in DOMAIN LeftBar \ {t} |-> LeftBar[u]]
           /\ CallingBar = NoTimer /\ CallingBar' = t
<1>0. TypeOK /\ TypeOK' /\ ListInv /\ LockInv /\ TickInv
  BY Zenon DEF IInv
<1>1. PICK t \in Timers : t = Head(list) /\ list # <<>> /\ Listed(t)
  BY <1>0, TakesFirst, Zenon DEF CheckExpire, FirstExpired
<1>2. /\ \A u \in Timers : Listed(u)' <=> Listed(u) /\ u # t
      /\ \A u \in Timers : u # t => Left(u)' = Left(u)
      /\ \A u \in Timers : Listed(u) => Left(t) <= Left(u)
  BY <1>0, <1>1, TakesFirst, Zenon DEF CheckExpire
<1>3. Left(t) <= 0
  <2>1. /\ timeout_tick[t] \in TickType /\ tick \in TickType /\ current_tick[c] \in TickType
        /\ Until(timeout_tick[t], tick) \in Window
        /\ TickSub(tick, current_tick[c]) <= MaxLate
        /\ TickSub(current_tick[c], timeout_tick[t]) < Half
    BY <1>0, <1>1, Zenon DEF CheckExpire, FirstExpired, TickInv, ListInv, DueList, Listed, TypeOK, TickType,
                      RT_TICK_MAX
  <2> QED
    BY <2>1, ExpiredUntil, Zenon DEF Left
<1>4. LeftBar' = [u \in DOMAIN LeftBar \ {t} |-> LeftBar[u]]
  BY <1>0, <1>2, BarWithout, Zenon
<1>5. CallingBar = NoTimer /\ CallingBar' = t
  <2>1. ~Calling
    BY <1>0, OnlyOne, Zenon DEF CheckExpire, Calling, Locks
  <2>2. Calling' /\ expiring' = t
    BY <1>0, <1>1, Zenon DEF CheckExpire, Calling, TypeOK
  <2> QED
    BY <2>1, <2>2, Zenon DEF CallingBar
<1> QED
  BY <1>0, <1>1, <1>2, <1>3, <1>4, <1>5, BarFacts, Zenon

\* What a timeout function starts and stops, and the restart of a periodic
\* timer.
LEMMA RefinesStart ==
  ASSUME IInv, IInv', NEW c \in CPUs, NEW t \in Timers,
         CallbackStart(c, t) \/ CallbackStop(c, t) \/ (CheckRestart(c) /\ t = expiring)
  PROVE  /\ CallingBar' = CallingBar
         /\ \/ LeftBar' = [u \in DOMAIN LeftBar \ {t} |-> LeftBar[u]]
            \/ \E n \in - MaxLate .. MaxInit :
                 LeftBar' = [u \in DOMAIN LeftBar \cup {t} |-> IF u = t THEN n ELSE LeftBar[u]]
<1>0. TypeOK /\ TypeOK' /\ ListInv /\ LockInv
  BY Zenon DEF IInv
<1>1. CASE CallbackStop(c, t)
  <2>1. /\ \A u \in Timers : Listed(u)' <=> Listed(u) /\ u # t
        /\ \A u \in Timers : u # t => Left(u)' = Left(u)
    BY <1>0, <1>1, TakesOut, Zenon DEF CallbackStop
  <2>2. LeftBar' = [u \in DOMAIN LeftBar \ {t} |-> LeftBar[u]]
    BY <1>0, <2>1, BarWithout, Zenon
  <2> QED
    BY <1>1, <2>2, Zenon DEF CallbackStop, CallingBar, Calling, check
<1>2. CASE CallbackStart(c, t) \/ (CheckRestart(c) /\ t = expiring)
  <2>1. /\ tick' = tick /\ init_tick[t] \in - MaxLate .. MaxInit
        /\ timeout_tick' = [timeout_tick EXCEPT ![t] = TickAdd(tick, init_tick[t])]
        /\ list' = Inserted(Removed(list, t), t, timeout_tick')
    <3>1. init_tick[t] \in - MaxLate .. MaxInit
      BY <1>0, HalfFacts, SMTT(30) DEF TypeOK
    <3>2. CASE CallbackStart(c, t)
      BY <3>1, <3>2, Zenon DEF CallbackStart
    <3>3. CASE CheckRestart(c) /\ t = expiring
      BY <3>1, <3>3, Zenon DEF CheckRestart
    <3> QED
      BY <1>2, <3>2, <3>3, Zenon
  <2>2. /\ \A u \in Timers : Listed(u)' <=> Listed(u) \/ u = t
        /\ \A u \in Timers : u # t => Left(u)' = Left(u)
        /\ Left(t)' = init_tick[t]
    BY <1>0, <2>1, StartsNow, Zenon
  <2>3. LeftBar' = [u \in DOMAIN LeftBar \cup {t} |-> IF u = t THEN Left(t)' ELSE LeftBar[u]]
    BY <1>0, <2>2, BarWith, Zenon
  <2>4. CallingBar' = CallingBar
    <3>1. CASE CallbackStart(c, t)
      BY <3>1, Zenon DEF CallbackStart, CallingBar, Calling, check
    <3>2. CASE CheckRestart(c)
      <4>1. ~Calling /\ ~Calling'
        <5>1. isr[c] = "restart" /\ isr' = [isr EXCEPT ![c] = "loop"] /\ isr \in [CPUs -> Phases]
          BY <1>0, <3>2, Zenon DEF CheckRestart, TypeOK
        <5>2. \A d \in CPUs : isr[d] = "callback" => d = c
          BY <5>1, OnlyOne, Zenon DEF Locks
        <5> QED
          BY ONLY <5>1, <5>2, Zenon DEF Calling
      <4> QED
        BY <4>1, Zenon DEF CallingBar
    <3> QED
      BY <1>2, <3>1, <3>2, Zenon
  <2> QED
    BY <2>1, <2>2, <2>3, <2>4, Zenon
<1> QED
  BY <1>1, <1>2, Zenon

\* A timeout function returns.
LEMMA RefinesReturn ==
  ASSUME IInv, IInv', NEW c \in CPUs, CheckReturn(c)
  PROVE  CallingBar # NoTimer /\ CallingBar' = NoTimer /\ LeftBar' = LeftBar
<1>1. expiring \in Timers
  BY HasTimer, Zenon DEF CheckReturn
<1>2. Calling
  BY Zenon DEF CheckReturn, Calling
<1>3. ~Calling'
  BY OnlyOne, ZenonT(30) DEF CheckReturn, Calling, Locks, IInv, TypeOK
<1>4. LeftBar' = LeftBar
  BY BarSame, Zenon DEF CheckReturn, Left, IInv
<1> QED
  BY <1>1, <1>2, <1>3, <1>4, TimerAssumption, Zenon DEF CallingBar

\* A tick passes.
LEMMA RefinesTick ==
  ASSUME IInv, IInv', TickIncrease
  PROVE  /\ \A u \in DOMAIN LeftBar : LeftBar[u] >= - MaxLate
         /\ LeftBar' = [u \in DOMAIN LeftBar |-> LeftBar[u] - 1]
         /\ CallingBar' = CallingBar
<1>0. TypeOK /\ TypeOK' /\ ListInv
  BY Zenon DEF IInv
<1>1. \A u \in Timers : Listed(u) => Left(u) >= - MaxLate
  BY <1>0, Zenon DEF TickIncrease, ListInv
<1>2. \A u \in Timers : Listed(u) => Left(u)' = Left(u) - 1
  <2>1. /\ timeout_tick \in [Timers -> TickType] /\ tick \in TickType
        /\ DueList(list, timeout_tick, tick)
        /\ \A u \in Timers : Contains(list, u) => Until(timeout_tick[u], tick) >= - MaxLate
    BY <1>0, <1>1, Zenon DEF TypeOK, TickType, RT_TICK_MAX, ListInv, Listed, Left
  <2>2. \A u \in Timers : Contains(list, u) =>
          Until(timeout_tick[u], TickAdd(tick, 1)) = Until(timeout_tick[u], tick) - 1
    BY <2>1, TickKeeps, Zenon
  <2> QED
    BY <2>2, Zenon DEF TickIncrease, Listed, Left
<1>3. {v \in Timers : Listed(v)'} = DOMAIN LeftBar
  BY <1>0, BarFacts, Zenon DEF TickIncrease, Listed
<1>4. \A u \in DOMAIN LeftBar : Left(u)' = LeftBar[u] - 1
  BY <1>0, <1>2, BarFacts, Zenon
<1>5. LeftBar' = [u \in DOMAIN LeftBar |-> LeftBar[u] - 1]
  BY <1>0, <1>3, <1>4, BarFactsNext, Zenon
<1>6. CallingBar' = CallingBar
  BY <1>0, Zenon DEF TickIncrease, CallingBar, Calling, TypeOK
<1> QED
  BY <1>0, <1>1, <1>5, <1>6, BarFacts, Zenon

\* The initial state and every step are Countdown's.
LEMMA RefinesInit == Init => Abstract!Init
<1> SUFFICES ASSUME Init PROVE LeftBar = [t \in {} |-> 0] /\ CallingBar = NoTimer
  BY Zenon DEF Abstract!Init, LeftBar, CallingBar
<1>1. {list[k] : k \in 1 .. Len(list)} = {}
  BY DEF Init
<1> QED
  BY <1>1, Zenon DEF Init, LeftBar, CallingBar, Calling

LEMMA RefinesNext == IInv /\ IInv' /\ [Next]_vars => [Abstract!Next]_<<LeftBar, CallingBar>>
<1> SUFFICES ASSUME IInv, IInv', [Next]_vars PROVE Abstract!Next \/ UNCHANGED <<LeftBar, CallingBar>>
  BY Zenon
<1>1. CASE UNCHANGED vars
  BY <1>1, BarSame, Zenon DEF IInv, vars, check, CallingBar, Calling, Left
<1>2. CASE TickIncrease
  <2>1. Abstract!Tick
    BY <1>2, RefinesTick, Zenon DEF Abstract!Tick, LeftBar, CallingBar
  <2> QED
    BY <2>1, Zenon DEF Abstract!Next
<1>3. ASSUME NEW t \in Timers, ThreadStep(t) PROVE Abstract!Next \/ UNCHANGED <<LeftBar, CallingBar>>
  <2>1. \/ UNCHANGED <<LeftBar, CallingBar>>
        \/ Abstract!Stop(t)
        \/ \E n \in - MaxLate .. MaxInit : Abstract!Start(t, n)
    BY <1>3, RefinesThread, Zenon DEF Abstract!Stop, Abstract!Without, Abstract!Start, LeftBar, CallingBar
  <2> QED
    BY <2>1, Zenon DEF Abstract!Next
<1>4. ASSUME NEW c \in CPUs, CheckRead(c) \/ CheckLock(c) \/ CheckDone(c)
      PROVE  UNCHANGED <<LeftBar, CallingBar>>
  BY <1>4, RefinesNothing, Zenon
<1>5. ASSUME NEW c \in CPUs, CheckExpire(c) PROVE Abstract!Next
  <2>1. \E t \in Timers : Abstract!Expire(t)
    BY <1>5, RefinesExpire, Zenon DEF Abstract!Expire, Abstract!Without, LeftBar, CallingBar
  <2> QED
    BY <2>1, Zenon DEF Abstract!Next
<1>6. ASSUME NEW c \in CPUs, NEW t \in Timers,
             CallbackStart(c, t) \/ CallbackStop(c, t) \/ (CheckRestart(c) /\ t = expiring)
      PROVE  Abstract!Next
  <2>1. Abstract!Stop(t) \/ \E n \in - MaxLate .. MaxInit : Abstract!Start(t, n)
    BY <1>6, RefinesStart, Zenon DEF Abstract!Stop, Abstract!Without, Abstract!Start, LeftBar, CallingBar
  <2> QED
    BY <2>1, Zenon DEF Abstract!Next
<1>7. ASSUME NEW c \in CPUs, CheckReturn(c) PROVE Abstract!Next
  <2>1. Abstract!Return
    BY <1>7, RefinesReturn, Zenon DEF Abstract!Return, LeftBar, CallingBar
  <2> QED
    BY <2>1, Zenon DEF Abstract!Next
<1>8. ASSUME NEW c \in CPUs, CheckRestart(c) PROVE Abstract!Next
  <2>1. expiring \in Timers
    BY <1>8, HasTimer, Zenon DEF CheckRestart
  <2> QED
    BY <1>6, <1>8, <2>1, Zenon
<1> QED
  BY <1>1, <1>2, <1>3, <1>4, <1>5, <1>6, <1>7, <1>8, Zenon DEF Next, CheckStep

\* The sorted list with its wrapping ticks implements timers that count down
\* on their own, for every number of timers and cores and every tick range.
THEOREM TimersCountDown == Spec => ImplementsCountdown
<1>1. [Abstract!Next]_<<LeftBar, CallingBar>> <=>
      [Abstract!Next]_<<[t \in {list[k] : k \in 1 .. Len(list)} |-> Left(t)],
                        IF Calling THEN expiring ELSE NoTimer>>
  BY Zenon DEF LeftBar, CallingBar
<1> QED
  BY <1>1, IInvInit, IInvNext, RefinesInit, RefinesNext, PTL
     DEF Spec, ImplementsCountdown, Abstract!Spec

=============================================================================
