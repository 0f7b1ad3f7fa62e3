---------------------------- MODULE RtSchedProof ----------------------------
(***************************************************************************)
(* Proofs about RtSched, for any number of threads, cores and priorities:  *)
(* the ready lists, bit maps and cores agree (ListsAgree), whoever is      *)
(* suspended is awaited (SuspendedIsAwaited) and what is freed is not used *)
(* any more (FreedIsUnused).                                               *)
(*                                                                         *)
(* First come the lists, then what each operation of scheduler.c and       *)
(* thread.c does to the record of the scheduler, then the inductive        *)
(* invariant SInv, one lemma for each step of Next, and the theorems.      *)
(* RtSchedUrgency builds a second layer on SInv.                           *)
(***************************************************************************)
EXTENDS RtSched, RtIpcProof

Queues == CPUs \cup {NoCpu}

SchedType ==
  [stat : [All -> Stats], yield : [All -> BOOLEAN], oncpu : [All -> Queues],
   ready : [Queues -> Seq(All)], group : [Queues -> SUBSET Nat], current : [CPUs -> All],
   ipi : SUBSET CPUs, waiters : Seq(All), defunct : Seq(All)]

LEMMA BindType == bind_cpu \in [All -> Queues]
BY Zenon DEF bind_cpu, Queues, IdleThreads

-----------------------------------------------------------------------------
\* A list that holds exactly the threads of a set, each once.
Holds(l, S) == l \in Seq(All) /\ IsInjective(l) /\ \A t \in All : Contains(l, t) <=> t \in S

LEMMA WithoutHolds ==
  ASSUME NEW l, NEW S, Holds(l, S), NEW t \in All
  PROVE  Holds(Without(l, t), S \ {t})
<1>1. CASE Contains(l, t)
  BY <1>1, RemoveProperties, Zenon DEF Holds, Without
<1>2. CASE ~Contains(l, t)
  BY <1>2, Zenon DEF Holds, Without, ListRemove
<1> QED
  BY <1>1, <1>2, Zenon

LEMMA AppendHolds ==
  ASSUME NEW l, NEW S, Holds(l, S), NEW t \in All, t \notin S
  PROVE  Holds(Append(l, t), S \cup {t})
<1>1. /\ Append(l, t) \in Seq(All) /\ Len(Append(l, t)) = Len(l) + 1 /\ Len(l) \in Nat
      /\ \A k \in 1 .. Len(l) : Append(l, t)[k] = l[k]
      /\ Append(l, t)[Len(l) + 1] = t
  BY DEF Holds
<1>2. \A k \in 1 .. Len(l) : l[k] # t
  BY Zenon DEF Holds, Contains
<1>3. IsInjective(Append(l, t))
  BY <1>1, <1>2 DEF Holds, IsInjective
<1>4. \A u \in All : Contains(Append(l, t), u) <=> Contains(l, u) \/ u = t
  BY <1>1 DEF Contains
<1> QED
  BY <1>1, <1>3, <1>4, Zenon DEF Holds

LEMMA ConsHolds ==
  ASSUME NEW l, NEW S, Holds(l, S), NEW t \in All, t \notin S
  PROVE  Holds(<<t>> \o l, S \cup {t})
<1>1. /\ <<t>> \o l \in Seq(All) /\ Len(<<t>> \o l) = Len(l) + 1 /\ Len(l) \in Nat
      /\ \A k \in 1 .. Len(l) : (<<t>> \o l)[k + 1] = l[k]
      /\ (<<t>> \o l)[1] = t
  BY DEF Holds
<1>2. \A k \in 1 .. Len(l) : l[k] # t
  BY Zenon DEF Holds, Contains
<1>3. IsInjective(<<t>> \o l)
  BY <1>1, <1>2 DEF Holds, IsInjective
<1>4. \A u \in All : Contains(<<t>> \o l, u) <=> Contains(l, u) \/ u = t
  <2> DEFINE m == <<t>> \o l
  <2>1. \A k \in 1 .. Len(m) : k = 1 \/ (k - 1 \in 1 .. Len(l) /\ m[k] = l[k - 1])
    <3> SUFFICES ASSUME NEW k \in 1 .. Len(m), k # 1 PROVE k - 1 \in 1 .. Len(l) /\ m[k] = l[k - 1]
      BY Zenon
    <3>1. k - 1 \in 1 .. Len(l) /\ (k - 1) + 1 = k
      BY <1>1
    <3> QED
      BY <1>1, <3>1, Zenon
  <2>2. \A k \in 1 .. Len(l) : k + 1 \in 1 .. Len(m) /\ m[k + 1] = l[k]
    BY <1>1
  <2>3. 1 \in 1 .. Len(m) /\ m[1] = t
    BY <1>1
  <2> HIDE DEF m
  <2>4. ASSUME NEW u \in All, Contains(m, u) PROVE Contains(l, u) \/ u = t
    BY <2>1, <2>3, <2>4, Zenon DEF Contains
  <2>5. ASSUME NEW u \in All, Contains(l, u) PROVE Contains(m, u)
    BY <2>2, <2>5, Zenon DEF Contains
  <2>6. Contains(m, t)
    BY <2>3, Zenon DEF Contains
  <2> QED
    BY <2>4, <2>5, <2>6, Zenon DEF m
<1> QED
  BY <1>1, <1>3, <1>4, Zenon DEF Holds

LEMMA TailHolds ==
  ASSUME NEW l, NEW S, Holds(l, S), l # <<>>
  PROVE  Head(l) \in All /\ Head(l) \in S /\ Holds(Tail(l), S \ {Head(l)})
BY TailProperties, Zenon DEF Holds

-----------------------------------------------------------------------------
\* A ready list and its bit map hold the threads of S.
QueueOK(l, g, S) == Holds(l, S) /\ g = {Priority[t] : t \in S}

\* A bit map g after a thread of priority p is gone from list l.
Cleared(g, l, p) == IF OfPriority(l, p) = {} THEN g \ {p} ELSE g

LEMMA NoCoreIsNone == NoCpu \notin CPUs
BY SchedAssumption, Zenon

LEMMA PriorityType == Priority \in [All -> Nat]
BY SchedAssumption, Zenon

LEMMA PlacesOfPriority ==
  ASSUME NEW l, NEW S \in SUBSET All, Holds(l, S), NEW p
  PROVE  /\ OfPriority(l, p) = {} <=> ~\E u \in S : Priority[u] = p
         /\ \A k \in OfPriority(l, p) : l[k] \in S
BY DEF Holds, OfPriority, Contains

LEMMA QueueWithout ==
  ASSUME NEW l, NEW g, NEW S \in SUBSET All, QueueOK(l, g, S), NEW t \in All
  PROVE  QueueOK(Without(l, t), Cleared(g, Without(l, t), Priority[t]), S \ {t})
<1> DEFINE m == Without(l, t)
<1>1. Holds(m, S \ {t})
  BY WithoutHolds, Zenon DEF QueueOK
<1>2. OfPriority(m, Priority[t]) = {} <=> ~\E u \in S \ {t} : Priority[u] = Priority[t]
  BY <1>1, PlacesOfPriority
<1> HIDE DEF m
<1>3. g = {Priority[u] : u \in S}
  BY Zenon DEF QueueOK
<1>4. Cleared(g, m, Priority[t]) = {Priority[u] : u \in S \ {t}}
  BY <1>2, <1>3, Zenon DEF Cleared
<1> QED
  BY <1>1, <1>4, Zenon DEF QueueOK, m

LEMMA QueueAppend ==
  ASSUME NEW l, NEW g, NEW S \in SUBSET All, QueueOK(l, g, S), NEW t \in All, t \notin S
  PROVE  QueueOK(Append(l, t), g \cup {Priority[t]}, S \cup {t})
<1>1. Holds(Append(l, t), S \cup {t})
  BY AppendHolds, Zenon DEF QueueOK
<1>2. g \cup {Priority[t]} = {Priority[u] : u \in S \cup {t}}
  BY Zenon DEF QueueOK
<1> QED
  BY <1>1, <1>2, Zenon DEF QueueOK

-----------------------------------------------------------------------------
\* The threads that are ready and bound to core q, or to none.
ReadyAt(stat, q) == {t \in All : stat[t] = "READY" /\ bind_cpu[t] = q}

ReadyOK(stat, ready, group) == \A q \in Queues : QueueOK(ready[q], group[q], ReadyAt(stat, q))

LEMMA ReadyRemoved ==
  ASSUME NEW stat \in [All -> Stats], NEW ready \in [Queues -> Seq(All)],
         NEW group \in [Queues -> SUBSET Nat], ReadyOK(stat, ready, group),
         NEW t \in All, NEW x, x # "READY"
  PROVE  LET l == Without(ready[bind_cpu[t]], t) IN
         ReadyOK([stat EXCEPT ![t] = x], [ready EXCEPT ![bind_cpu[t]] = l],
                 [group EXCEPT ![bind_cpu[t]] = Cleared(@, l, Priority[t])])
<1> DEFINE b == bind_cpu[t]
           l == Without(ready[b], t)
           stat2 == [stat EXCEPT ![t] = x]
           ready2 == [ready EXCEPT ![b] = l]
           group2 == [group EXCEPT ![b] = Cleared(@, l, Priority[t])]
<1> SUFFICES ASSUME NEW q \in Queues PROVE QueueOK(ready2[q], group2[q], ReadyAt(stat2, q))
  BY Zenon DEF ReadyOK
<1>1. QueueOK(ready[q], group[q], ReadyAt(stat, q)) /\ ReadyAt(stat, q) \in SUBSET All
  BY Zenon DEF ReadyOK, ReadyAt
<1>2. b \in Queues
  BY BindType, Zenon
<1>3. CASE q = b
  <2>1. ReadyAt(stat2, q) = ReadyAt(stat, q) \ {t}
    BY Zenon DEF ReadyAt
  <2>2. ready2[q] = l /\ group2[q] = Cleared(group[q], l, Priority[t])
    BY <1>2, <1>3, Zenon
  <2>3. QueueOK(l, Cleared(group[q], l, Priority[t]), ReadyAt(stat, q) \ {t})
    BY <1>1, <1>3, QueueWithout, Zenon
  <2> QED
    BY <2>1, <2>2, <2>3, Zenon
<1>4. CASE q # b
  <2>1. ReadyAt(stat2, q) = ReadyAt(stat, q)
    BY <1>4, Zenon DEF ReadyAt
  <2>2. ready2[q] = ready[q] /\ group2[q] = group[q]
    BY <1>2, <1>4, Zenon
  <2> QED
    BY <1>1, <2>1, <2>2, Zenon
<1> QED
  BY <1>3, <1>4, Zenon

LEMMA ReadyInserted ==
  ASSUME NEW stat \in [All -> Stats], NEW ready \in [Queues -> Seq(All)],
         NEW group \in [Queues -> SUBSET Nat], ReadyOK(stat, ready, group),
         NEW t \in All, stat[t] # "READY"
  PROVE  ReadyOK([stat EXCEPT ![t] = "READY"], [ready EXCEPT ![bind_cpu[t]] = Append(@, t)],
                 [group EXCEPT ![bind_cpu[t]] = @ \cup {Priority[t]}])
<1> DEFINE b == bind_cpu[t]
           stat2 == [stat EXCEPT ![t] = "READY"]
           ready2 == [ready EXCEPT ![b] = Append(@, t)]
           group2 == [group EXCEPT ![b] = @ \cup {Priority[t]}]
<1> SUFFICES ASSUME NEW q \in Queues PROVE QueueOK(ready2[q], group2[q], ReadyAt(stat2, q))
  BY Zenon DEF ReadyOK
<1>1. QueueOK(ready[q], group[q], ReadyAt(stat, q)) /\ ReadyAt(stat, q) \in SUBSET All
  BY Zenon DEF ReadyOK, ReadyAt
<1>2. b \in Queues /\ t \notin ReadyAt(stat, q)
  BY BindType, Zenon DEF ReadyAt
<1>3. CASE q = b
  <2>1. ReadyAt(stat2, q) = ReadyAt(stat, q) \cup {t}
    BY <1>3, Zenon DEF ReadyAt
  <2>2. ready2[q] = Append(ready[q], t) /\ group2[q] = group[q] \cup {Priority[t]}
    BY <1>2, <1>3, Zenon
  <2>3. QueueOK(Append(ready[q], t), group[q] \cup {Priority[t]}, ReadyAt(stat, q) \cup {t})
    BY <1>1, <1>2, QueueAppend, Zenon
  <2> QED
    BY <2>1, <2>2, <2>3, Zenon
<1>4. CASE q # b
  <2>1. ReadyAt(stat2, q) = ReadyAt(stat, q)
    BY <1>4, Zenon DEF ReadyAt
  <2>2. ready2[q] = ready[q] /\ group2[q] = group[q]
    BY <1>2, <1>4, Zenon
  <2> QED
    BY <1>1, <2>1, <2>2, Zenon
<1> QED
  BY <1>3, <1>4, Zenon

\* Nobody becomes ready or stops being so.
LEMMA ReadySame ==
  ASSUME NEW stat, NEW stat2, NEW ready, NEW group, ReadyOK(stat, ready, group),
         \A t \in All : stat2[t] = "READY" <=> stat[t] = "READY"
  PROVE  ReadyOK(stat2, ready, group)
<1>1. \A q : ReadyAt(stat2, q) = ReadyAt(stat, q)
  BY Zenon DEF ReadyAt
<1> QED
  BY <1>1, Zenon DEF ReadyOK

-----------------------------------------------------------------------------
CoreOK(stat, oncpu, current) ==
  \A t \in All : /\ \A c \in CPUs : oncpu[t] = c <=> current[c] = t
                 /\ stat[t] = "RUNNING" => oncpu[t] # NoCpu
                 /\ oncpu[t] # NoCpu => stat[t] \notin {"none", "INIT", "READY"}

LinksOK(r) ==
  /\ r \in SchedType
  /\ ReadyOK(r.stat, r.ready, r.group)
  /\ IsInjective(r.waiters) /\ IsInjective(r.defunct)

SchedOK(r) == LinksOK(r) /\ CoreOK(r.stat, r.oncpu, r.current)

LEMMA WithoutList ==
  ASSUME NEW l \in Seq(All), IsInjective(l), NEW t \in All
  PROVE  /\ Without(l, t) \in Seq(All) /\ IsInjective(Without(l, t))
         /\ \A u \in All : Contains(Without(l, t), u) <=> Contains(l, u) /\ u # t
<1> DEFINE S == {u \in All : Contains(l, u)}
<1>1. Holds(l, S)
  BY Zenon DEF Holds
<1>2. Holds(Without(l, t), S \ {t})
  BY <1>1, WithoutHolds, Zenon
<1> QED
  BY <1>2, Zenon DEF Holds

LEMMA ConsList ==
  ASSUME NEW l \in Seq(All), IsInjective(l), NEW t \in All, ~Contains(l, t)
  PROVE  /\ <<t>> \o l \in Seq(All) /\ IsInjective(<<t>> \o l)
         /\ \A u \in All : Contains(<<t>> \o l, u) <=> Contains(l, u) \/ u = t
<1> DEFINE S == {u \in All : Contains(l, u)}
<1>1. Holds(l, S)
  BY Zenon DEF Holds
<1>2. Holds(<<t>> \o l, S \cup {t})
  BY <1>1, ConsHolds, Zenon
<1> QED
  BY <1>2, Zenon DEF Holds

LEMMA AppendList ==
  ASSUME NEW l \in Seq(All), IsInjective(l), NEW t \in All, ~Contains(l, t)
  PROVE  /\ Append(l, t) \in Seq(All) /\ IsInjective(Append(l, t))
         /\ \A u \in All : Contains(Append(l, t), u) <=> Contains(l, u) \/ u = t
<1> DEFINE S == {u \in All : Contains(l, u)}
<1>1. Holds(l, S)
  BY Zenon DEF Holds
<1>2. Holds(Append(l, t), S \cup {t})
  BY <1>1, AppendHolds, Zenon
<1> QED
  BY <1>2, Zenon DEF Holds

LEMMA TailList ==
  ASSUME NEW l \in Seq(All), IsInjective(l), l # <<>>
  PROVE  /\ Head(l) \in All /\ Contains(l, Head(l))
         /\ Tail(l) \in Seq(All) /\ IsInjective(Tail(l))
         /\ \A u \in All : Contains(Tail(l), u) <=> Contains(l, u) /\ u # Head(l)
<1> DEFINE S == {u \in All : Contains(l, u)}
<1>1. Holds(l, S)
  BY Zenon DEF Holds
<1>2. Head(l) \in All /\ Head(l) \in S /\ Holds(Tail(l), S \ {Head(l)})
  BY <1>1, TailHolds, Zenon
<1> QED
  BY <1>2, Zenon DEF Holds

-----------------------------------------------------------------------------
\* rt_schedule_remove_thread, field by field.
LEMMA RemoveFields ==
  ASSUME NEW r \in SchedType, NEW t \in All
  PROVE  LET n == RemoveThread(r, t)
             q == bind_cpu[t]
             l == Without(r.ready[q], t)
         IN  /\ n.stat = r.stat /\ n.yield = r.yield /\ n.oncpu = r.oncpu
             /\ n.current = r.current /\ n.ipi = r.ipi
             /\ n.ready = [r.ready EXCEPT ![q] = l]
             /\ n.group = [r.group EXCEPT ![q] = Cleared(@, l, Priority[t])]
             /\ n.waiters = Without(r.waiters, t) /\ n.defunct = Without(r.defunct, t)
BY Zenon DEF RemoveThread, SchedType, Cleared

LEMMA RemoveLists ==
  ASSUME NEW r, LinksOK(r), NEW t \in All
  PROVE  LET w == Without(r.waiters, t)
             d == Without(r.defunct, t)
         IN
         /\ w \in Seq(All) /\ IsInjective(w) /\ d \in Seq(All) /\ IsInjective(d)
         /\ \A u \in All : /\ Contains(w, u) <=> Contains(r.waiters, u) /\ u # t
                           /\ Contains(d, u) <=> Contains(r.defunct, u) /\ u # t
<1> DEFINE w == Without(r.waiters, t)
           d == Without(r.defunct, t)
<1>1. r.waiters \in Seq(All) /\ r.defunct \in Seq(All)
  BY Zenon DEF LinksOK, SchedType
<1>2. IsInjective(r.waiters) /\ IsInjective(r.defunct)
  BY Zenon DEF LinksOK
<1>3. /\ w \in Seq(All) /\ IsInjective(w)
      /\ \A u \in All : Contains(w, u) <=> Contains(r.waiters, u) /\ u # t
  BY <1>1, <1>2, WithoutList, Zenon
<1>4. /\ d \in Seq(All) /\ IsInjective(d)
      /\ \A u \in All : Contains(d, u) <=> Contains(r.defunct, u) /\ u # t
  BY <1>1, <1>2, WithoutList, Zenon
<1> QED
  BY <1>3, <1>4, Zenon

LEMMA RemoveType ==
  ASSUME NEW r, LinksOK(r), NEW t \in All
  PROVE  RemoveThread(r, t) \in SchedType
<1> DEFINE q == bind_cpu[t]
           l == Without(r.ready[q], t)
           ready == [r.ready EXCEPT ![q] = l]
           group == [r.group EXCEPT ![q] = Cleared(@, l, Priority[t])]
           w == Without(r.waiters, t)
           d == Without(r.defunct, t)
<1>1. r \in SchedType /\ q \in Queues
  BY BindType, Zenon DEF LinksOK
<1>2. w \in Seq(All) /\ d \in Seq(All)
  BY RemoveLists, Zenon
<1>3. r.ready \in [Queues -> Seq(All)] /\ r.group \in [Queues -> SUBSET Nat]
  BY <1>1, Zenon DEF SchedType
<1>4. Holds(r.ready[q], ReadyAt(r.stat, q))
  BY <1>1, Zenon DEF LinksOK, ReadyOK, QueueOK
<1>5. l \in Seq(All)
  <2>1. Holds(l, ReadyAt(r.stat, q) \ {t})
    BY <1>4, WithoutHolds, Zenon
  <2> QED
    BY <2>1, Zenon DEF Holds
<1>6. ready \in [Queues -> Seq(All)] /\ group \in [Queues -> SUBSET Nat]
  BY <1>3, <1>5, Zenon DEF Cleared
<1>7. RemoveThread(r, t) = [r EXCEPT !.ready = ready, !.group = group, !.waiters = w, !.defunct = d]
  BY <1>1, Zenon DEF RemoveThread, Cleared, SchedType
<1> HIDE DEF q, l, ready, group, w, d
<1> QED
  BY <1>1, <1>2, <1>6, <1>7, Zenon DEF SchedType

\* What the three do to a record of the scheduler, which becomes n.
SuspendedStep(r, n, t) ==
  /\ n.stat = [r.stat EXCEPT ![t] = "SUSPEND"]
  /\ n.oncpu = r.oncpu /\ n.current = r.current
  /\ \A u \in All : /\ Contains(n.waiters, u) <=> Contains(r.waiters, u) /\ u # t
                    /\ Contains(n.defunct, u) <=> Contains(r.defunct, u) /\ u # t

ClosedStep(r, n, t) ==
  /\ n.stat = [r.stat EXCEPT ![t] = "CLOSE"]
  /\ n.oncpu = r.oncpu /\ n.current = r.current
  /\ \A u \in All : /\ Contains(n.waiters, u) <=> Contains(r.waiters, u) /\ u # t
                    /\ Contains(n.defunct, u) <=> Contains(r.defunct, u) \/ u = t

ResumedStep(r, n, t) ==
  /\ n.stat = [r.stat EXCEPT ![t] = IF r.oncpu[t] # NoCpu THEN "RUNNING" ELSE "READY"]
  /\ n.oncpu = r.oncpu /\ n.current = r.current /\ n.defunct = r.defunct
  /\ \A u \in All : Contains(n.waiters, u) <=> Contains(r.waiters, u) /\ u # t

LEMMA SuspendedEffect ==
  ASSUME NEW r, SchedOK(r), NEW t \in All
  PROVE  SchedOK(Suspended(r, t)) /\ SuspendedStep(r, Suspended(r, t), t)
<1> DEFINE n == Suspended(r, t)
           m == RemoveThread(r, t)
           q == bind_cpu[t]
           l == Without(r.ready[q], t)
<1>1. r \in SchedType /\ m \in SchedType
  BY RemoveType, Zenon DEF SchedOK, LinksOK
<1>2. /\ m.stat = r.stat /\ m.yield = r.yield /\ m.oncpu = r.oncpu
      /\ m.current = r.current /\ m.ipi = r.ipi
      /\ m.ready = [r.ready EXCEPT ![q] = l]
      /\ m.group = [r.group EXCEPT ![q] = Cleared(@, l, Priority[t])]
      /\ m.waiters = Without(r.waiters, t) /\ m.defunct = Without(r.defunct, t)
  BY <1>1, RemoveFields, Zenon
<1>3. /\ ReadyOK(r.stat, r.ready, r.group) /\ CoreOK(r.stat, r.oncpu, r.current)
      /\ IsInjective(r.waiters) /\ IsInjective(r.defunct)
  BY Zenon DEF SchedOK, LinksOK
<1>4. /\ r.stat \in [All -> Stats] /\ r.ready \in [Queues -> Seq(All)] /\ r.group \in [Queues -> SUBSET Nat]
      /\ r.waiters \in Seq(All) /\ r.defunct \in Seq(All)
  BY <1>1, Zenon DEF SchedType
<1>5. n = [m EXCEPT !.stat[t] = "SUSPEND"]
  BY Zenon DEF Suspended
<1> HIDE DEF n, m, q, l
<1>6. /\ n \in SchedType /\ n.stat = [m.stat EXCEPT ![t] = "SUSPEND"]
      /\ n.oncpu = m.oncpu /\ n.current = m.current /\ n.ipi = m.ipi
      /\ n.ready = m.ready /\ n.group = m.group /\ n.waiters = m.waiters /\ n.defunct = m.defunct
  BY <1>1, <1>5, Zenon DEF SchedType, Stats
<1>7. ReadyOK(n.stat, n.ready, n.group)
  <2>1. ReadyOK([r.stat EXCEPT ![t] = "SUSPEND"], [r.ready EXCEPT ![q] = l],
                [r.group EXCEPT ![q] = Cleared(@, l, Priority[t])])
    BY <1>3, <1>4, ReadyRemoved, Zenon DEF q, l
  <2> QED
    BY <1>2, <1>6, <2>1, Zenon
<1>8. CoreOK(n.stat, n.oncpu, n.current)
  BY <1>2, <1>3, <1>4, <1>6 DEF CoreOK
<1>9. /\ IsInjective(n.waiters) /\ IsInjective(n.defunct)
      /\ \A u \in All : /\ Contains(n.waiters, u) <=> Contains(r.waiters, u) /\ u # t
                        /\ Contains(n.defunct, u) <=> Contains(r.defunct, u) /\ u # t
  <2> DEFINE w == Without(r.waiters, t)
             d == Without(r.defunct, t)
  <2>1. /\ IsInjective(w) /\ IsInjective(d)
        /\ \A u \in All : /\ Contains(w, u) <=> Contains(r.waiters, u) /\ u # t
                          /\ Contains(d, u) <=> Contains(r.defunct, u) /\ u # t
    BY RemoveLists, Zenon DEF SchedOK
  <2>2. n.waiters = w /\ n.defunct = d
    BY <1>2, <1>6, Zenon
  <2> QED
    BY <2>1, <2>2, Zenon
<1>10. SchedOK(n)
  BY <1>6, <1>7, <1>8, <1>9, Zenon DEF SchedOK, LinksOK
<1> QED
  BY <1>2, <1>6, <1>9, <1>10, Zenon DEF n, SuspendedStep

LEMMA ClosedEffect ==
  ASSUME NEW r, SchedOK(r), NEW t \in All
  PROVE  SchedOK(Closed(r, t)) /\ ClosedStep(r, Closed(r, t), t)
<1> DEFINE n == Closed(r, t)
           m == RemoveThread(r, t)
           q == bind_cpu[t]
           l == Without(r.ready[q], t)
<1>1. r \in SchedType /\ m \in SchedType
  BY RemoveType, Zenon DEF SchedOK, LinksOK
<1>2. /\ m.stat = r.stat /\ m.yield = r.yield /\ m.oncpu = r.oncpu
      /\ m.current = r.current /\ m.ipi = r.ipi
      /\ m.ready = [r.ready EXCEPT ![q] = l]
      /\ m.group = [r.group EXCEPT ![q] = Cleared(@, l, Priority[t])]
      /\ m.waiters = Without(r.waiters, t) /\ m.defunct = Without(r.defunct, t)
  BY <1>1, RemoveFields, Zenon
<1>3. /\ ReadyOK(r.stat, r.ready, r.group) /\ CoreOK(r.stat, r.oncpu, r.current)
      /\ IsInjective(r.waiters) /\ IsInjective(r.defunct)
  BY Zenon DEF SchedOK, LinksOK
<1>4. /\ r.stat \in [All -> Stats] /\ r.ready \in [Queues -> Seq(All)] /\ r.group \in [Queues -> SUBSET Nat]
      /\ r.waiters \in Seq(All) /\ r.defunct \in Seq(All)
  BY <1>1, Zenon DEF SchedType
<1>5. n = [m EXCEPT !.stat[t] = "CLOSE", !.defunct = <<t>> \o @]
  BY Zenon DEF Closed
<1> HIDE DEF n, m, q, l
<1>w. /\ m.waiters \in Seq(All) /\ IsInjective(m.waiters)
      /\ m.defunct \in Seq(All) /\ IsInjective(m.defunct) /\ ~Contains(m.defunct, t)
      /\ \A u \in All : /\ Contains(m.waiters, u) <=> Contains(r.waiters, u) /\ u # t
                        /\ Contains(m.defunct, u) <=> Contains(r.defunct, u) /\ u # t
  <2> DEFINE w == Without(r.waiters, t)
             d == Without(r.defunct, t)
  <2>1. /\ w \in Seq(All) /\ IsInjective(w) /\ d \in Seq(All) /\ IsInjective(d)
        /\ \A u \in All : /\ Contains(w, u) <=> Contains(r.waiters, u) /\ u # t
                          /\ Contains(d, u) <=> Contains(r.defunct, u) /\ u # t
    BY RemoveLists, Zenon DEF SchedOK
  <2>2. m.waiters = w /\ m.defunct = d
    BY <1>2, Zenon
  <2> HIDE DEF w, d
  <2> QED
    BY <2>1, <2>2, Zenon
<1>d. /\ <<t>> \o m.defunct \in Seq(All) /\ IsInjective(<<t>> \o m.defunct)
      /\ \A u \in All : Contains(<<t>> \o m.defunct, u) <=> Contains(m.defunct, u) \/ u = t
  BY <1>w, ConsList, Zenon
<1>6. /\ n \in SchedType /\ n.stat = [m.stat EXCEPT ![t] = "CLOSE"]
      /\ n.oncpu = m.oncpu /\ n.current = m.current /\ n.ipi = m.ipi
      /\ n.ready = m.ready /\ n.group = m.group /\ n.waiters = m.waiters
      /\ n.defunct = <<t>> \o m.defunct
  BY <1>1, <1>5, <1>d, Zenon DEF SchedType, Stats
<1>7. ReadyOK(n.stat, n.ready, n.group)
  <2>1. ReadyOK([r.stat EXCEPT ![t] = "CLOSE"], [r.ready EXCEPT ![q] = l],
                [r.group EXCEPT ![q] = Cleared(@, l, Priority[t])])
    BY <1>3, <1>4, ReadyRemoved, Zenon DEF q, l
  <2> QED
    BY <1>2, <1>6, <2>1, Zenon
<1>8. CoreOK(n.stat, n.oncpu, n.current)
  BY <1>2, <1>3, <1>4, <1>6 DEF CoreOK
<1>9. /\ IsInjective(n.waiters) /\ IsInjective(n.defunct)
      /\ \A u \in All : /\ Contains(n.waiters, u) <=> Contains(r.waiters, u) /\ u # t
                        /\ Contains(n.defunct, u) <=> Contains(r.defunct, u) \/ u = t
  BY <1>6, <1>w, <1>d, Zenon
<1>10. SchedOK(n)
  BY <1>6, <1>7, <1>8, <1>9, Zenon DEF SchedOK, LinksOK
<1> QED
  BY <1>2, <1>6, <1>9, <1>10, Zenon DEF n, ClosedStep

\* A thread that is on a core goes on, another one gets ready.
LEMMA ResumedEffect ==
  ASSUME NEW r, SchedOK(r), NEW t \in All, r.stat[t] # "READY", NEW c \in CPUs
  PROVE  SchedOK(Resumed(r, t, c)) /\ ResumedStep(r, Resumed(r, t, c), t)
<1> DEFINE n == Resumed(r, t, c)
           w == Without(r.waiters, t)
           q == bind_cpu[t]
<1>1. r \in SchedType /\ q \in Queues
  BY BindType, Zenon DEF SchedOK, LinksOK
<1>2. /\ ReadyOK(r.stat, r.ready, r.group) /\ CoreOK(r.stat, r.oncpu, r.current)
      /\ IsInjective(r.waiters) /\ IsInjective(r.defunct)
  BY Zenon DEF SchedOK, LinksOK
<1>3. /\ r.stat \in [All -> Stats] /\ r.ready \in [Queues -> Seq(All)] /\ r.group \in [Queues -> SUBSET Nat]
      /\ r.waiters \in Seq(All) /\ r.defunct \in Seq(All) /\ r.ipi \in SUBSET CPUs
      /\ r.oncpu \in [All -> Queues] /\ r.current \in [CPUs -> All] /\ r.yield \in [All -> BOOLEAN]
  BY <1>1, Zenon DEF SchedType
<1>4. /\ w \in Seq(All) /\ IsInjective(w)
      /\ \A u \in All : Contains(w, u) <=> Contains(r.waiters, u) /\ u # t
  BY <1>2, <1>3, WithoutList, Zenon
<1>5. CASE r.oncpu[t] # NoCpu
  <2>1. n = [r EXCEPT !.waiters = w, !.stat[t] = "RUNNING"]
    BY <1>1, <1>5, Zenon DEF Resumed, InsertThread, SchedType
  <2> HIDE DEF n, w
  <2>2. /\ n \in SchedType /\ n.stat = [r.stat EXCEPT ![t] = "RUNNING"]
        /\ n.oncpu = r.oncpu /\ n.current = r.current /\ n.defunct = r.defunct /\ n.waiters = w
        /\ n.ready = r.ready /\ n.group = r.group
    BY <1>1, <1>4, <2>1, Zenon DEF SchedType, Stats
  <2>3. \A u \in All : n.stat[u] = "READY" <=> r.stat[u] = "READY"
    BY <1>3, <2>2, Zenon
  <2>4. ReadyOK(n.stat, n.ready, n.group)
    <3>1. ReadyOK(n.stat, r.ready, r.group)
      BY <1>2, <2>3, ReadySame, Zenon
    <3> QED
      BY <2>2, <3>1, Zenon
  <2>5. CoreOK(n.stat, n.oncpu, n.current)
    BY <1>2, <1>3, <1>5, <2>2 DEF CoreOK
  <2>6. SchedOK(n)
    BY <1>2, <1>4, <2>2, <2>4, <2>5, Zenon DEF SchedOK, LinksOK
  <2> QED
    BY <1>4, <1>5, <2>2, <2>6, Zenon DEF n, ResumedStep
<1>6. CASE r.oncpu[t] = NoCpu
  <2> DEFINE ready == [r.ready EXCEPT ![q] = Append(@, t)]
             group == [r.group EXCEPT ![q] = @ \cup {Priority[t]}]
             stat  == [r.stat EXCEPT ![t] = "READY"]
             ipi   == r.ipi \cup Interrupted(t, c)
  <2>1. n = [r EXCEPT !.waiters = w, !.stat = stat, !.ready = ready, !.group = group, !.ipi = ipi]
    BY <1>1, <1>6, Zenon DEF Resumed, InsertThread, SchedType
  <2>2. ready \in [Queues -> Seq(All)] /\ stat \in [All -> Stats]
    <3>1. Append(r.ready[q], t) \in Seq(All)
      BY <1>1, <1>3
    <3> QED
      BY <1>3, <3>1, Zenon DEF Stats
  <2>3. group \in [Queues -> SUBSET Nat]
    <3>1. r.group[q] \cup {Priority[t]} \in SUBSET Nat
      BY <1>1, <1>3, PriorityType, Zenon
    <3> QED
      BY <1>3, <3>1, Zenon
  <2>4. ipi \in SUBSET CPUs
    BY <1>1, <1>3, Zenon DEF Interrupted, Queues
  <2>5. ReadyOK(stat, ready, group)
    BY <1>2, <1>3, ReadyInserted, Zenon
  <2> HIDE DEF n, w, ready, group, stat, ipi
  <2>6. /\ n \in SchedType /\ n.stat = stat
        /\ n.oncpu = r.oncpu /\ n.current = r.current /\ n.defunct = r.defunct /\ n.waiters = w
        /\ n.ready = ready /\ n.group = group
    BY <1>1, <1>4, <2>1, <2>2, <2>3, <2>4, Zenon DEF SchedType
  <2>7. CoreOK(n.stat, n.oncpu, n.current)
    BY <1>2, <1>3, <1>6, <2>6 DEF CoreOK, stat
  <2>8. SchedOK(n)
    BY <1>2, <1>4, <2>5, <2>6, <2>7, Zenon DEF SchedOK, LinksOK
  <2> QED
    BY <1>4, <1>6, <2>6, <2>8, Zenon DEF n, stat, ResumedStep
<1> QED
  BY <1>5, <1>6, Zenon

-----------------------------------------------------------------------------
LEMMA MinIn == ASSUME NEW S \in SUBSET Nat, S # {} PROVE Min(S) \in S /\ \A k \in S : Min(S) <= k
BY MinExists, Zenon DEF Min

\* _get_highest_priority_thread returns a thread that is ready.
LEMMA HighestReady ==
  ASSUME NEW r, LinksOK(r), NEW c \in CPUs, r.group[NoCpu] \cup r.group[c] # {}
  PROVE  Highest(r, c) \in All /\ r.stat[Highest(r, c)] = "READY"
<1> DEFINE q == IF \E p \in r.group[NoCpu] : \A o \in r.group[c] : p < o THEN NoCpu ELSE c
           g == r.group[q]
           l == r.ready[q]
<1>1. q \in Queues /\ g # {}
  BY Zenon DEF Queues
<1>2. QueueOK(l, g, ReadyAt(r.stat, q)) /\ g \in SUBSET Nat
  BY <1>1, Zenon DEF LinksOK, ReadyOK, SchedType
<1>3. Highest(r, c) = l[Min(OfPriority(l, Min(g)))]
  BY Zenon DEF Highest
<1> HIDE DEF q, g, l
<1>4. Min(g) \in g
  BY <1>1, <1>2, MinIn, Zenon
<1>5. \E u \in ReadyAt(r.stat, q) : Priority[u] = Min(g)
  <2>1. g = {Priority[u] : u \in ReadyAt(r.stat, q)}
    BY <1>2, Zenon DEF QueueOK
  <2> HIDE <1>2
  <2> QED
    BY <1>4, <2>1, Zenon
<1> DEFINE O == OfPriority(l, Min(g))
<1>6. O # {} /\ \A k \in O : l[k] \in ReadyAt(r.stat, q)
  <2>1. Holds(l, ReadyAt(r.stat, q)) /\ ReadyAt(r.stat, q) \in SUBSET All
    BY <1>2, Zenon DEF QueueOK, ReadyAt
  <2> QED
    BY <1>5, <2>1, PlacesOfPriority, Zenon
<1>7. O \in SUBSET Nat
  BY <1>2 DEF OfPriority, QueueOK, Holds
<1> HIDE DEF O
<1>8. Min(O) \in O
  BY <1>6, <1>7, MinIn, Zenon
<1>9. Highest(r, c) \in ReadyAt(r.stat, q)
  BY <1>3, <1>6, <1>8, Zenon DEF O
<1> QED
  BY <1>9, Zenon DEF ReadyAt

\* The thread of core c leaves it, for the ready list unless it is suspended
\* or closed, and thread "to" leaves its list for the core.
SwitchStep(r, n, c, to) ==
  LET cur == r.current[c] IN
  /\ n.stat = [r.stat EXCEPT ![cur] = IF @ = "RUNNING" THEN "READY" ELSE @, ![to] = "RUNNING"]
  /\ n.oncpu = [r.oncpu EXCEPT ![cur] = NoCpu, ![to] = c]
  /\ n.current = [r.current EXCEPT ![c] = to]
  /\ \A u \in All : /\ Contains(n.waiters, u) <=> Contains(r.waiters, u) /\ u # to
                    /\ Contains(n.defunct, u) <=> Contains(r.defunct, u) /\ u # to

\* The first half of it, as Switch has it.
Put(r, c) ==
  LET cur == r.current[c]
      off == [r EXCEPT !.oncpu[cur] = NoCpu]
  IN  IF r.stat[cur] = "RUNNING"
        THEN InsertThread([off EXCEPT !.yield[cur] = FALSE], cur, c)
        ELSE off

LEMMA SwitchPut ==
  ASSUME NEW r, SchedOK(r), NEW c \in CPUs
  PROVE  LET cur == r.current[c]
             put == Put(r, c)
         IN  /\ LinksOK(put)
             /\ put.stat = [r.stat EXCEPT ![cur] = IF @ = "RUNNING" THEN "READY" ELSE @]
             /\ put.oncpu = [r.oncpu EXCEPT ![cur] = NoCpu]
             /\ put.current = r.current /\ put.waiters = r.waiters /\ put.defunct = r.defunct
<1> DEFINE cur == r.current[c]
           off == [r EXCEPT !.oncpu[cur] = NoCpu]
           put == Put(r, c)
           q == bind_cpu[cur]
<1>0. put = IF r.stat[cur] = "RUNNING"
              THEN InsertThread([off EXCEPT !.yield[cur] = FALSE], cur, c) ELSE off
  BY Zenon DEF Put
<1> HIDE DEF put
<1>1. r \in SchedType /\ cur \in All /\ q \in Queues
  BY BindType, Zenon DEF SchedOK, LinksOK, SchedType
<1>2. /\ ReadyOK(r.stat, r.ready, r.group)
      /\ IsInjective(r.waiters) /\ IsInjective(r.defunct)
  BY Zenon DEF SchedOK, LinksOK
<1>3. /\ r.stat \in [All -> Stats] /\ r.ready \in [Queues -> Seq(All)] /\ r.group \in [Queues -> SUBSET Nat]
      /\ r.waiters \in Seq(All) /\ r.defunct \in Seq(All) /\ r.ipi \in SUBSET CPUs
      /\ r.oncpu \in [All -> Queues] /\ r.current \in [CPUs -> All] /\ r.yield \in [All -> BOOLEAN]
  BY <1>1, Zenon DEF SchedType
<1> DEFINE oncpu == [r.oncpu EXCEPT ![cur] = NoCpu]
<1>4. oncpu \in [All -> Queues] /\ oncpu[cur] = NoCpu
  BY <1>1, <1>3, Zenon DEF Queues
<1>5. CASE r.stat[cur] # "RUNNING"
  <2>1. put = [r EXCEPT !.oncpu = oncpu]
    BY <1>0, <1>1, <1>5, Zenon DEF SchedType
  <2> HIDE DEF oncpu
  <2>2. /\ put \in SchedType /\ put.stat = r.stat /\ put.oncpu = oncpu /\ put.ready = r.ready
        /\ put.group = r.group
        /\ put.current = r.current /\ put.waiters = r.waiters /\ put.defunct = r.defunct
    BY <1>1, <1>4, <2>1, Zenon DEF SchedType
  <2>3. [r.stat EXCEPT ![cur] = IF @ = "RUNNING" THEN "READY" ELSE @] = r.stat
    BY <1>1, <1>3, <1>5, Zenon
  <2>4. LinksOK(put)
    BY <1>2, <2>2, Zenon DEF LinksOK
  <2> QED
    BY <2>2, <2>3, <2>4, Zenon DEF oncpu, put
<1>6. CASE r.stat[cur] = "RUNNING"
  <2> DEFINE ready == [r.ready EXCEPT ![q] = Append(@, cur)]
             group == [r.group EXCEPT ![q] = @ \cup {Priority[cur]}]
             stat  == [r.stat EXCEPT ![cur] = "READY"]
             yield == [r.yield EXCEPT ![cur] = FALSE]
             ipi   == r.ipi \cup Interrupted(cur, c)
             mid   == [r EXCEPT !.oncpu = oncpu, !.yield = yield]
  <2>0. mid = [off EXCEPT !.yield[cur] = FALSE] /\ mid.oncpu[cur] = NoCpu
    BY <1>1, <1>4, Zenon DEF SchedType
  <2>1. put = [r EXCEPT !.oncpu = oncpu, !.yield = yield, !.stat = stat, !.ready = ready,
                        !.group = group, !.ipi = ipi]
    <3>1. put = [mid EXCEPT !.stat[cur] = "READY", !.ready[q] = Append(@, cur),
                            !.group[q] = @ \cup {Priority[cur]}, !.ipi = @ \cup Interrupted(cur, c)]
      BY <1>0, <1>6, <2>0, Zenon DEF InsertThread
    <3> HIDE DEF oncpu, yield
    <3> QED
      BY <1>1, <3>1, Zenon DEF SchedType
  <2>2. ready \in [Queues -> Seq(All)] /\ stat \in [All -> Stats]
    <3>1. Append(r.ready[q], cur) \in Seq(All)
      BY <1>1, <1>3
    <3> QED
      BY <1>3, <3>1, Zenon DEF Stats
  <2>3. group \in [Queues -> SUBSET Nat]
    <3>1. r.group[q] \cup {Priority[cur]} \in SUBSET Nat
      BY <1>1, <1>3, PriorityType, Zenon
    <3> QED
      BY <1>3, <3>1, Zenon
  <2>4. ipi \in SUBSET CPUs /\ yield \in [All -> BOOLEAN]
    BY <1>1, <1>3, Zenon DEF Interrupted, Queues
  <2>5. ReadyOK(stat, ready, group)
    BY <1>1, <1>2, <1>3, <1>6, ReadyInserted, Zenon
  <2> HIDE DEF oncpu, ready, group, stat, yield, ipi, mid
  <2>6. /\ put \in SchedType /\ put.stat = stat /\ put.oncpu = oncpu /\ put.ready = ready
        /\ put.group = group
        /\ put.current = r.current /\ put.waiters = r.waiters /\ put.defunct = r.defunct
    BY <1>1, <1>4, <2>1, <2>2, <2>3, <2>4, Zenon DEF SchedType
  <2>7. LinksOK(put)
    BY <1>2, <2>5, <2>6, Zenon DEF LinksOK
  <2> QED
    BY <1>6, <2>6, <2>7, Zenon DEF oncpu, stat, put
<1> QED
  BY <1>5, <1>6, Zenon

LEMMA SwitchEffect ==
  ASSUME NEW r, SchedOK(r), NEW c \in CPUs, NEW to \in All, r.stat[to] = "READY"
  PROVE  SchedOK(Switch(r, c, to)) /\ SwitchStep(r, Switch(r, c, to), c, to)
<1> DEFINE cur == r.current[c]
           put == Put(r, c)
           m == RemoveThread(put, to)
           n == Switch(r, c, to)
           q == bind_cpu[to]
           l == Without(put.ready[q], to)
<1>1. n = [m EXCEPT !.oncpu[to] = c, !.stat[to] = "RUNNING", !.current[c] = to]
  BY Zenon DEF Switch, Put
<1>2. /\ LinksOK(put)
      /\ put.stat = [r.stat EXCEPT ![cur] = IF @ = "RUNNING" THEN "READY" ELSE @]
      /\ put.oncpu = [r.oncpu EXCEPT ![cur] = NoCpu]
      /\ put.current = r.current /\ put.waiters = r.waiters /\ put.defunct = r.defunct
  BY SwitchPut, Zenon
<1> HIDE DEF put
<1>3. put \in SchedType /\ m \in SchedType
  BY <1>2, RemoveType, Zenon DEF LinksOK
<1>4. /\ m.stat = put.stat /\ m.oncpu = put.oncpu /\ m.current = put.current
      /\ m.ready = [put.ready EXCEPT ![q] = l]
      /\ m.group = [put.group EXCEPT ![q] = Cleared(@, l, Priority[to])]
      /\ m.waiters = Without(put.waiters, to) /\ m.defunct = Without(put.defunct, to)
  BY <1>3, RemoveFields, Zenon
<1>5. /\ ReadyOK(put.stat, put.ready, put.group)
      /\ put.stat \in [All -> Stats] /\ put.ready \in [Queues -> Seq(All)]
      /\ put.group \in [Queues -> SUBSET Nat]
  BY <1>2, Zenon DEF LinksOK, SchedType
<1>6. /\ r.stat \in [All -> Stats] /\ r.oncpu \in [All -> Queues] /\ r.current \in [CPUs -> All]
      /\ CoreOK(r.stat, r.oncpu, r.current) /\ cur \in All
  BY Zenon DEF SchedOK, LinksOK, SchedType
<1> HIDE DEF m, n, q, l
<1>7. /\ n \in SchedType /\ n.stat = [m.stat EXCEPT ![to] = "RUNNING"]
      /\ n.oncpu = [m.oncpu EXCEPT ![to] = c] /\ n.current = [m.current EXCEPT ![c] = to]
      /\ n.ready = m.ready /\ n.group = m.group /\ n.waiters = m.waiters /\ n.defunct = m.defunct
  BY <1>1, <1>3, Zenon DEF SchedType, Stats, Queues
<1>8. ReadyOK(n.stat, n.ready, n.group)
  <2>1. ReadyOK([put.stat EXCEPT ![to] = "RUNNING"], [put.ready EXCEPT ![q] = l],
                [put.group EXCEPT ![q] = Cleared(@, l, Priority[to])])
    BY <1>5, ReadyRemoved, Zenon DEF q, l
  <2> QED
    BY <1>4, <1>7, <2>1, Zenon
<1>9. /\ n.stat = [r.stat EXCEPT ![cur] = IF @ = "RUNNING" THEN "READY" ELSE @, ![to] = "RUNNING"]
      /\ n.oncpu = [r.oncpu EXCEPT ![cur] = NoCpu, ![to] = c]
      /\ n.current = [r.current EXCEPT ![c] = to]
  BY <1>2, <1>4, <1>7, Zenon
<1>10. /\ IsInjective(n.waiters) /\ IsInjective(n.defunct)
       /\ \A u \in All : /\ Contains(n.waiters, u) <=> Contains(r.waiters, u) /\ u # to
                         /\ Contains(n.defunct, u) <=> Contains(r.defunct, u) /\ u # to
  <2> DEFINE w == Without(put.waiters, to)
             d == Without(put.defunct, to)
  <2>1. /\ IsInjective(w) /\ IsInjective(d)
        /\ \A u \in All : /\ Contains(w, u) <=> Contains(put.waiters, u) /\ u # to
                          /\ Contains(d, u) <=> Contains(put.defunct, u) /\ u # to
    BY <1>2, RemoveLists, Zenon
  <2>2. n.waiters = w /\ n.defunct = d
    BY <1>4, <1>7, Zenon
  <2> HIDE DEF w, d
  <2> QED
    BY <1>2, <2>1, <2>2, Zenon
<1>11. CoreOK(n.stat, n.oncpu, n.current)
  <2> HIDE DEF cur
  <2>1. to # cur /\ r.oncpu[to] = NoCpu
    BY <1>6, NoCoreIsNone, Zenon DEF CoreOK, cur
  <2>2. n.stat[to] = "RUNNING" /\ n.oncpu[to] = c /\ n.current[c] = to
    BY <1>6, <1>9, Zenon
  <2>3. n.oncpu[cur] = NoCpu /\ n.stat[cur] # "RUNNING"
    BY <1>6, <1>9, <2>1, Zenon
  <2>4. \A u \in All \ {to, cur} : n.stat[u] = r.stat[u] /\ n.oncpu[u] = r.oncpu[u] /\ r.current[c] # u
    BY <1>6, <1>9, Zenon DEF cur
  <2>5. \A e \in CPUs \ {c} : n.current[e] = r.current[e] /\ r.current[e] # cur /\ r.current[e] # to
    BY <1>6, <1>9, <2>1, NoCoreIsNone DEF CoreOK, cur
  <2>6. \A u \in All, e \in CPUs : n.oncpu[u] = e <=> n.current[e] = u
    BY <1>6, <2>1, <2>2, <2>3, <2>4, <2>5, NoCoreIsNone, SMTT(30) DEF CoreOK
  <2> QED
    BY <1>6, <2>2, <2>3, <2>4, <2>6, NoCoreIsNone DEF CoreOK
<1>12. SchedOK(n)
  BY <1>7, <1>8, <1>10, <1>11, Zenon DEF SchedOK, LinksOK
<1> QED
  BY <1>9, <1>10, <1>12, Zenon DEF SwitchStep, n

\* What rt_schedule does on core c: nothing, which the thread of the core
\* survives only if it runs or if nobody else is ready, or a switch.
LEMMA ScheduleEffect ==
  ASSUME NEW r, SchedOK(r), NEW c \in CPUs
  PROVE  LET n == Schedule(r, c) IN
         /\ SchedOK(n)
         /\ \/ n = r
            \/ \E to \in All : r.stat[to] = "READY" /\ SwitchStep(r, n, c, to)
<1>1. CASE r.group[NoCpu] \cup r.group[c] = {} \/ Stays(r, r.current[c], Highest(r, c))
  BY <1>1, Zenon DEF Schedule
<1>2. CASE ~(r.group[NoCpu] \cup r.group[c] = {} \/ Stays(r, r.current[c], Highest(r, c)))
  <2>1. Highest(r, c) \in All /\ r.stat[Highest(r, c)] = "READY"
    BY <1>2, HighestReady, Zenon DEF SchedOK
  <2>2. Schedule(r, c) = Switch(r, c, Highest(r, c))
    BY <1>2, Zenon DEF Schedule
  <2> QED
    BY <2>1, <2>2, SwitchEffect, Zenon
<1> QED
  BY <1>1, <1>2, Zenon

-----------------------------------------------------------------------------
(***************************************************************************)
(* The bit maps and the interrupts that announce a change of them to the   *)
(* other cores.                                                            *)
(***************************************************************************)
\* Nobody gets ready in the step from r to n.
Quieter(r, n) == n.ipi = r.ipi /\ \A q \in Queues : n.group[q] \subseteq r.group[q]

\* The priorities a core chooses from.
Levels(r, c) == r.group[NoCpu] \cup r.group[c]

\* Cores other than c are told if somebody gets ready for them.
Announced(r, n, c) ==
  /\ r.ipi \subseteq n.ipi
  /\ \A d \in CPUs \ {c} : d \in n.ipi \/ Levels(n, d) \subseteq Levels(r, d)

LEMMA RemoveQuiet ==
  ASSUME NEW r \in SchedType, NEW t \in All
  PROVE  Quieter(r, RemoveThread(r, t))
<1> DEFINE n == RemoveThread(r, t)
           q == bind_cpu[t]
           l == Without(r.ready[q], t)
<1>1. n.ipi = r.ipi /\ n.group = [r.group EXCEPT ![q] = Cleared(@, l, Priority[t])]
  BY RemoveFields, Zenon
<1>2. r.group \in [Queues -> SUBSET Nat]
  BY Zenon DEF SchedType
<1> HIDE DEF n, l
<1>3. ASSUME NEW e \in Queues PROVE n.group[e] \subseteq r.group[e]
  BY <1>1, <1>2, Zenon DEF Cleared
<1> QED
  BY <1>1, <1>3, Zenon DEF Quieter, n

LEMMA SuspendedQuiet ==
  ASSUME NEW r, SchedOK(r), NEW t \in All
  PROVE  Quieter(r, Suspended(r, t))
<1>1. r \in SchedType /\ RemoveThread(r, t) \in SchedType
  BY RemoveType, Zenon DEF SchedOK, LinksOK
<1>2. Quieter(r, RemoveThread(r, t))
  BY <1>1, RemoveQuiet, Zenon
<1> DEFINE m == RemoveThread(r, t)
<1>3. Suspended(r, t) = [m EXCEPT !.stat[t] = "SUSPEND"]
  BY Zenon DEF Suspended
<1> HIDE DEF m
<1>4. Suspended(r, t).ipi = m.ipi /\ Suspended(r, t).group = m.group
  BY <1>1, <1>3, Zenon DEF SchedType, m
<1> QED
  BY <1>2, <1>4, Zenon DEF Quieter, m

LEMMA ClosedQuiet ==
  ASSUME NEW r, SchedOK(r), NEW t \in All
  PROVE  Quieter(r, Closed(r, t))
<1>1. r \in SchedType /\ RemoveThread(r, t) \in SchedType
  BY RemoveType, Zenon DEF SchedOK, LinksOK
<1>2. Quieter(r, RemoveThread(r, t))
  BY <1>1, RemoveQuiet, Zenon
<1> DEFINE m == RemoveThread(r, t)
<1>3. Closed(r, t) = [m EXCEPT !.stat[t] = "CLOSE", !.defunct = <<t>> \o @]
  BY Zenon DEF Closed
<1> HIDE DEF m
<1>4. Closed(r, t).ipi = m.ipi /\ Closed(r, t).group = m.group
  BY <1>1, <1>3, Zenon DEF SchedType, m
<1> QED
  BY <1>2, <1>4, Zenon DEF Quieter, m

\* rt_schedule_insert_thread of a thread that is on no core.
LEMMA InsertAnnounced ==
  ASSUME NEW r \in SchedType, NEW t \in All, NEW c \in CPUs, r.oncpu[t] = NoCpu
  PROVE  LET n == InsertThread(r, t, c) IN
         /\ n.ipi = r.ipi \cup Interrupted(t, c)
         /\ n.group = [r.group EXCEPT ![bind_cpu[t]] = @ \cup {Priority[t]}]
         /\ Announced(r, n, c) /\ Levels(n, c) \subseteq Levels(r, c) \cup {Priority[t]}
<1> DEFINE n == InsertThread(r, t, c)
           b == bind_cpu[t]
<1>1. n = [r EXCEPT !.stat[t] = "READY", !.ready[b] = Append(@, t),
                    !.group[b] = @ \cup {Priority[t]}, !.ipi = @ \cup Interrupted(t, c)]
  BY Zenon DEF InsertThread
<1> HIDE DEF n
<1>2. n.ipi = r.ipi \cup Interrupted(t, c) /\ n.group = [r.group EXCEPT ![b] = @ \cup {Priority[t]}]
  BY <1>1, Zenon DEF SchedType
<1>3. r.group \in [Queues -> SUBSET Nat] /\ b \in Queues
  BY BindType, Zenon DEF SchedType
<1>4. \A q \in Queues : n.group[q] = IF q = b THEN r.group[q] \cup {Priority[t]} ELSE r.group[q]
  BY <1>2, <1>3, Zenon
<1>5. NoCpu \in Queues /\ CPUs \subseteq Queues /\ NoCpu \notin CPUs
  BY NoCoreIsNone, Zenon DEF Queues
<1>6. ASSUME NEW d \in CPUs \ {c} PROVE d \in n.ipi \/ Levels(n, d) \subseteq Levels(r, d)
  <2>1. CASE b = NoCpu \/ b = d
    BY <1>2, <1>6, <2>1, Zenon DEF Interrupted
  <2>2. CASE b # NoCpu /\ b # d
    BY <1>4, <1>5, <1>6, <2>2, Zenon DEF Levels
  <2> QED
    BY <2>1, <2>2, Zenon
<1>7. Levels(n, c) \subseteq Levels(r, c) \cup {Priority[t]}
  BY <1>4, <1>5, Zenon DEF Levels
<1> QED
  BY <1>2, <1>6, <1>7, Zenon DEF Announced, n

LEMMA ResumedAnnounced ==
  ASSUME NEW r, SchedOK(r), NEW t \in All, NEW c \in CPUs
  PROVE  Announced(r, Resumed(r, t, c), c)
<1> DEFINE w == Without(r.waiters, t)
           m == [r EXCEPT !.waiters = w]
           n == Resumed(r, t, c)
<1>1. r \in SchedType /\ w \in Seq(All)
  BY RemoveLists, Zenon DEF SchedOK, LinksOK
<1>2. n = InsertThread(m, t, c)
  BY Zenon DEF Resumed
<1> HIDE DEF w
<1>3. m \in SchedType /\ m.ipi = r.ipi /\ m.group = r.group /\ m.oncpu = r.oncpu
  BY <1>1, Zenon DEF SchedType
<1> HIDE DEF m, n
<1>4. CASE m.oncpu[t] = NoCpu
  <2>1. Announced(m, InsertThread(m, t, c), c)
    BY <1>3, <1>4, InsertAnnounced, Zenon
  <2> QED
    BY <1>2, <1>3, <2>1, Zenon DEF Announced, Levels, n
<1>5. CASE m.oncpu[t] # NoCpu
  <2>1. n = [m EXCEPT !.stat[t] = "RUNNING"]
    BY <1>2, <1>5, Zenon DEF InsertThread
  <2>2. n.ipi = m.ipi /\ n.group = m.group
    BY <1>3, <2>1, Zenon DEF SchedType
  <2> QED
    BY <1>3, <2>2, Zenon DEF Announced, Levels, n
<1> QED
  BY <1>4, <1>5, Zenon

\* _get_highest_priority_thread returns a thread that may run on core c, and
\* none that is ready is more urgent.
LEMMA HighestUrgent ==
  ASSUME NEW r, LinksOK(r), NEW c \in CPUs, Levels(r, c) # {}
  PROVE  /\ bind_cpu[Highest(r, c)] \in {c, NoCpu}
         /\ \A p \in Levels(r, c) : Priority[Highest(r, c)] <= p
<1> DEFINE q == IF \E p \in r.group[NoCpu] : \A o \in r.group[c] : p < o THEN NoCpu ELSE c
           g == r.group[q]
           l == r.ready[q]
<1>1. q \in Queues /\ g # {} /\ q \in {c, NoCpu}
  BY Zenon DEF Queues, Levels
<1>2. QueueOK(l, g, ReadyAt(r.stat, q)) /\ g \in SUBSET Nat
  BY <1>1, Zenon DEF LinksOK, ReadyOK, SchedType
<1>3. Highest(r, c) = l[Min(OfPriority(l, Min(g)))]
  BY Zenon DEF Highest
<1>x. r.group[NoCpu] \in SUBSET Nat /\ r.group[c] \in SUBSET Nat
  BY Zenon DEF LinksOK, SchedType, Queues
<1>4. Min(g) \in g /\ \A p \in g : Min(g) <= p
  BY <1>1, <1>2, MinIn, Zenon
<1>y. \A p \in Levels(r, c) : Min(g) <= p
  <2>1. CASE \E p \in r.group[NoCpu] : \A o \in r.group[c] : p < o
    <3>1. g = r.group[NoCpu]
      BY <2>1, Zenon
    <3> HIDE DEF g
    <3>2. PICK p \in r.group[NoCpu] : \A o \in r.group[c] : p < o
      BY <2>1, Zenon
    <3>3. Min(g) \in Nat /\ Min(g) <= p /\ p \in Nat
      BY <1>4, <1>2, <3>1, <3>2, Zenon
    <3>4. ASSUME NEW o \in r.group[c] PROVE Min(g) <= o
      <4>1. o \in Nat /\ p < o
        BY <1>x, <3>2, Zenon
      <4> QED
        BY <3>3, <4>1
    <3> QED
      BY <1>4, <3>1, <3>4, Zenon DEF Levels
  <2>2. CASE ~\E p \in r.group[NoCpu] : \A o \in r.group[c] : p < o
    <3>1. g = r.group[c]
      BY <2>2, Zenon
    <3> HIDE DEF g
    <3>2. ASSUME NEW p \in r.group[NoCpu] PROVE Min(g) <= p
      <4>1. PICK o \in r.group[c] : ~(p < o)
        BY <2>2, Zenon
      <4>2. p \in Nat /\ o \in Nat /\ Min(g) \in Nat /\ Min(g) <= o
        BY <1>2, <1>4, <1>x, <3>1, Zenon
      <4> QED
        BY <4>1, <4>2
    <3> QED
      BY <1>4, <3>1, <3>2, Zenon DEF Levels
  <2> QED
    BY <2>1, <2>2, Zenon
<1> HIDE DEF q, g, l
<1>5. \E u \in ReadyAt(r.stat, q) : Priority[u] = Min(g)
  <2>1. g = {Priority[u] : u \in ReadyAt(r.stat, q)}
    BY <1>2, Zenon DEF QueueOK
  <2> HIDE <1>2
  <2> QED
    BY <1>4, <2>1, Zenon
<1> DEFINE O == OfPriority(l, Min(g))
<1>6. O # {} /\ \A k \in O : l[k] \in ReadyAt(r.stat, q)
  <2>1. Holds(l, ReadyAt(r.stat, q)) /\ ReadyAt(r.stat, q) \in SUBSET All
    BY <1>2, Zenon DEF QueueOK, ReadyAt
  <2> QED
    BY <1>5, <2>1, PlacesOfPriority, Zenon
<1>7. O \in SUBSET Nat /\ \A k \in O : Priority[l[k]] = Min(g)
  BY <1>2 DEF OfPriority, QueueOK, Holds
<1> HIDE DEF O
<1>8. Min(O) \in O
  BY <1>6, <1>7, MinIn, Zenon
<1>9. Highest(r, c) \in ReadyAt(r.stat, q) /\ Priority[Highest(r, c)] = Min(g)
  BY <1>3, <1>6, <1>7, <1>8, Zenon DEF O
<1> QED
  BY <1>1, <1>9, <1>y, Zenon DEF ReadyAt

\* The switch puts the thread of core c back, which is announced, and takes
\* the next one out.
LEMMA SwitchAnnounced ==
  ASSUME NEW r, SchedOK(r), NEW c \in CPUs, NEW to \in All
  PROVE  /\ Announced(r, Switch(r, c, to), c)
         /\ Levels(Switch(r, c, to), c) \subseteq
              Levels(r, c) \cup (IF r.stat[r.current[c]] = "RUNNING" THEN {Priority[r.current[c]]} ELSE {})
<1> DEFINE cur == r.current[c]
           off == [r EXCEPT !.oncpu[cur] = NoCpu]
           mid == [off EXCEPT !.yield[cur] = FALSE]
           put == Put(r, c)
           m == RemoveThread(put, to)
           n == Switch(r, c, to)
           L == Levels(r, c) \cup (IF r.stat[cur] = "RUNNING" THEN {Priority[cur]} ELSE {})
<1>1. n = [m EXCEPT !.oncpu[to] = c, !.stat[to] = "RUNNING", !.current[c] = to]
  BY Zenon DEF Switch, Put
<1>0. put = IF r.stat[cur] = "RUNNING" THEN InsertThread(mid, cur, c) ELSE off
  BY Zenon DEF Put
<1>2. put \in SchedType /\ m \in SchedType
  <2>1. LinksOK(put)
    BY SwitchPut, Zenon
  <2> QED
    BY <2>1, RemoveType, Zenon DEF LinksOK
<1>3. Quieter(put, m)
  BY <1>2, RemoveQuiet, Zenon
<1>4. r \in SchedType /\ cur \in All
  BY Zenon DEF SchedOK, LinksOK, SchedType
<1>5. /\ off \in SchedType /\ off.ipi = r.ipi /\ off.group = r.group
      /\ mid \in SchedType /\ mid.ipi = r.ipi /\ mid.group = r.group /\ mid.oncpu[cur] = NoCpu
  BY <1>4, Zenon DEF SchedType, Queues
<1> HIDE DEF put, m, n, off, mid, cur
<1>6. Announced(r, put, c) /\ Levels(put, c) \subseteq L
  <2>1. CASE r.stat[cur] = "RUNNING"
    <3>1. Announced(mid, put, c) /\ Levels(put, c) \subseteq Levels(mid, c) \cup {Priority[cur]}
      BY <1>0, <1>4, <1>5, <2>1, InsertAnnounced, Zenon
    <3> QED
      BY <1>5, <2>1, <3>1, Zenon DEF Announced, Levels
  <2>2. CASE r.stat[cur] # "RUNNING"
    BY <1>0, <1>5, <2>2, Zenon DEF Announced, Levels
  <2> QED
    BY <2>1, <2>2, Zenon
<1>7. n.ipi = m.ipi /\ n.group = m.group
  BY <1>1, <1>2, Zenon DEF SchedType
<1>8. NoCpu \in Queues /\ CPUs \subseteq Queues
  BY Zenon DEF Queues
<1>9. n.ipi = put.ipi /\ \A d \in CPUs : Levels(n, d) \subseteq Levels(put, d)
  BY <1>3, <1>7, <1>8, Zenon DEF Quieter, Levels
<1>10. Announced(r, n, c)
  BY <1>6, <1>9, Zenon DEF Announced
<1> QED
  BY <1>6, <1>9, <1>10, Zenon DEF n, cur

\* What rt_schedule on core c promises: its thread is the most urgent, unless
\* it is to leave the core and nobody is there to follow.
ScheduleStep(r, n, c) ==
  /\ Announced(r, n, c)
  /\ \/ n.stat[n.current[c]] # "RUNNING"
     \/ \A p \in Levels(n, c) : Priority[n.current[c]] <= p
  /\ n # r => bind_cpu[n.current[c]] \in {c, NoCpu}
  /\ n = r /\ r.stat[r.current[c]] # "RUNNING" => Levels(r, c) = {}

LEMMA ScheduleUrgent ==
  ASSUME NEW r, SchedOK(r), NEW c \in CPUs
  PROVE  ScheduleStep(r, Schedule(r, c), c)
<1> DEFINE cur == r.current[c]
           to == Highest(r, c)
<1>0. r \in SchedType /\ cur \in All /\ LinksOK(r)
  BY Zenon DEF SchedOK, LinksOK, SchedType
<1>p. Priority \in [All -> Nat] /\ \A p \in Levels(r, c) : p \in Nat
  BY <1>0, PriorityType, Zenon DEF SchedType, Levels, Queues
<1>1. CASE Levels(r, c) = {}
  <2>1. Schedule(r, c) = r
    BY <1>1, Zenon DEF Schedule, Levels
  <2> QED
    BY <1>1, <2>1, Zenon DEF ScheduleStep, Announced
<1>2. CASE Levels(r, c) # {}
  <2>0. to \in All /\ r.stat[to] = "READY"
    BY <1>0, <1>2, HighestReady, Zenon DEF Levels
  <2>1. bind_cpu[to] \in {c, NoCpu} /\ \A p \in Levels(r, c) : Priority[to] <= p
    BY <1>0, <1>2, HighestUrgent, Zenon
  <2>2. CASE Stays(r, cur, to)
    <3>1. Schedule(r, c) = r
      BY <2>2, Zenon DEF Schedule
    <3>2. r.stat[cur] = "RUNNING" /\ (Priority[cur] < Priority[to] \/ Priority[cur] = Priority[to])
      BY <2>2, Zenon DEF Stays
    <3>n. Priority[cur] \in Nat /\ Priority[to] \in Nat
      BY <1>0, <1>p, <2>0, Zenon
    <3> HIDE DEF cur, to
    <3>3. ASSUME NEW p \in Levels(r, c) PROVE Priority[cur] <= p
      <4>1. p \in Nat /\ Priority[to] <= p
        BY <1>p, <2>1, Zenon
      <4> QED
        BY <3>2, <3>n, <4>1
    <3> QED
      BY <3>1, <3>2, <3>3, Zenon DEF ScheduleStep, Announced, cur
  <2>3. CASE ~Stays(r, cur, to)
    <3> DEFINE n == Schedule(r, c)
    <3>1. n = Switch(r, c, to)
      BY <1>2, <2>3, Zenon DEF Schedule, Levels
    <3>2. /\ Announced(r, n, c)
          /\ Levels(n, c) \subseteq Levels(r, c) \cup (IF r.stat[cur] = "RUNNING" THEN {Priority[cur]} ELSE {})
      BY <2>0, <3>1, SwitchAnnounced, Zenon
    <3>3. n.current = [r.current EXCEPT ![c] = to]
      <4>1. SwitchStep(r, Switch(r, c, to), c, to)
        BY <2>0, SwitchEffect, Zenon
      <4> QED
        BY <3>1, <4>1, Zenon DEF SwitchStep
    <3>4. n.current[c] = to
      BY <1>0, <3>3, Zenon DEF SchedType
    <3>5. r.stat[cur] = "RUNNING" => Priority[to] <= Priority[cur]
      <4>1. r.stat[cur] = "RUNNING" => ~(Priority[cur] < Priority[to])
        BY <2>3, Zenon DEF Stays
      <4>2. Priority[cur] \in Nat /\ Priority[to] \in Nat
        BY <1>0, <1>p, <2>0, Zenon
      <4> QED
        BY <4>1, <4>2
    <3>6. \A p \in Levels(n, c) : Priority[to] <= p
      BY <2>1, <3>2, <3>5, Zenon
    <3>7. n # r
      <4>1. to # cur
        <5>1. CoreOK(r.stat, r.oncpu, r.current)
          BY Zenon DEF SchedOK
        <5>2. r.oncpu[cur] = c
          BY <1>0, <5>1, Zenon DEF CoreOK
        <5>3. r.stat[cur] # "READY"
          BY <1>0, <5>1, <5>2, NoCoreIsNone DEF CoreOK
        <5> QED
          BY <2>0, <5>3, Zenon
      <4> QED
        BY <3>4, <4>1, Zenon
    <3> HIDE DEF n, to
    <3> QED
      BY <2>1, <3>2, <3>4, <3>6, <3>7, Zenon DEF ScheduleStep, n, to
  <2> QED
    BY <2>2, <2>3, Zenon
<1> QED
  BY <1>1, <1>2, Zenon

LEMMA QuietIsAnnounced ==
  ASSUME NEW r, NEW n, NEW c \in CPUs, Quieter(r, n)
  PROVE  Announced(r, n, c) /\ \A d \in CPUs : Levels(n, d) \subseteq Levels(r, d)
<1>1. NoCpu \in Queues /\ CPUs \subseteq Queues
  BY Zenon DEF Queues
<1> QED
  BY <1>1, Zenon DEF Quieter, Announced, Levels

LEMMA QuietThenAnnounced ==
  ASSUME NEW r, NEW m, NEW n, NEW c \in CPUs, Quieter(r, m), Announced(m, n, c)
  PROVE  Announced(r, n, c)
<1>1. m.ipi = r.ipi /\ \A d \in CPUs : Levels(m, d) \subseteq Levels(r, d)
  BY QuietIsAnnounced, Zenon DEF Quieter
<1> QED
  BY <1>1, Zenon DEF Announced

-----------------------------------------------------------------------------
(***************************************************************************)
(* The inductive invariant.  It relates the stat of a thread to the lists, *)
(* the timers and the cores that know the thread.  A thread deleted while  *)
(* it is on a core (killed), or whose stat a time slice has overwritten,   *)
(* is the exception that most conjuncts have to make.                      *)
(***************************************************************************)
VarType ==
  /\ timer \subseteq Threads /\ period_timer \subseteq Periodic /\ killed \subseteq Periodic
  /\ irq \in [CPUs -> Phases] /\ old_stat \in [CPUs -> Stats] /\ pc \in [All -> Places]
  /\ victim \in Threads \cup {NoThread}

\* Deleted on a core and then given another stat: a state of Undefined.
Lost(t) == t \in killed \cap overwritten

\* What the lists, the timers and the core of thread t say of its stat.
ThreadOK(t) ==
  /\ In(t, s.waiters) => s.stat[t] = "SUSPEND" /\ t \notin Periodic
  /\ t \in timer => s.stat[t] = "SUSPEND"
  /\ t \in period_timer => s.stat[t] \notin {"none", "CLOSE", "freed"}
  /\ t \in Periodic /\ s.stat[t] \in {"READY", "RUNNING", "SUSPEND"} => t \in period_timer \cup killed
  /\ In(t, s.defunct) => /\ t \in Threads /\ t # victim
                         /\ s.stat[t] = "CLOSE" \/ Lost(t)
                         /\ s.stat[t] # "freed"
  /\ t = victim => /\ s.stat[t] = "CLOSE" \/ (s.stat[t] = "SUSPEND" /\ t \in killed) \/ Lost(t)
                   /\ s.stat[t] # "freed" /\ t \notin timer \cup period_timer
  /\ s.oncpu[t] # NoCpu /\ s.stat[t] = "freed" => t \in killed
  /\ s.oncpu[t] # NoCpu /\ s.stat[t] = "CLOSE" => t \in killed \/ Undefined
  /\ t \in killed => t \notin timer \cup period_timer /\ s.stat[t] \notin {"none", "INIT"}
  /\ pc[t] = "end" => t \in Periodic
  /\ s.stat[t] = "SUSPEND" =>
       \/ In(t, s.waiters) \/ t \in timer \cup period_timer
       \/ t \in overwritten \cup (killed \cap Periodic)

\* What may have happened to the stat of a thread since rt_tick_increase read
\* it.
SliceOK ==
  \A c \in CPUs : irq[c] = "slice" =>
    /\ old_stat[c] \in {"RUNNING", "SUSPEND", "CLOSE", "freed"}
    /\ s.stat[s.current[c]] = "SUSPEND" => old_stat[c] = "SUSPEND"
    /\ old_stat[c] = "CLOSE" => s.stat[s.current[c]] \in {"CLOSE", "freed"}
    /\ old_stat[c] = "freed" => s.stat[s.current[c]] = "freed"

\* Only the idle thread of Cpu0 reclaims threads.
IdleOK ==
  \A t \in IdleThreads : pc[t] \in {"spin", "free", "heap", "take"} => t = Idle[Cpu0] /\ victim # NoThread

SInv ==
  /\ VarType /\ SchedOK(s) /\ SliceOK /\ IdleOK
  /\ \A t \in All : ThreadOK(t)

LEMMA NothingLost == ASSUME ~Undefined PROVE \A t : ~Lost(t)
BY Zenon DEF Undefined, Lost

\* A step leaves thread t alone.
Same(t) ==
  /\ s'.stat[t] = s.stat[t] /\ s'.oncpu[t] = s.oncpu[t]
  /\ In(t, s'.waiters) <=> In(t, s.waiters)
  /\ In(t, s'.defunct) <=> In(t, s.defunct)
  /\ t \in timer' <=> t \in timer
  /\ t \in period_timer' <=> t \in period_timer
  /\ t \in killed' <=> t \in killed
  /\ t \in overwritten' <=> t \in overwritten
  /\ victim' = t <=> victim = t
  /\ pc'[t] = "end" => pc[t] = "end"

LEMMA ThreadFrame == ASSUME NEW t, ThreadOK(t), ~Undefined, Same(t) PROVE ThreadOK(t)'
BY NothingLost, Zenon DEF ThreadOK, Same, Lost

\* The stat of a thread on a core, before and after a step of another one.
MayBecome(x, y) == x = y \/ (x = "SUSPEND" /\ y = "RUNNING") \/ (x # "freed" /\ y = "CLOSE") \/ y = "freed"

LEMMA SliceFrame ==
  ASSUME SliceOK,
         \A c \in CPUs : irq'[c] = "slice" =>
           /\ irq[c] = "slice" /\ old_stat'[c] = old_stat[c] /\ s'.current[c] = s.current[c]
           /\ MayBecome(s.stat[s.current[c]], s'.stat[s.current[c]])
  PROVE  SliceOK'
BY DEF SliceOK, MayBecome

\* The thread of core c.
LEMMA OnCore ==
  ASSUME SInv, ~Undefined, NEW c \in CPUs, NEW t, s.current[c] = t
  PROVE  /\ t \in All /\ s.oncpu[t] = c /\ s.oncpu[t] # NoCpu
         /\ s.stat[t] \in {"RUNNING", "SUSPEND", "CLOSE", "freed"}
         /\ s.stat[t] \in {"CLOSE", "freed"} => t \in killed
         /\ \A d \in CPUs \ {c} : s.current[d] # t
<1>1. /\ CoreOK(s.stat, s.oncpu, s.current) /\ s.stat \in [All -> Stats] /\ s.current \in [CPUs -> All]
      /\ \A u \in All : ThreadOK(u)
  BY Zenon DEF SInv, SchedOK, LinksOK, SchedType
<1>2. t \in All
  BY <1>1, Zenon
<1>3. s.oncpu[t] = c /\ c # NoCpu
  BY <1>1, <1>2, NoCoreIsNone, Zenon DEF CoreOK
<1>4. s.stat[t] \notin {"none", "INIT", "READY"} /\ s.stat[t] \in Stats
  BY <1>1, <1>2, <1>3, Zenon DEF CoreOK
<1>5. s.stat[t] \in {"CLOSE", "freed"} => t \in killed
  BY <1>1, <1>2, <1>3, Zenon DEF ThreadOK
<1>6. \A d \in CPUs \ {c} : s.current[d] # t
  BY <1>1, <1>2, <1>3, SMTT(30) DEF CoreOK
<1> QED
  BY <1>2, <1>3, <1>4, <1>5, <1>6, Zenon DEF Stats

\* The stat of a thread that is not on a core does not matter to a tick.
LEMMA OffCore ==
  ASSUME SInv, NEW u \in All, s.stat[u] \in {"none", "INIT", "READY"}
  PROVE  s.oncpu[u] = NoCpu /\ \A c \in CPUs : s.current[c] # u
BY NoCoreIsNone DEF SInv, SchedOK, CoreOK

(***************************************************************************)
(* The steps of Next, each under a name of its own, and a lemma for each:  *)
(* the step keeps the invariant.                                           *)
(***************************************************************************)
ExitStep == \E c \in CPUs : \E t : Runs(t, c) /\ Exit(t, c)
SleepStep == \E c \in CPUs : \E t : Runs(t, c) /\ Sleep(t, c)
JobTestStep == \E c \in CPUs : \E t : Runs(t, c) /\ JobTest(t, c)
JobEndStep == \E c \in CPUs : \E t : Runs(t, c) /\ JobEnd(t, c)
TakeHeapStep == \E c \in CPUs : \E t : Runs(t, c) /\ TakeHeap(t, c)
ReleaseHeapStep == \E c \in CPUs : \E t : Runs(t, c) /\ ReleaseHeap(t, c)
CallScheduleStep == \E c \in CPUs : \E t : Runs(t, c) /\ CallSchedule(t, c)
ReclaimStep == \E c \in CPUs : \E t : Runs(t, c) /\ Reclaim(t, c)
ReclaimUnlockStep == \E c \in CPUs : \E t : Runs(t, c) /\ ReclaimUnlock(t, c)
CreateStep == \E c \in CPUs : \E t : \E u \in Threads : Runs(t, c) /\ t = Main /\ Create(t, c, u)
StartupStep == \E c \in CPUs : \E t : \E u \in Threads : Runs(t, c) /\ t = Main /\ Startup(t, c, u)
DeleteInitStep == \E c \in CPUs : \E t : \E u \in Threads : Runs(t, c) /\ t = Main /\ DeleteInit(t, c, u)
EnterCriticalStep == \E c \in CPUs : \E t : Runs(t, c) /\ t = Main /\ EnterCritical(t, c)
ExitCriticalStep == \E c \in CPUs : \E t : Runs(t, c) /\ t = Main /\ ExitCritical(t, c)
TickStep == \E c \in CPUs : Tick(c)
SliceReadStep == \E c \in CPUs : SliceRead(c)
SliceWriteStep == \E c \in CPUs : SliceWrite(c)
IpiStep == \E c \in CPUs : Ipi(c)
IrqExitStep == \E c \in CPUs : IrqExit(c)
TimeoutStep == \E c \in CPUs : \E u \in timer : Timeout(c, u)
PeriodStep == \E c \in CPUs : \E u \in period_timer : Period(c, u)
OverrunStep == \E c \in CPUs : \E u \in period_timer : Overrun(c, u)

LEMMA Steps ==
  Next => /\ ~Undefined
          /\ \/ ExitStep \/ SleepStep \/ JobTestStep \/ JobEndStep
             \/ TakeHeapStep \/ ReleaseHeapStep \/ CallScheduleStep \/ ReclaimStep
             \/ ReclaimUnlockStep \/ CreateStep \/ StartupStep \/ DeleteInitStep
             \/ EnterCriticalStep \/ ExitCriticalStep \/ TickStep \/ SliceReadStep
             \/ SliceWriteStep \/ IpiStep \/ IrqExitStep \/ TimeoutStep
             \/ PeriodStep \/ OverrunStep
<1> SUFFICES ASSUME Next
             PROVE  \/ ExitStep \/ SleepStep \/ JobTestStep \/ JobEndStep
                    \/ TakeHeapStep \/ ReleaseHeapStep \/ CallScheduleStep \/ ReclaimStep
                    \/ ReclaimUnlockStep \/ CreateStep \/ StartupStep \/ DeleteInitStep
                    \/ EnterCriticalStep \/ ExitCriticalStep \/ TickStep \/ SliceReadStep
                    \/ SliceWriteStep \/ IpiStep \/ IrqExitStep \/ TimeoutStep
                    \/ PeriodStep \/ OverrunStep
  BY Zenon DEF Next
<1>1. ASSUME NEW c \in CPUs, IrqStep(c)
      PROVE  TickStep \/ SliceReadStep \/ SliceWriteStep \/ TimeoutStep
             \/ PeriodStep \/ OverrunStep \/ IpiStep \/ IrqExitStep
  BY <1>1, Zenon DEF IrqStep, TickStep, SliceReadStep, SliceWriteStep, IpiStep, IrqExitStep, TimeoutStep,
     PeriodStep, OverrunStep
<1>2. ASSUME NEW c \in CPUs, NEW t, Runs(t, c), ThreadStep(t, c)
      PROVE  \/ ExitStep \/ SleepStep \/ JobTestStep \/ JobEndStep \/ TakeHeapStep
             \/ ReleaseHeapStep \/ CallScheduleStep \/ ReclaimStep \/ ReclaimUnlockStep
  BY <1>2, Zenon DEF ThreadStep, ExitStep, SleepStep, JobTestStep, JobEndStep, TakeHeapStep, ReleaseHeapStep,
     CallScheduleStep, ReclaimStep, ReclaimUnlockStep
<1>3. ASSUME NEW c \in CPUs, NEW t, Runs(t, c), t = Main, MainStep(t, c)
      PROVE  CreateStep \/ StartupStep \/ DeleteInitStep \/ EnterCriticalStep \/ ExitCriticalStep
  BY <1>3, Zenon DEF MainStep, CreateStep, StartupStep, DeleteInitStep, EnterCriticalStep, ExitCriticalStep
<1> QED
  BY <1>1, <1>2, <1>3, Zenon DEF Next

-----------------------------------------------------------------------------
\* Steps of thread t on core c.
LEMMA SleepKeeps == SInv /\ ~Undefined /\ SleepStep => SInv'
<1> SUFFICES ASSUME SInv, ~Undefined, NEW c \in CPUs, NEW t, Runs(t, c), Sleep(t, c)
             PROVE  SInv'
  BY Zenon DEF SleepStep
<1>0. /\ VarType /\ SchedOK(s) /\ SliceOK /\ IdleOK /\ \A u \in All : ThreadOK(u)
      /\ s.stat \in [All -> Stats]
  BY Zenon DEF SInv, SchedOK, LinksOK, SchedType
<1>1. /\ t \in All /\ s.oncpu[t] # NoCpu /\ s.current[c] = t /\ irq[c] = "none"
      /\ s.stat[t] \in {"RUNNING", "SUSPEND"} /\ t \notin killed
      /\ \A d \in CPUs \ {c} : s.current[d] # t
  BY OnCore, Zenon DEF Runs, Sleep
<1>2. /\ SchedOK(s') /\ SuspendedStep(s, s', t)
  BY <1>0, <1>1, SuspendedEffect, Zenon DEF Sleep
<1>3. VarType'
  BY <1>0, <1>1, SchedAssumption, ZenonT(30) DEF VarType, Sleep, Goto, Places, interrupts, history
<1>4. ThreadOK(t)'
  BY <1>0, <1>1, <1>2, NothingLost, SMTT(30) DEF ThreadOK, SuspendedStep, In, Sleep, Goto, history, VarType, Lost
<1>5. \A u \in All \ {t} : ThreadOK(u)'
  <2> SUFFICES ASSUME NEW u \in All \ {t} PROVE Same(u)
    BY <1>0, ThreadFrame, Zenon
  <2> QED
    BY <1>0, <1>1, <1>2, Zenon DEF Same, SuspendedStep, In, Sleep, Goto, history, VarType
<1>6. SliceOK'
  BY <1>0, <1>1, <1>2, SliceFrame, SMTT(30) DEF MayBecome, SuspendedStep, Sleep, interrupts
<1>7. IdleOK'
  BY <1>0, <1>1, SMTT(30) DEF IdleOK, Sleep, Goto, VarType
<1> QED
  BY <1>2, <1>3, <1>4, <1>5, <1>6, <1>7, Zenon DEF SInv

LEMMA JobEndKeeps == SInv /\ ~Undefined /\ JobEndStep => SInv'
<1> SUFFICES ASSUME SInv, ~Undefined, NEW c \in CPUs, NEW t, Runs(t, c), JobEnd(t, c)
             PROVE  SInv'
  BY Zenon DEF JobEndStep
<1>0. /\ VarType /\ SchedOK(s) /\ SliceOK /\ IdleOK /\ \A u \in All : ThreadOK(u)
      /\ s.stat \in [All -> Stats]
  BY Zenon DEF SInv, SchedOK, LinksOK, SchedType
<1>1. /\ t \in All /\ s.oncpu[t] # NoCpu /\ s.current[c] = t /\ irq[c] = "none"
      /\ s.stat[t] \in {"RUNNING", "SUSPEND", "CLOSE"}
      /\ s.stat[t] = "CLOSE" => t \in killed
      /\ \A d \in CPUs \ {c} : s.current[d] # t
  BY OnCore DEF Runs
<1>2. /\ SchedOK(s') /\ SuspendedStep(s, s', t)
  BY <1>0, <1>1, SuspendedEffect, Zenon DEF JobEnd
<1>3. VarType'
  BY <1>0, <1>1, Zenon DEF VarType, JobEnd, Goto, Places, interrupts, history
<1>4. ThreadOK(t)'
  <2>1. t \in Periodic /\ t \in period_timer \cup killed
    <3>1. ThreadOK(t) /\ pc[t] = "end"
      BY <1>0, <1>1, Zenon DEF JobEnd, At
    <3> QED
      BY <1>1, <3>1, Zenon DEF ThreadOK
  <2> QED
    BY <1>0, <1>1, <1>2, <2>1, NothingLost DEF ThreadOK, SuspendedStep, In, JobEnd, Goto, history, VarType, Lost
<1>5. \A u \in All \ {t} : ThreadOK(u)'
  <2> SUFFICES ASSUME NEW u \in All \ {t} PROVE Same(u)
    BY <1>0, ThreadFrame, Zenon
  <2> QED
    BY <1>0, <1>1, <1>2, ZenonT(30) DEF Same, SuspendedStep, In, JobEnd, Goto, history, VarType
<1>6. SliceOK'
  BY <1>0, <1>1, <1>2, SliceFrame, SMTT(30) DEF MayBecome, SuspendedStep, JobEnd, interrupts
<1>7. IdleOK'
  BY <1>0, <1>1 DEF IdleOK, JobEnd, Goto, VarType
<1> QED
  BY <1>2, <1>3, <1>4, <1>5, <1>6, <1>7, Zenon DEF SInv

\* Steps that only move the thread on.
LEMMA MoveKeeps ==
  ASSUME SInv, ~Undefined, NEW t \in All, NEW place \in Places, Goto(t, place),
         UNCHANGED <<s, timers, victim, history, irq, old_stat>>,
         place = "end" => t \in Periodic,
         t \in IdleThreads /\ place \in {"spin", "free", "heap", "take"} =>
           pc[t] \in {"spin", "free", "heap", "take"}
  PROVE  SInv'
<1>0. /\ VarType /\ SchedOK(s) /\ SliceOK /\ IdleOK /\ \A u \in All : ThreadOK(u)
  BY Zenon DEF SInv
<1>1. VarType'
  BY <1>0, Zenon DEF VarType, Goto, timers, history
<1>2. SchedOK(s')
  BY <1>0, Zenon
<1>3. ThreadOK(t)'
  BY <1>0, NothingLost, Zenon DEF ThreadOK, Goto, timers, history, VarType, Lost
<1>4. \A u \in All \ {t} : ThreadOK(u)'
  <2> SUFFICES ASSUME NEW u \in All \ {t} PROVE Same(u)
    BY <1>0, ThreadFrame, Zenon
  <2> QED
    BY <1>0, Zenon DEF Same, Goto, timers, history, VarType
<1>5. SliceOK'
  BY <1>0, Zenon DEF SliceOK
<1>6. IdleOK'
  BY <1>0 DEF IdleOK, Goto, VarType
<1> QED
  BY <1>1, <1>2, <1>3, <1>4, <1>5, <1>6, Zenon DEF SInv

LEMMA TakeHeapKeeps == SInv /\ ~Undefined /\ TakeHeapStep => SInv'
<1> SUFFICES ASSUME SInv, ~Undefined, NEW c \in CPUs, NEW t, Runs(t, c), TakeHeap(t, c)
             PROVE  SInv'
  BY Zenon DEF TakeHeapStep
<1>0. /\ VarType /\ SchedOK(s) /\ SliceOK /\ IdleOK /\ \A u \in All : ThreadOK(u)
      /\ s.stat \in [All -> Stats]
  BY Zenon DEF SInv, SchedOK, LinksOK, SchedType
<1>1. /\ t \in All /\ s.oncpu[t] # NoCpu /\ s.current[c] = t /\ irq[c] = "none"
      /\ s.stat[t] \in {"RUNNING", "SUSPEND"} /\ t \notin killed /\ t \notin Periodic
      /\ \A d \in CPUs \ {c} : s.current[d] # t
  BY <1>0, OnCore, Zenon DEF Runs, TakeHeap, VarType
<1>i. t \in IdleThreads => pc[t] = "free"
  BY Zenon DEF TakeHeap, At
<1>2. CASE value > 0
  <2>1. Goto(t, "heap") /\ UNCHANGED <<s, timers, victim, history, irq, old_stat>>
    BY <1>2, Zenon DEF TakeHeap, timers, interrupts
  <2>2. "heap" \in Places
    BY Zenon DEF Places
  <2> QED
    BY <1>1, <1>i, <2>1, <2>2, MoveKeeps, Zenon
<1>3. CASE ~(value > 0)
  <2> DEFINE r == Suspended(s, t)
  <2>1. SchedOK(r) /\ SuspendedStep(s, r, t)
    BY <1>0, <1>1, SuspendedEffect, Zenon
  <2> DEFINE w == Append(r.waiters, t)
  <2>2. s' = [r EXCEPT !.waiters = w]
    BY <1>3, Zenon DEF TakeHeap
  <2>3. /\ timer' = timer \ {t} /\ Goto(t, "take")
        /\ UNCHANGED <<period_timer, victim, history, irq, old_stat>>
    BY <1>3, Zenon DEF TakeHeap, interrupts
  <2> HIDE DEF r
  <2>4. /\ w \in Seq(All) /\ IsInjective(w)
        /\ \A u \in All : Contains(w, u) <=> Contains(r.waiters, u) \/ u = t
    <3>1. r.waiters \in Seq(All) /\ IsInjective(r.waiters) /\ ~Contains(r.waiters, t)
      BY <1>1, <2>1, Zenon DEF SuspendedStep, SchedOK, LinksOK, SchedType
    <3> QED
      BY <1>1, <3>1, AppendList, SMTT(30)
  <2> HIDE DEF w
  <2>5. /\ s' \in SchedType /\ s'.stat = r.stat /\ s'.oncpu = r.oncpu /\ s'.current = r.current
        /\ s'.waiters = w /\ s'.defunct = r.defunct /\ s'.ready = r.ready /\ s'.group = r.group
    BY <2>1, <2>2, <2>4, Zenon DEF SchedOK, LinksOK, SchedType
  <2>6. SchedOK(s')
    BY <2>1, <2>4, <2>5, Zenon DEF SchedOK, LinksOK
  <2>7. /\ s'.stat = [s.stat EXCEPT ![t] = "SUSPEND"] /\ s'.oncpu = s.oncpu /\ s'.current = s.current
        /\ \A u \in All : /\ Contains(s'.waiters, u) <=> Contains(s.waiters, u) \/ u = t
                          /\ Contains(s'.defunct, u) <=> Contains(s.defunct, u) /\ u # t
    BY <2>1, <2>4, <2>5, Zenon DEF SuspendedStep
  <2>8. VarType'
    BY <1>0, <1>1, <2>3, ZenonT(30) DEF VarType, Goto, Places, history
  <2>9. ThreadOK(t)'
    BY <1>0, <1>1, <2>3, <2>7, NothingLost, SMTT(30) DEF ThreadOK, In, Goto, history, VarType, Lost
  <2>10. \A u \in All \ {t} : ThreadOK(u)'
    <3> SUFFICES ASSUME NEW u \in All \ {t} PROVE Same(u)
      BY <1>0, ThreadFrame, Zenon
    <3> QED
      BY <1>0, <1>1, <2>3, <2>7, ZenonT(30) DEF Same, In, Goto, history, VarType
  <2>11. SliceOK'
    BY <1>0, <1>1, <2>3, <2>7, SliceFrame, SMTT(30) DEF MayBecome
  <2>12. IdleOK'
    BY <1>0, <1>1, <1>i, <2>3, SMTT(30) DEF IdleOK, Goto, VarType
  <2> QED
    BY <2>6, <2>8, <2>9, <2>10, <2>11, <2>12, Zenon DEF SInv
<1> QED
  BY <1>2, <1>3, Zenon

\* Writing the stat of one thread.
LEMMA StatWrite ==
  ASSUME NEW r, SchedOK(r), NEW n \in SchedType, NEW t \in All, NEW x,
         n.stat = [r.stat EXCEPT ![t] = x], n.oncpu = r.oncpu, n.current = r.current,
         n.ready = r.ready, n.group = r.group, n.waiters = r.waiters, n.defunct = r.defunct,
         r.stat[t] # "READY", x # "READY",
         x = "RUNNING" => r.oncpu[t] # NoCpu, x \in {"none", "INIT"} => r.oncpu[t] = NoCpu
  PROVE  SchedOK(n)
<1>1. r.stat \in [All -> Stats] /\ ReadyOK(r.stat, r.ready, r.group) /\ CoreOK(r.stat, r.oncpu, r.current)
  BY Zenon DEF SchedOK, LinksOK, SchedType
<1>2. \A u \in All : n.stat[u] = "READY" <=> r.stat[u] = "READY"
  BY <1>1, Zenon
<1>3. ReadyOK(n.stat, r.ready, r.group)
  BY <1>1, <1>2, ReadySame, Zenon
<1>4. CoreOK(n.stat, r.oncpu, r.current)
  BY <1>1 DEF CoreOK
<1> QED
  BY <1>3, <1>4, Zenon DEF SchedOK, LinksOK

LEMMA CreateKeeps == SInv /\ ~Undefined /\ CreateStep => SInv'
<1> SUFFICES ASSUME SInv, ~Undefined, NEW c \in CPUs, NEW t, NEW u \in Threads, Create(t, c, u)
             PROVE  SInv'
  BY Zenon DEF CreateStep
<1>0. /\ VarType /\ SchedOK(s) /\ SliceOK /\ IdleOK /\ \A v \in All : ThreadOK(v)
      /\ s.stat \in [All -> Stats] /\ s \in SchedType
  BY Zenon DEF SInv, SchedOK, LinksOK, SchedType
<1>1. u \in All /\ s.stat[u] = "none" /\ s.oncpu[u] = NoCpu /\ \A d \in CPUs : s.current[d] # u
  BY OffCore, Zenon DEF Create, All
<1>2. /\ s' \in SchedType /\ s'.stat = [s.stat EXCEPT ![u] = "INIT"]
      /\ s'.oncpu = s.oncpu /\ s'.current = s.current /\ s'.ready = s.ready /\ s'.group = s.group
      /\ s'.waiters = s.waiters /\ s'.defunct = s.defunct
  BY <1>0, <1>1, Zenon DEF Create, SchedType, Stats
<1>3. SchedOK(s')
  BY <1>0, <1>1, <1>2, StatWrite, SMTT(30)
<1>4. VarType'
  BY <1>0, <1>1, Zenon DEF VarType, Create, Goto, Places, interrupts, history, timers
<1>5. ThreadOK(u)'
  BY <1>0, <1>1, <1>2, NothingLost, SMTT(30) DEF ThreadOK, In, Create, Goto, history, timers, VarType, Lost
<1>6. \A v \in All \ {u} : ThreadOK(v)'
  <2> SUFFICES ASSUME NEW v \in All \ {u} PROVE Same(v)
    BY <1>0, ThreadFrame, Zenon
  <2> QED
    BY <1>0, <1>1, <1>2, SMTT(30) DEF Same, In, Create, Goto, history, timers, VarType
<1>7. SliceOK'
  BY <1>0, <1>1, <1>2, SliceFrame, SMTT(30) DEF MayBecome, Create, interrupts
<1>8. IdleOK'
  BY <1>0, <1>1, SMTT(30) DEF IdleOK, Create, Goto, VarType
<1> QED
  BY <1>3, <1>4, <1>5, <1>6, <1>7, <1>8, ZenonT(30) DEF SInv

LEMMA StartupKeeps == SInv /\ ~Undefined /\ StartupStep => SInv'
<1> SUFFICES ASSUME SInv, ~Undefined, NEW c \in CPUs, NEW t, NEW u \in Threads, s.current[c] = t, t = Main,
               Startup(t, c, u)
             PROVE  SInv'
  BY Zenon DEF StartupStep, Runs
<1>0. /\ VarType /\ SchedOK(s) /\ SliceOK /\ IdleOK /\ \A v \in All : ThreadOK(v)
      /\ s.stat \in [All -> Stats] /\ s \in SchedType
  BY Zenon DEF SInv, SchedOK, LinksOK, SchedType
<1>1. u \in All /\ s.stat[u] = "INIT" /\ s.oncpu[u] = NoCpu /\ \A d \in CPUs : s.current[d] # u
  BY OffCore, Zenon DEF Startup, All
<1>t. t \in All /\ t \notin IdleThreads
  BY SchedAssumption, Zenon DEF All
<1>2. CASE u \in Periodic
  <2>1. /\ period_timer' = period_timer \cup {u}
        /\ UNCHANGED <<s, pc, timer, irq, old_stat, victim, history>>
    BY <1>2, Zenon DEF Startup, interrupts
  <2>2. VarType'
    BY <1>0, <1>2, <2>1, Zenon DEF VarType, history
  <2>3. ThreadOK(u)'
    BY <1>0, <1>1, <2>1, NothingLost, Zenon DEF ThreadOK, history, Lost
  <2>4. \A v \in All \ {u} : ThreadOK(v)'
    <3> SUFFICES ASSUME NEW v \in All \ {u} PROVE Same(v)
      BY <1>0, ThreadFrame, Zenon
    <3> QED
      BY <2>1, Zenon DEF Same, history
  <2>5. SliceOK' /\ IdleOK' /\ SchedOK(s')
    BY <1>0, <2>1, Zenon DEF SliceOK, IdleOK
  <2> QED
    BY <2>2, <2>3, <2>4, <2>5, Zenon DEF SInv
<1>3. CASE u \notin Periodic
  <2>1. /\ s' = Resumed(Suspended(s, u), u, c) /\ Goto(t, "sched")
        /\ UNCHANGED <<timer, period_timer, irq, old_stat, victim, history>>
    BY <1>3, Zenon DEF Startup, interrupts
  <2> DEFINE r == Suspended(s, u)
  <2>2. SchedOK(r) /\ SuspendedStep(s, r, u)
    BY <1>0, <1>1, SuspendedEffect, Zenon
  <2>3. s' = Resumed(r, u, c)
    BY <2>1, Zenon
  <2> HIDE DEF r
  <2>4. r.stat[u] # "READY" /\ r.oncpu[u] = NoCpu
    BY <1>0, <1>1, <2>2, Zenon DEF SuspendedStep
  <2>5. SchedOK(s') /\ ResumedStep(r, s', u)
    BY <1>1, <2>2, <2>3, <2>4, ResumedEffect, Zenon
  <2>6. /\ s'.stat = [s.stat EXCEPT ![u] = "READY"] /\ s'.oncpu = s.oncpu /\ s'.current = s.current
        /\ \A v \in All : /\ Contains(s'.waiters, v) <=> Contains(s.waiters, v) /\ v # u
                          /\ Contains(s'.defunct, v) <=> Contains(s.defunct, v) /\ v # u
    BY <1>0, <2>2, <2>4, <2>5, Zenon DEF SuspendedStep, ResumedStep
  <2>7. VarType'
    BY <1>0, <2>1, Zenon DEF VarType, Goto, Places, history
  <2>8. ThreadOK(u)'
    BY <1>0, <1>1, <1>3, <1>t, <2>1, <2>6, NothingLost, ZenonT(30) DEF ThreadOK, In, Goto, history, VarType, Lost
  <2>9. \A v \in All \ {u} : ThreadOK(v)'
    <3> SUFFICES ASSUME NEW v \in All \ {u} PROVE Same(v)
      BY <1>0, ThreadFrame, Zenon
    <3> QED
      BY <1>0, <1>1, <1>t, <2>1, <2>6, ZenonT(30) DEF Same, In, Goto, history, VarType
  <2>10. SliceOK'
    BY <1>0, <1>1, <2>1, <2>6, SliceFrame, SMTT(30) DEF MayBecome
  <2>11. IdleOK'
    BY <1>0, <1>t, <2>1 DEF IdleOK, Goto, VarType
  <2> QED
    BY <2>5, <2>7, <2>8, <2>9, <2>10, <2>11, Zenon DEF SInv
<1> QED
  BY <1>2, <1>3, Zenon

LEMMA DeleteInitKeeps == SInv /\ ~Undefined /\ DeleteInitStep => SInv'
<1> SUFFICES ASSUME SInv, ~Undefined, NEW c \in CPUs, NEW t, NEW u \in Threads, DeleteInit(t, c, u)
             PROVE  SInv'
  BY Zenon DEF DeleteInitStep
<1>0. /\ VarType /\ SchedOK(s) /\ SliceOK /\ IdleOK /\ \A v \in All : ThreadOK(v)
      /\ s.stat \in [All -> Stats]
  BY Zenon DEF SInv, SchedOK, LinksOK, SchedType
<1>1. u \in All /\ s.stat[u] = "INIT" /\ s.oncpu[u] = NoCpu /\ \A d \in CPUs : s.current[d] # u
  BY OffCore, Zenon DEF DeleteInit, All
<1>2. SchedOK(s') /\ ClosedStep(s, s', u)
  BY <1>0, <1>1, ClosedEffect, Zenon DEF DeleteInit
<1>3. u \notin period_timer /\ UNCHANGED <<timer, period_timer, irq, old_stat, pc, victim, history>>
  BY Zenon DEF DeleteInit, timers, interrupts
<1>4. VarType'
  BY <1>0, <1>3, ZenonT(30) DEF VarType, history
<1>5. ThreadOK(u)'
  BY <1>0, <1>1, <1>2, <1>3, NothingLost, SMTT(30) DEF ThreadOK, ClosedStep, In, history, VarType, Lost
<1>6. \A v \in All \ {u} : ThreadOK(v)'
  <2> SUFFICES ASSUME NEW v \in All \ {u} PROVE Same(v)
    BY <1>0, ThreadFrame, ZenonT(30)
  <2> QED
    BY <1>0, <1>1, <1>2, <1>3, Zenon DEF Same, ClosedStep, In, history
<1>7. SliceOK'
  BY <1>0, <1>1, <1>2, <1>3, SliceFrame, SMTT(30) DEF MayBecome, ClosedStep
<1>8. IdleOK'
  BY <1>0, <1>3, Zenon DEF IdleOK
<1> QED
  BY <1>2, <1>4, <1>5, <1>6, <1>7, <1>8, Zenon DEF SInv

\* What the idle thread does to the dead thread before it releases heap_sem.
Freed(t) == IF t \in IdleThreads THEN [s EXCEPT !.stat[victim] = "freed"] ELSE s

LEMMA FreedEffect ==
  ASSUME SInv, ~Undefined, NEW t \in All, pc[t] = "heap"
  PROVE  /\ t \in IdleThreads => /\ victim \in Threads /\ s.stat[victim] \in {"CLOSE", "SUSPEND"}
                                 /\ s.stat[victim] = "SUSPEND" => victim \in killed
                                 /\ ~In(victim, s.waiters) /\ ~In(victim, s.defunct)
                                 /\ victim \notin timer \cup period_timer
                                 /\ s.oncpu[victim] # NoCpu => victim \in killed
         /\ SchedOK(Freed(t)) /\ Freed(t).oncpu = s.oncpu /\ Freed(t).current = s.current
         /\ Freed(t).stat = (IF t \in IdleThreads THEN [s.stat EXCEPT ![victim] = "freed"] ELSE s.stat)
         /\ Freed(t).waiters = s.waiters /\ Freed(t).defunct = s.defunct
         /\ Freed(t).ipi = s.ipi /\ Freed(t).group = s.group
<1>0. /\ VarType /\ SchedOK(s) /\ IdleOK /\ \A v \in All : ThreadOK(v)
      /\ s.stat \in [All -> Stats] /\ s \in SchedType
  BY Zenon DEF SInv, SchedOK, LinksOK, SchedType
<1>1. CASE t \in IdleThreads
  <2>1. victim \in Threads
    BY <1>0, <1>1, Zenon DEF IdleOK, VarType
  <2>2. ThreadOK(victim) /\ ~Lost(victim) /\ victim \in All
    BY <1>0, <2>1, NothingLost, Zenon DEF All
  <2>3. /\ s.stat[victim] \in {"CLOSE", "SUSPEND"}
        /\ s.stat[victim] = "SUSPEND" => victim \in killed
        /\ ~In(victim, s.waiters) /\ ~In(victim, s.defunct)
        /\ victim \notin timer \cup period_timer
        /\ s.oncpu[victim] # NoCpu => victim \in killed
    BY <1>0, <2>2, Zenon DEF ThreadOK, VarType
  <2> DEFINE r == Freed(t)
  <2>4. r = [s EXCEPT !.stat[victim] = "freed"]
    BY <1>1, Zenon DEF Freed
  <2> HIDE DEF r
  <2>5. /\ r \in SchedType /\ r.stat = [s.stat EXCEPT ![victim] = "freed"] /\ r.oncpu = s.oncpu
        /\ r.current = s.current /\ r.ready = s.ready /\ r.group = s.group
        /\ r.waiters = s.waiters /\ r.defunct = s.defunct /\ r.ipi = s.ipi
    BY <1>0, <2>2, <2>4, Zenon DEF SchedType, Stats
  <2>6. SchedOK(r)
    BY <1>0, <2>2, <2>3, <2>5, StatWrite, SMTT(30)
  <2> QED
    BY <1>1, <2>1, <2>3, <2>5, <2>6, Zenon DEF r
<1>2. CASE t \notin IdleThreads
  BY <1>0, <1>2, Zenon DEF Freed
<1> QED
  BY <1>1, <1>2, Zenon

LEMMA ReleaseHeapKeeps == SInv /\ ~Undefined /\ ReleaseHeapStep => SInv'
<1> SUFFICES ASSUME SInv, ~Undefined, NEW c \in CPUs, NEW t, Runs(t, c), ReleaseHeap(t, c)
             PROVE  SInv'
  BY Zenon DEF ReleaseHeapStep
<1>0. /\ VarType /\ SchedOK(s) /\ SliceOK /\ IdleOK /\ \A v \in All : ThreadOK(v)
      /\ s.stat \in [All -> Stats] /\ s \in SchedType /\ CoreOK(s.stat, s.oncpu, s.current)
  BY Zenon DEF SInv, SchedOK, LinksOK, SchedType
<1>1. t \in All /\ pc[t] = "heap"
  BY OnCore, Zenon DEF Runs, ReleaseHeap, At
<1> DEFINE r == Freed(t)
<1>2. t \in IdleThreads => /\ victim \in All /\ s.stat[victim] \in {"CLOSE", "SUSPEND"}
                           /\ s.stat[victim] = "SUSPEND" => victim \in killed
                           /\ ~In(victim, s.waiters) /\ ~In(victim, s.defunct)
                           /\ victim \notin timer \cup period_timer
                           /\ s.oncpu[victim] # NoCpu => victim \in killed
  BY <1>1, FreedEffect, Zenon DEF All
<1>3. SchedOK(r) /\ r.oncpu = s.oncpu /\ r.current = s.current
      /\ r.stat = (IF t \in IdleThreads THEN [s.stat EXCEPT ![victim] = "freed"] ELSE s.stat)
      /\ r.waiters = s.waiters /\ r.defunct = s.defunct
  BY <1>1, FreedEffect, Zenon
<1>4. /\ victim' = (IF t \in IdleThreads THEN NoThread ELSE victim)
      /\ UNCHANGED <<period_timer, irq, old_stat, history>>
  BY Zenon DEF ReleaseHeap, interrupts
<1>n. NoThread \notin All
  BY SchedAssumption, Zenon
<1>5. CASE s.waiters = <<>>
  <2>1. s' = r /\ Goto(t, "job") /\ timer' = timer
    BY <1>5, Zenon DEF ReleaseHeap, Freed
  <2> HIDE DEF r
  <2>2. VarType'
    BY <1>0, <1>4, <2>1, Zenon DEF VarType, Goto, Places, history
  <2>3. ASSUME t \in IdleThreads, NEW v \in All, v = victim PROVE ThreadOK(v)'
    <3>1. /\ s'.stat[v] = "freed" /\ s'.oncpu[v] = s.oncpu[v]
          /\ ~In(v, s'.waiters) /\ ~In(v, s'.defunct)
      BY <1>0, <1>2, <1>3, <2>1, <2>3, Zenon DEF In
    <3>2. /\ v \notin timer' /\ v \notin period_timer' /\ UNCHANGED <<killed, overwritten>>
          /\ victim' # v
      BY <1>2, <1>4, <1>n, <2>1, <2>3, Zenon DEF history
    <3>3. pc'[v] = "end" => pc[v] = "end"
      BY <1>0, <2>1, Zenon DEF Goto, VarType
    <3>4. ThreadOK(v) /\ (s.oncpu[v] # NoCpu => v \in killed)
      BY <1>0, <1>2, <2>3, Zenon
    <3> QED
      BY <3>1, <3>2, <3>3, <3>4, Zenon DEF ThreadOK
  <2>4. ASSUME NEW v \in All, t \in IdleThreads => v # victim PROVE ThreadOK(v)'
    <3>1. Same(v)
      BY <1>0, <1>3, <1>4, <1>n, <2>1, <2>4, Zenon DEF Same, In, Goto, history, VarType
    <3> QED
      BY <1>0, <3>1, ThreadFrame, Zenon
  <2>5. SliceOK'
    <3>1. \A d \in CPUs : s'.current[d] = s.current[d] /\ MayBecome(s.stat[s.current[d]], s'.stat[s.current[d]])
      BY <1>0, <1>3, <2>1, Zenon DEF MayBecome, SchedType
    <3> QED
      BY <1>0, <1>4, <3>1, SliceFrame, Zenon
  <2>6. IdleOK'
    BY <1>0, <1>1, <1>4, <2>1, SMTT(30) DEF IdleOK, Goto, VarType
  <2> QED
    BY <1>3, <2>1, <2>2, <2>3, <2>4, <2>5, <2>6, ZenonT(30) DEF SInv
<1>6. CASE s.waiters # <<>>
  <2>2. PICK h \in All : h = Head(s.waiters) /\ In(h, s.waiters)
    <3>1. s.waiters \in Seq(All) /\ IsInjective(s.waiters)
      BY <1>0, Zenon DEF SchedOK, LinksOK, SchedType
    <3> QED
      BY <1>6, <3>1, TailList, Zenon DEF In
  <2>1. s' = Resumed(r, h, c) /\ Goto(t, "sched") /\ timer' = timer \ {h}
    BY <1>6, <2>2, Zenon DEF ReleaseHeap, Freed
  <2> HIDE DEF r
  <2>3. s.stat[h] = "SUSPEND" /\ h \notin Periodic /\ h \notin killed /\ (t \in IdleThreads => h # victim)
    BY <1>0, <1>2, <2>2, Zenon DEF ThreadOK, VarType
  <2>4. r.stat[h] = "SUSPEND"
    BY <1>0, <1>3, <2>2, <2>3, Zenon
  <2>5. SchedOK(s') /\ ResumedStep(r, s', h)
    BY <1>3, <2>1, <2>2, <2>4, ResumedEffect, ZenonT(30)
  <2>7. VarType'
    BY <1>0, <1>4, <2>1, Zenon DEF VarType, Goto, Places, history
  <2>8. ASSUME t \in IdleThreads, NEW v \in All, v = victim PROVE ThreadOK(v)'
    <3>1. /\ s'.stat[v] = "freed" /\ s'.oncpu[v] = s.oncpu[v]
          /\ ~In(v, s'.waiters) /\ ~In(v, s'.defunct)
      BY <1>0, <1>2, <1>3, <2>3, <2>5, <2>8, ZenonT(30) DEF ResumedStep, In
    <3>2. /\ v \notin timer' /\ v \notin period_timer' /\ UNCHANGED <<killed, overwritten>>
          /\ victim' # v
      BY <1>2, <1>4, <1>n, <2>1, <2>8, Zenon DEF history
    <3>3. pc'[v] = "end" => pc[v] = "end"
      BY <1>0, <2>1, Zenon DEF Goto, VarType
    <3>4. ThreadOK(v) /\ (s.oncpu[v] # NoCpu => v \in killed)
      BY <1>0, <1>2, <2>8, Zenon
    <3> QED
      BY <3>1, <3>2, <3>3, <3>4, ZenonT(30) DEF ThreadOK
  <2>9. ASSUME NEW v \in All, t \in IdleThreads => v # victim, v # h PROVE ThreadOK(v)'
    <3>1. Same(v)
      <4>1. /\ s'.stat[v] = s.stat[v] /\ s'.oncpu[v] = s.oncpu[v]
            /\ In(v, s'.waiters) <=> In(v, s.waiters)
            /\ In(v, s'.defunct) <=> In(v, s.defunct)
        BY <1>0, <1>3, <2>5, <2>9, Zenon DEF ResumedStep, In
      <4>2. /\ v \in timer' <=> v \in timer
            /\ v \in period_timer' <=> v \in period_timer
            /\ v \in killed' <=> v \in killed
            /\ v \in overwritten' <=> v \in overwritten
        BY <1>4, <2>1, <2>9, Zenon DEF history
      <4>3. victim' = v <=> victim = v
        BY <1>4, <1>n, <2>9, ZenonT(30)
      <4>4. pc'[v] = "end" => pc[v] = "end"
        BY <1>0, <2>1, Zenon DEF Goto, VarType
      <4> QED
        BY <4>1, <4>2, <4>3, <4>4, Zenon DEF Same
    <3> QED
      BY <1>0, <3>1, ThreadFrame, Zenon
  <2>10. ThreadOK(h)'
    <3>1. /\ s'.stat[h] \in {"RUNNING", "READY"} /\ ~In(h, s'.waiters)
          /\ In(h, s'.defunct) <=> In(h, s.defunct)
          /\ s'.oncpu[h] = s.oncpu[h]
      BY <1>0, <1>3, <2>2, <2>4, <2>5, Zenon DEF ResumedStep, In
    <3>2. /\ h \notin timer' /\ victim' \in {victim, NoThread} /\ (pc'[h] = "end" => pc[h] = "end")
          /\ UNCHANGED <<period_timer, killed, overwritten>>
      BY <1>0, <1>4, <2>1, Zenon DEF Goto, VarType, history
    <3>3. ThreadOK(h) /\ ~Lost(h) /\ h # NoThread
      BY <1>0, <1>n, <2>2, NothingLost, Zenon
    <3> QED
      BY <2>3, <3>1, <3>2, <3>3, Zenon DEF ThreadOK, Lost
  <2>11. SliceOK'
    <3>1. \A d \in CPUs : s'.current[d] = s.current[d] /\ MayBecome(s.stat[s.current[d]], s'.stat[s.current[d]])
      <4> SUFFICES ASSUME NEW d \in CPUs
                   PROVE  s'.current[d] = s.current[d] /\ MayBecome(s.stat[s.current[d]], s'.stat[s.current[d]])
        BY Zenon
      <4>1. s.current[d] \in All /\ s.current \in [CPUs -> All]
        BY <1>0, Zenon DEF SchedType
      <4>2. s.current[d] = h => s.oncpu[h] # NoCpu
        BY <1>0, <2>2, NoCoreIsNone, SMTT(30) DEF CoreOK
      <4> QED
        BY <1>0, <1>3, <2>2, <2>3, <2>4, <2>5, <4>1, <4>2, SMTT(30) DEF MayBecome, ResumedStep
    <3> QED
      BY <1>0, <1>4, <3>1, SliceFrame, ZenonT(30)
  <2>12. IdleOK'
    BY <1>0, <1>1, <1>4, <2>1, SMTT(30) DEF IdleOK, Goto, VarType
  <2>13. \A v \in All : ThreadOK(v)'
    <3> SUFFICES ASSUME NEW v \in All PROVE ThreadOK(v)'
      BY Zenon
    <3>1. CASE v = h
      BY <2>10, <3>1, Zenon
    <3>2. CASE t \in IdleThreads /\ v = victim
      BY <2>8, <3>2, Zenon
    <3>3. CASE ~(t \in IdleThreads /\ v = victim) /\ v # h
      BY <2>9, <3>3, Zenon
    <3> QED
      BY <3>1, <3>2, <3>3, Zenon
  <2> QED
    BY <2>5, <2>7, <2>11, <2>12, <2>13, Zenon DEF SInv
<1> QED
  BY <1>5, <1>6, Zenon

LEMMA ReclaimKeeps == SInv /\ ~Undefined /\ ReclaimStep => SInv'
<1> SUFFICES ASSUME SInv, ~Undefined, NEW c \in CPUs, NEW t, Runs(t, c), Reclaim(t, c)
             PROVE  SInv'
  BY Zenon DEF ReclaimStep
<1>0. /\ VarType /\ SchedOK(s) /\ SliceOK /\ IdleOK /\ \A v \in All : ThreadOK(v)
      /\ s \in SchedType
  BY Zenon DEF SInv, SchedOK, LinksOK, SchedType
<1>1. t \in All /\ t = Idle[Cpu0]
  BY OnCore, Zenon DEF Runs, Reclaim
<1> DEFINE d == Tail(s.defunct)
<1>2. PICK h \in All : /\ h = Head(s.defunct) /\ Contains(s.defunct, h)
                       /\ d \in Seq(All) /\ IsInjective(d)
                       /\ \A u \in All : Contains(d, u) <=> Contains(s.defunct, u) /\ u # h
  <2>1. s.defunct \in Seq(All) /\ IsInjective(s.defunct) /\ s.defunct # <<>>
    BY <1>0, Zenon DEF SchedOK, LinksOK, SchedType, Reclaim
  <2> QED
    BY <2>1, TailList, Zenon
<1>3. /\ s' = [s EXCEPT !.defunct = d] /\ victim' = h /\ Goto(t, "spin")
      /\ UNCHANGED <<timer, period_timer, irq, old_stat, history>>
  BY <1>2, Zenon DEF Reclaim, timers, interrupts
<1> HIDE DEF d
<1>4. /\ s' \in SchedType /\ s'.stat = s.stat /\ s'.oncpu = s.oncpu /\ s'.current = s.current
      /\ s'.ready = s.ready /\ s'.group = s.group /\ s'.waiters = s.waiters /\ s'.defunct = d
  BY <1>0, <1>2, <1>3, Zenon DEF SchedType
<1>5. SchedOK(s')
  BY <1>0, <1>2, <1>4, Zenon DEF SchedOK, LinksOK
<1>6. h \in Threads /\ s.stat[h] = "CLOSE"
  BY <1>0, <1>2, NothingLost, Zenon DEF ThreadOK, In
<1>n. NoThread \notin All
  BY SchedAssumption, Zenon
<1>7. VarType'
  BY <1>0, <1>3, <1>6, ZenonT(30) DEF VarType, Goto, Places, history
<1>8. ThreadOK(h)'
  BY <1>0, <1>2, <1>3, <1>4, <1>6, NothingLost, SMTT(30) DEF ThreadOK, In, Goto, VarType, history, Lost
<1>9. ASSUME NEW v \in All \ {h} PROVE ThreadOK(v)'
  <2>1. ThreadOK(v) /\ ~Lost(v) /\ victim' # v
    BY <1>0, <1>3, NothingLost, Zenon
  <2>2. /\ s'.stat = s.stat /\ s'.oncpu = s.oncpu /\ s'.waiters = s.waiters
        /\ In(v, s'.defunct) => In(v, s.defunct)
        /\ pc'[v] = "end" => pc[v] = "end"
        /\ UNCHANGED <<timer, period_timer, killed, overwritten>>
    BY <1>0, <1>2, <1>3, <1>4, Zenon DEF In, Goto, VarType, history
  <2> QED
    BY <2>1, <2>2, Zenon DEF ThreadOK, Lost
<1>10. SliceOK'
  BY <1>0, <1>3, <1>4, ZenonT(30) DEF SliceOK
<1>11. IdleOK'
  BY <1>0, <1>1, <1>2, <1>3, <1>n DEF IdleOK, Goto, VarType
<1> QED
  BY <1>5, <1>7, <1>8, <1>9, <1>10, <1>11, ZenonT(30) DEF SInv

\* rt_schedule on core c in a step that changes no timer.
LEMMA ScheduleKeeps ==
  ASSUME SInv, ~Undefined, NEW c \in CPUs, s' = Schedule(s, c), irq[c] # "slice",
         UNCHANGED <<timer, period_timer, victim, history, old_stat>>,
         \A d \in CPUs : irq'[d] = "slice" => irq[d] = "slice",
         \A u \in All : pc'[u] = "end" => pc[u] = "end"
  PROVE  SchedOK(s') /\ SliceOK' /\ \A u \in All : ThreadOK(u)'
<1>0. /\ SchedOK(s) /\ SliceOK /\ \A u \in All : ThreadOK(u)
      /\ s.stat \in [All -> Stats] /\ s.oncpu \in [All -> Queues] /\ s.current \in [CPUs -> All]
  BY Zenon DEF SInv, SchedOK, LinksOK, SchedType
<1>1. SchedOK(s') /\ (s' = s \/ \E to \in All : s.stat[to] = "READY" /\ SwitchStep(s, s', c, to))
  BY <1>0, ScheduleEffect, Zenon
<1>2. CASE s' = s
  <2>1. \A u \in All : Same(u)
    BY <1>2, Zenon DEF Same, history
  <2>2. SliceOK'
    BY <1>0, <1>2, SliceFrame, Zenon DEF MayBecome
  <2> QED
    BY <1>0, <1>1, <2>1, <2>2, ThreadFrame, Zenon
<1>3. ASSUME NEW to \in All, s.stat[to] = "READY", SwitchStep(s, s', c, to)
      PROVE  SliceOK' /\ \A u \in All : ThreadOK(u)'
  <2>0. PICK cur \in All : cur = s.current[c]
    BY <1>0, Zenon
  <2>1. /\ cur \in All /\ s.oncpu[cur] # NoCpu /\ s.stat[cur] \in {"RUNNING", "SUSPEND", "CLOSE", "freed"}
        /\ \A d \in CPUs \ {c} : s.current[d] # cur
    BY <2>0, OnCore
  <2>2. to # cur /\ \A d \in CPUs : s.current[d] # to
    BY <1>3, <2>0, OffCore, Zenon
  <2>3. /\ s'.stat[to] = "RUNNING" /\ s'.oncpu[to] = c
        /\ s'.stat[cur] = (IF s.stat[cur] = "RUNNING" THEN "READY" ELSE s.stat[cur]) /\ s'.oncpu[cur] = NoCpu
        /\ \A u \in All \ {to, cur} : s'.stat[u] = s.stat[u] /\ s'.oncpu[u] = s.oncpu[u]
        /\ \A d \in CPUs \ {c} : s'.current[d] = s.current[d]
    <3>1. /\ s'.stat = [s.stat EXCEPT ![cur] = IF @ = "RUNNING" THEN "READY" ELSE @, ![to] = "RUNNING"]
          /\ s'.oncpu = [s.oncpu EXCEPT ![cur] = NoCpu, ![to] = c]
          /\ s'.current = [s.current EXCEPT ![c] = to]
      BY <1>3, <2>0, Zenon DEF SwitchStep
    <3> QED
      BY <1>0, <1>3, <2>0, <2>2, <3>1, ZenonT(30)
  <2>4. \A u \in All : /\ In(u, s'.waiters) <=> In(u, s.waiters) /\ u # to
                       /\ In(u, s'.defunct) <=> In(u, s.defunct) /\ u # to
    BY <1>3, Zenon DEF SwitchStep, In
  <2>5. ASSUME NEW u \in All \ {to, cur} PROVE ThreadOK(u)'
    <3>1. Same(u)
      BY <2>3, <2>4, Zenon DEF Same, history
    <3> QED
      BY <1>0, <3>1, ThreadFrame, Zenon
  <2>6. ThreadOK(to)'
    <3>1. ThreadOK(to) /\ ~Lost(to)
      BY <1>0, NothingLost, Zenon
    <3> QED
      BY <1>3, <2>3, <2>4, <3>1, Zenon DEF ThreadOK, Lost, history
  <2>7. ThreadOK(cur)'
    <3>1. ThreadOK(cur) /\ ~Lost(cur)
      BY <1>0, <2>1, NothingLost, Zenon
    <3> QED
      BY <2>1, <2>2, <2>3, <2>4, <3>1, Zenon DEF ThreadOK, Lost, history
  <2>8. SliceOK'
    <3>1. \A d \in CPUs : irq'[d] = "slice" =>
            d # c /\ s'.current[d] = s.current[d] /\ s'.stat[s.current[d]] = s.stat[s.current[d]]
      BY <1>0, <2>1, <2>2, <2>3, SMTT(30)
    <3> QED
      BY <1>0, <3>1, SliceFrame, ZenonT(30) DEF MayBecome
  <2> QED
    BY <2>5, <2>6, <2>7, <2>8, Zenon
<1> QED
  BY <1>1, <1>2, <1>3, Zenon

LEMMA CallScheduleKeeps == SInv /\ ~Undefined /\ CallScheduleStep => SInv'
<1> SUFFICES ASSUME SInv, ~Undefined, NEW c \in CPUs, NEW t, Runs(t, c), CallSchedule(t, c)
             PROVE  SInv'
  BY Zenon DEF CallScheduleStep
<1>0. VarType /\ IdleOK
  BY Zenon DEF SInv
<1>1. t \in All /\ irq[c] = "none"
  BY OnCore, Zenon DEF Runs
<1>2. /\ s' = Schedule(s, c) /\ UNCHANGED <<timer, period_timer, victim, history, irq, old_stat>>
      /\ pc[t] \in {"take", "sched"} /\ Goto(t, IF pc[t] = "take" THEN "heap" ELSE "job")
  BY Zenon DEF CallSchedule, timers, interrupts, At
<1>3. \A u \in All : pc'[u] = "end" => pc[u] = "end"
  BY <1>0, <1>2, Zenon DEF Goto, VarType
<1>4. SchedOK(s') /\ SliceOK' /\ \A u \in All : ThreadOK(u)'
  BY <1>1, <1>2, <1>3, ScheduleKeeps, Zenon
<1>5. VarType'
  BY <1>0, <1>2, Zenon DEF VarType, Goto, Places, history
<1>6. IdleOK'
  BY <1>0, <1>1, <1>2, SMTT(30) DEF IdleOK, Goto, VarType
<1> QED
  BY <1>4, <1>5, <1>6, Zenon DEF SInv

LEMMA IrqExitKeeps == SInv /\ ~Undefined /\ IrqExitStep => SInv'
<1> SUFFICES ASSUME SInv, ~Undefined, NEW c \in CPUs, IrqExit(c)
             PROVE  SInv'
  BY Zenon DEF IrqExitStep
<1>0. VarType /\ IdleOK /\ SchedOK(s) /\ SliceOK /\ \A u \in All : ThreadOK(u)
  BY Zenon DEF SInv
<1>1. /\ irq[c] = "exit" /\ irq' = [irq EXCEPT ![c] = "none"]
      /\ UNCHANGED <<timer, period_timer, victim, history, old_stat, pc>>
      /\ s' = Schedule(s, c) \/ s' = s
  BY Zenon DEF IrqExit, Phase, timers
<1>2. \A d \in CPUs : irq'[d] = "slice" => irq[d] = "slice"
  BY <1>0, <1>1, Zenon DEF VarType
<1>3. VarType' /\ IdleOK'
  BY <1>0, <1>1, Zenon DEF VarType, Phases, history, IdleOK
<1>4. CASE s' = Schedule(s, c)
  <2>1. SchedOK(s') /\ SliceOK' /\ \A u \in All : ThreadOK(u)'
    BY <1>1, <1>2, <1>4, ScheduleKeeps, Zenon
  <2> QED
    BY <1>3, <2>1, Zenon DEF SInv
<1>5. CASE s' = s
  <2>1. \A u \in All : Same(u)
    BY <1>1, <1>5, Zenon DEF Same, history
  <2>2. SliceOK'
    BY <1>0, <1>1, <1>2, <1>5, SliceFrame, Zenon DEF MayBecome
  <2>3. \A u \in All : ThreadOK(u)'
    BY <1>0, <2>1, ThreadFrame, Zenon
  <2> QED
    BY <1>0, <1>3, <1>5, <2>2, <2>3, Zenon DEF SInv
<1> QED
  BY <1>1, <1>4, <1>5, Zenon

LEMMA ExitKeeps == SInv /\ ~Undefined /\ ExitStep => SInv'
<1> SUFFICES ASSUME SInv, ~Undefined, NEW c \in CPUs, NEW t, Runs(t, c), Exit(t, c)
             PROVE  SInv'
  BY Zenon DEF ExitStep
<1>0. /\ VarType /\ SchedOK(s) /\ SliceOK /\ IdleOK /\ \A u \in All : ThreadOK(u)
      /\ s.stat \in [All -> Stats] /\ s.oncpu \in [All -> Queues] /\ s.current \in [CPUs -> All]
  BY Zenon DEF SInv, SchedOK, LinksOK, SchedType
<1>1. /\ t \in Threads /\ t \in All /\ t \notin Periodic /\ t \notin killed
      /\ s.oncpu[t] = c /\ c # NoCpu /\ s.current[c] = t /\ irq[c] = "none"
      /\ s.stat[t] \in {"RUNNING", "SUSPEND"} /\ pc[t] = "job"
      /\ \A d \in CPUs \ {c} : s.current[d] # t
  BY <1>0, OnCore DEF Runs, Exit, VarType, At, All
<1>v. t # victim /\ t \notin period_timer
  BY <1>0, <1>1, NothingLost, Zenon DEF ThreadOK, VarType
<1> DEFINE r == Closed(s, t)
<1>2. SchedOK(r) /\ ClosedStep(s, r, t)
  BY <1>0, <1>1, ClosedEffect, Zenon
<1>3. s' = Schedule(r, c) /\ timer' = timer \ {t} /\ UNCHANGED <<period_timer, irq, old_stat, pc, victim, history>>
  BY Zenon DEF Exit, interrupts
<1> HIDE DEF r
<1>4. SchedOK(s') /\ (s' = r \/ \E to \in All : r.stat[to] = "READY" /\ SwitchStep(r, s', c, to))
  BY <1>2, <1>3, ScheduleEffect, Zenon
<1>5. VarType' /\ IdleOK'
  BY <1>0, <1>3, Zenon DEF VarType, IdleOK, history
<1>6. CASE s' = r
  <2>1. Undefined'
    <3>1. /\ s'.current[c] = t /\ pc'[t] = "job" /\ irq'[c] = "none" /\ s'.stat[t] = "CLOSE"
          /\ t \notin killed'
      BY <1>0, <1>1, <1>2, <1>3, <1>6, SMTT(30) DEF ClosedStep, history
    <3> QED
      BY <3>1, Zenon DEF Undefined
  <2>2. ThreadOK(t)'
    <3>1. ThreadOK(t) /\ ~Lost(t)
      BY <1>0, <1>1, NothingLost, Zenon
    <3>2. s'.stat[t] = "CLOSE" /\ ~In(t, s'.waiters)
      BY <1>0, <1>1, <1>2, <1>6, Zenon DEF ClosedStep, In
    <3> QED
      BY <1>1, <1>v, <1>3, <2>1, <3>1, <3>2, ZenonT(30) DEF ThreadOK, history
  <2>3. ASSUME NEW u \in All \ {t} PROVE ThreadOK(u)'
    <3>1. Same(u)
      BY <1>0, <1>2, <1>3, <1>6, ZenonT(30) DEF Same, In, ClosedStep, history
    <3> QED
      BY <1>0, <3>1, ThreadFrame, Zenon
  <2>4. SliceOK'
    BY <1>0, <1>1, <1>2, <1>3, <1>6, SliceFrame, SMTT(30) DEF MayBecome, ClosedStep
  <2> QED
    BY <1>4, <1>5, <2>2, <2>3, <2>4, Zenon DEF SInv
<1>7. ASSUME NEW to \in All, r.stat[to] = "READY", SwitchStep(r, s', c, to) PROVE SInv'
  <2>1. to # t /\ s.stat[to] = "READY"
    BY <1>0, <1>1, <1>2, <1>7, Zenon DEF ClosedStep
  <2>2. \A d \in CPUs : s.current[d] # to
    BY <2>1, OffCore, ZenonT(30)
  <2>3. /\ s'.stat[to] = "RUNNING" /\ s'.oncpu[to] = c
        /\ s'.stat[t] = "CLOSE" /\ s'.oncpu[t] = NoCpu
        /\ \A u \in All \ {to, t} : s'.stat[u] = s.stat[u] /\ s'.oncpu[u] = s.oncpu[u]
        /\ \A d \in CPUs \ {c} : s'.current[d] = s.current[d]
    <3>1. r.current[c] = t /\ r.stat = [s.stat EXCEPT ![t] = "CLOSE"] /\ r.oncpu = s.oncpu /\ r.current = s.current
      BY <1>1, <1>2, Zenon DEF ClosedStep
    <3>2. /\ s'.stat = [r.stat EXCEPT ![t] = IF @ = "RUNNING" THEN "READY" ELSE @, ![to] = "RUNNING"]
          /\ s'.oncpu = [r.oncpu EXCEPT ![t] = NoCpu, ![to] = c]
          /\ s'.current = [r.current EXCEPT ![c] = to]
      BY <1>7, <3>1, Zenon DEF SwitchStep
    <3> QED
      BY <1>0, <1>1, <2>1, <3>1, <3>2, SMTT(30)
  <2>4. \A u \in All : /\ In(u, s'.waiters) <=> In(u, s.waiters) /\ u # t /\ u # to
                       /\ In(u, s'.defunct) <=> (In(u, s.defunct) \/ u = t) /\ u # to
    BY <1>2, <1>7, Zenon DEF SwitchStep, ClosedStep, In
  <2>5. ASSUME NEW u \in All \ {to, t} PROVE ThreadOK(u)'
    <3>1. Same(u)
      BY <1>3, <2>3, <2>4, Zenon DEF Same, history
    <3> QED
      BY <1>0, <3>1, ThreadFrame, Zenon
  <2>6. ThreadOK(to)'
    <3>1. ThreadOK(to) /\ ~Lost(to)
      BY <1>0, NothingLost, Zenon
    <3> QED
      BY <1>3, <2>1, <2>3, <2>4, <3>1, ZenonT(30) DEF ThreadOK, Lost, history
  <2>7. ThreadOK(t)'
    <3>1. ThreadOK(t) /\ ~Lost(t)
      BY <1>0, <1>1, NothingLost, Zenon
    <3> QED
      BY <1>1, <1>3, <1>v, <2>1, <2>3, <2>4, <3>1, ZenonT(30) DEF ThreadOK, Lost, history
  <2>8. SliceOK'
    <3>1. \A d \in CPUs : irq'[d] = "slice" => irq[d] = "slice" /\ old_stat'[d] = old_stat[d] /\ d # c
      BY <1>1, <1>3, ZenonT(30)
    <3>2. \A d \in CPUs \ {c} : s.current[d] \in All \ {to, t}
      BY <1>0, <1>1, <2>2, SMTT(30) DEF SchedType
    <3>3. \A d \in CPUs \ {c} : s'.current[d] = s.current[d] /\ s'.stat[s.current[d]] = s.stat[s.current[d]]
      BY <2>3, <3>2, Zenon
    <3> QED
      BY <1>0, <3>1, <3>3, SliceFrame, Zenon DEF MayBecome
  <2> QED
    BY <1>4, <1>5, <2>5, <2>6, <2>7, <2>8, ZenonT(30) DEF SInv
<1> QED
  BY <1>4, <1>6, <1>7, Zenon

LEMMA JobTestKeeps == SInv /\ ~Undefined /\ JobTestStep => SInv'
<1> SUFFICES ASSUME SInv, ~Undefined, NEW c \in CPUs, NEW t, Runs(t, c), JobTest(t, c)
             PROVE  SInv'
  BY Zenon DEF JobTestStep
<1>1. t \in All /\ t \in Periodic /\ t \notin IdleThreads
  BY OnCore, SchedAssumption, Zenon DEF Runs, JobTest
<1>2. PICK place \in {"end", "sched"} : Goto(t, place)
  BY Zenon DEF JobTest
<1>3. UNCHANGED <<s, timers, victim, history, irq, old_stat>> /\ place \in Places
  BY Zenon DEF JobTest, interrupts, Places
<1> QED
  BY <1>1, <1>2, <1>3, MoveKeeps, Zenon

LEMMA ReclaimUnlockKeeps == SInv /\ ~Undefined /\ ReclaimUnlockStep => SInv'
<1> SUFFICES ASSUME SInv, ~Undefined, NEW c \in CPUs, NEW t, Runs(t, c), ReclaimUnlock(t, c)
             PROVE  SInv'
  BY Zenon DEF ReclaimUnlockStep
<1>1. t \in All
  BY OnCore, Zenon DEF Runs
<1>2. /\ Goto(t, "free") /\ UNCHANGED <<s, timers, victim, history, irq, old_stat>>
      /\ "free" \in Places /\ pc[t] = "spin"
  BY Zenon DEF ReclaimUnlock, interrupts, Places, At
<1> QED
  BY <1>1, <1>2, MoveKeeps, Zenon

LEMMA ExitCriticalKeeps == SInv /\ ~Undefined /\ ExitCriticalStep => SInv'
<1> SUFFICES ASSUME SInv, ~Undefined, NEW c \in CPUs, NEW t, Runs(t, c), ExitCritical(t, c)
             PROVE  SInv'
  BY Zenon DEF ExitCriticalStep
<1>1. t \in All
  BY OnCore, Zenon DEF Runs
<1>2. Goto(t, "sched") /\ UNCHANGED <<s, timers, victim, history, irq, old_stat>> /\ "sched" \in Places
  BY Zenon DEF ExitCritical, interrupts, Places
<1> QED
  BY <1>1, <1>2, MoveKeeps, Zenon

\* Steps that change nothing a thread of the invariant depends on.
LEMMA QuietKeeps ==
  ASSUME SInv, ~Undefined,
         UNCHANGED <<timer, period_timer, victim, history, pc, old_stat>>,
         irq' \in [CPUs -> Phases], \A d \in CPUs : irq'[d] = "slice" => irq[d] = "slice",
         s' \in SchedType, UNCHANGED <<s.stat, s.oncpu, s.current, s.ready, s.group, s.waiters, s.defunct>>
  PROVE  SInv'
<1>0. VarType /\ IdleOK /\ SchedOK(s) /\ SliceOK /\ \A u \in All : ThreadOK(u)
  BY Zenon DEF SInv
<1>1. VarType' /\ IdleOK'
  BY <1>0, Zenon DEF VarType, IdleOK, history
<1>2. SchedOK(s')
  BY <1>0, Zenon DEF SchedOK, LinksOK
<1>3. SliceOK'
  BY <1>0, SliceFrame, Zenon DEF MayBecome
<1>4. \A u \in All : Same(u)
  BY Zenon DEF Same, history
<1>5. \A u \in All : ThreadOK(u)'
  BY <1>0, <1>4, ThreadFrame, Zenon
<1> QED
  BY <1>1, <1>2, <1>3, <1>5, Zenon DEF SInv

LEMMA QuietSteps == SInv /\ ~Undefined /\ (EnterCriticalStep \/ TickStep \/ IpiStep) => SInv'
<1> SUFFICES ASSUME SInv, ~Undefined, NEW c \in CPUs, NEW t, EnterCritical(t, c) \/ Tick(c) \/ Ipi(c)
             PROVE  SInv'
  BY Zenon DEF EnterCriticalStep, TickStep, IpiStep
<1>0. VarType /\ s \in SchedType
  BY Zenon DEF SInv, SchedOK, LinksOK
<1>1. UNCHANGED <<timer, period_timer, victim, history, pc, old_stat>>
  BY Zenon DEF EnterCritical, Tick, Ipi, timers, interrupts
<1>2. irq' = irq \/ irq' = [irq EXCEPT ![c] = "exit"]
  BY Zenon DEF EnterCritical, Tick, Ipi, Enter, interrupts
<1>3. irq' \in [CPUs -> Phases] /\ \A d \in CPUs : irq'[d] = "slice" => irq[d] = "slice"
  BY <1>0, <1>2, Zenon DEF VarType, Phases
<1>4. s' = s \/ s' = [s EXCEPT !.ipi = @ \ {c}]
  BY Zenon DEF EnterCritical, Tick, Ipi
<1>5. s' \in SchedType /\ UNCHANGED <<s.stat, s.oncpu, s.current, s.ready, s.group, s.waiters, s.defunct>>
  BY <1>0, <1>4, Zenon DEF SchedType
<1> QED
  BY <1>1, <1>3, <1>5, QuietKeeps, Zenon

LEMMA SliceReadKeeps == SInv /\ ~Undefined /\ SliceReadStep => SInv'
<1> SUFFICES ASSUME SInv, ~Undefined, NEW c \in CPUs, SliceRead(c)
             PROVE  SInv'
  BY Zenon DEF SliceReadStep
<1>0. /\ VarType /\ IdleOK /\ SchedOK(s) /\ SliceOK /\ \A u \in All : ThreadOK(u)
      /\ s.stat \in [All -> Stats] /\ s.current \in [CPUs -> All]
  BY Zenon DEF SInv, SchedOK, LinksOK, SchedType
<1>1. /\ UNCHANGED <<s, timer, period_timer, victim, history, pc>>
      /\ irq' = [irq EXCEPT ![c] = "slice"]
      /\ old_stat' = [old_stat EXCEPT ![c] = s.stat[s.current[c]]]
  BY Zenon DEF SliceRead, Enter, timers
<1>2. s.stat[s.current[c]] \in {"RUNNING", "SUSPEND", "CLOSE", "freed"}
  BY OnCore, Zenon
<1>3. VarType' /\ IdleOK' /\ SchedOK(s')
  BY <1>0, <1>1, <1>2, Zenon DEF VarType, IdleOK, history, Phases, Stats
<1>4. SliceOK'
  BY <1>0, <1>1, <1>2, Zenon DEF SliceOK, VarType
<1>5. \A u \in All : Same(u)
  BY <1>1, Zenon DEF Same, history
<1>6. \A u \in All : ThreadOK(u)'
  BY <1>0, <1>5, ThreadFrame, Zenon
<1> QED
  BY <1>3, <1>4, <1>6, Zenon DEF SInv

LEMMA SliceWriteKeeps == SInv /\ ~Undefined /\ SliceWriteStep => SInv'
<1> SUFFICES ASSUME SInv, ~Undefined, NEW c \in CPUs, SliceWrite(c)
             PROVE  SInv'
  BY Zenon DEF SliceWriteStep
<1>0. /\ VarType /\ IdleOK /\ SchedOK(s) /\ SliceOK /\ \A u \in All : ThreadOK(u) /\ s \in SchedType
      /\ s.stat \in [All -> Stats] /\ s.current \in [CPUs -> All]
  BY Zenon DEF SInv, SchedOK, LinksOK, SchedType
<1>1. PICK t \in All : t = s.current[c]
  BY <1>0, Zenon
<1>2. PICK x \in Stats : x = old_stat[c]
  BY <1>0, Zenon DEF VarType
<1>3. /\ irq[c] = "slice" /\ irq' = [irq EXCEPT ![c] = "exit"]
      /\ s' = [s EXCEPT !.stat[t] = x, !.yield[t] = TRUE]
      /\ overwritten' = (IF s.stat[t] = x THEN overwritten ELSE overwritten \cup {t})
      /\ old_stat' = [old_stat EXCEPT ![c] = "none"]
      /\ UNCHANGED <<timer, period_timer, victim, killed, pc>>
  BY <1>1, <1>2, Zenon DEF SliceWrite, Phase, timers
<1>4. /\ s.oncpu[t] # NoCpu /\ s.stat[t] \in {"RUNNING", "SUSPEND", "CLOSE", "freed"}
      /\ s.stat[t] \in {"CLOSE", "freed"} => t \in killed
      /\ \A d \in CPUs \ {c} : s.current[d] # t
  BY <1>1, OnCore, Zenon
<1>5. /\ x \in {"RUNNING", "SUSPEND", "CLOSE", "freed"}
      /\ s.stat[t] = "SUSPEND" => x = "SUSPEND"
      /\ x = "CLOSE" => s.stat[t] \in {"CLOSE", "freed"}
      /\ x = "freed" => s.stat[t] = "freed"
  BY <1>0, <1>1, <1>2, <1>3, Zenon DEF SliceOK
<1>6. /\ s' \in SchedType /\ s'.stat = [s.stat EXCEPT ![t] = x] /\ s'.oncpu = s.oncpu
      /\ s'.current = s.current /\ s'.ready = s.ready /\ s'.group = s.group
      /\ s'.waiters = s.waiters /\ s'.defunct = s.defunct
  BY <1>0, <1>3, ZenonT(30) DEF SchedType
<1>7. SchedOK(s')
  BY <1>0, <1>4, <1>5, <1>6, StatWrite, SMTT(30)
<1>8. VarType' /\ IdleOK'
  BY <1>0, <1>3, Zenon DEF VarType, IdleOK, Phases, Stats
<1>9. ThreadOK(t)'
  <2>1. ThreadOK(t) /\ ~Lost(t) /\ s'.stat[t] = x /\ s'.oncpu[t] = s.oncpu[t]
    BY <1>0, <1>6, NothingLost, Zenon
  <2>2. CASE x = s.stat[t]
    <3>1. Same(t)
      BY <1>3, <1>6, <2>1, <2>2, Zenon DEF Same
    <3> QED
      BY <2>1, <3>1, ThreadFrame, Zenon
  <2>3. CASE x # s.stat[t]
    <3>1. t \in overwritten' /\ x \in {"RUNNING", "SUSPEND", "CLOSE"} /\ s.stat[t] \in {"RUNNING", "CLOSE", "freed"}
      BY <1>3, <1>4, <1>5, <2>3, Zenon
    <3>2. /\ s'.waiters = s.waiters /\ s'.defunct = s.defunct
          /\ UNCHANGED <<timer, period_timer, victim, killed, pc>>
      BY <1>3, <1>6, Zenon
    <3>3. CASE s.stat[t] = "RUNNING"
      <4>1. x = "SUSPEND"
        BY <1>5, <2>3, <3>3, Zenon
      <4> QED
        BY <2>1, <3>1, <3>2, <3>3, <4>1, ZenonT(30) DEF ThreadOK, Lost
    <3>4. CASE s.stat[t] \in {"CLOSE", "freed"}
      <4>1. t \in killed /\ Lost(t)'
        BY <1>4, <3>1, <3>2, <3>4, ZenonT(30) DEF Lost
      <4> QED
        BY <2>1, <3>1, <3>2, <3>4, <4>1, ZenonT(30) DEF ThreadOK
    <3> QED
      BY <3>1, <3>3, <3>4, Zenon
  <2> QED
    BY <2>2, <2>3, Zenon
<1>10. ASSUME NEW u \in All \ {t} PROVE ThreadOK(u)'
  <2>1. Same(u)
    BY <1>0, <1>3, <1>6, SMTT(30) DEF Same
  <2> QED
    BY <1>0, <2>1, ThreadFrame, ZenonT(30)
<1>11. SliceOK'
  <2>1. \A d \in CPUs : irq'[d] = "slice" =>
          d # c /\ irq[d] = "slice" /\ old_stat'[d] = old_stat[d] /\ s'.current[d] = s.current[d]
          /\ s'.stat[s.current[d]] = s.stat[s.current[d]]
    BY <1>0, <1>3, <1>4, <1>6, SMTT(30) DEF VarType
  <2> QED
    BY <1>0, <2>1, SliceFrame, ZenonT(30) DEF MayBecome
<1> QED
  BY <1>7, <1>8, <1>9, <1>10, <1>11, ZenonT(30) DEF SInv

\* rt_thread_resume of a suspended thread in an interrupt of core c.
LEMMA ResumeKeeps ==
  ASSUME SInv, ~Undefined, NEW c \in CPUs, NEW u \in Threads, s.stat[u] = "SUSPEND",
         u \notin killed, u # victim,
         u \in Periodic => u \in period_timer,
         s' = Resumed(s, u, c), timer' = timer \ {u},
         irq' = [irq EXCEPT ![c] = "exit"], UNCHANGED <<period_timer, victim, history, pc, old_stat>>
  PROVE  SInv'
<1>0. /\ VarType /\ IdleOK /\ SchedOK(s) /\ SliceOK /\ \A v \in All : ThreadOK(v)
      /\ s.stat \in [All -> Stats] /\ s.current \in [CPUs -> All] /\ u \in All
      /\ CoreOK(s.stat, s.oncpu, s.current)
  BY Zenon DEF SInv, SchedOK, LinksOK, SchedType, All
<1>1. SchedOK(s') /\ ResumedStep(s, s', u)
  BY <1>0, ResumedEffect, Zenon
<1>2. VarType' /\ IdleOK'
  BY <1>0, Zenon DEF VarType, IdleOK, Phases, history
<1>3. ThreadOK(u)'
  <2>1. ThreadOK(u) /\ ~Lost(u)
    BY <1>0, NothingLost, Zenon
  <2>2. /\ s'.stat[u] \in {"RUNNING", "READY"} /\ ~In(u, s'.waiters) /\ s'.oncpu = s.oncpu
        /\ s'.defunct = s.defunct
    BY <1>0, <1>1, Zenon DEF ResumedStep, In
  <2> QED
    BY <2>1, <2>2, Zenon DEF ThreadOK, Lost, history
<1>4. ASSUME NEW v \in All \ {u} PROVE ThreadOK(v)'
  <2>1. Same(v)
    BY <1>0, <1>1, Zenon DEF Same, ResumedStep, In, history
  <2> QED
    BY <1>0, <2>1, ThreadFrame, Zenon
<1>5. SliceOK'
  <2>1. \A d \in CPUs : s.current[d] = u => s.oncpu[u] # NoCpu
    BY <1>0, NoCoreIsNone, SMTT(30) DEF CoreOK
  <2>2. \A d \in CPUs : s'.current[d] = s.current[d] /\ MayBecome(s.stat[s.current[d]], s'.stat[s.current[d]])
    BY <1>0, <1>1, <2>1, Zenon DEF ResumedStep, MayBecome
  <2>3. \A d \in CPUs : irq'[d] = "slice" => irq[d] = "slice"
    BY <1>0, Zenon DEF VarType
  <2> QED
    BY <1>0, <2>2, <2>3, SliceFrame, ZenonT(30)
<1> QED
  BY <1>1, <1>2, <1>3, <1>4, <1>5, ZenonT(30) DEF SInv

LEMMA TimeoutKeeps == SInv /\ ~Undefined /\ TimeoutStep => SInv'
<1> SUFFICES ASSUME SInv, ~Undefined, NEW c \in CPUs, NEW u \in timer, Timeout(c, u)
             PROVE  SInv'
  BY Zenon DEF TimeoutStep
<1>1. /\ s' = Resumed(s, u, c) /\ timer' = timer \ {u} /\ irq' = [irq EXCEPT ![c] = "exit"]
      /\ UNCHANGED <<period_timer, victim, history, pc, old_stat>>
  BY Zenon DEF Timeout, Enter
<1>2. u \in Threads /\ u \in All /\ ThreadOK(u)
  BY Zenon DEF SInv, VarType, All
<1>3. s.stat[u] = "SUSPEND" /\ u \notin killed /\ u # victim /\ (u \in Periodic => u \in period_timer)
  BY <1>2, Zenon DEF ThreadOK
<1> QED
  BY <1>1, <1>2, <1>3, ResumeKeeps, Zenon

LEMMA PeriodKeeps == SInv /\ ~Undefined /\ PeriodStep => SInv'
<1> SUFFICES ASSUME SInv, ~Undefined, NEW c \in CPUs, NEW u \in period_timer, Period(c, u)
             PROVE  SInv'
  BY Zenon DEF PeriodStep
<1>0. /\ VarType /\ IdleOK /\ SchedOK(s) /\ SliceOK /\ \A v \in All : ThreadOK(v)
      /\ s.stat \in [All -> Stats]
  BY Zenon DEF SInv, SchedOK, LinksOK, SchedType
<1>1. /\ timer' = timer \ {u} /\ irq' = [irq EXCEPT ![c] = "exit"]
      /\ UNCHANGED <<period_timer, victim, history, pc, old_stat>>
      /\ s.stat[u] \in {"INIT", "SUSPEND"}
  BY Zenon DEF Period, Enter
<1>2. u \in Threads /\ u \in All /\ ThreadOK(u) /\ u \in Periodic
  BY <1>0, SchedAssumption, Zenon DEF VarType, All
<1>3. u \notin killed /\ u # victim
  BY <1>2, Zenon DEF ThreadOK
<1>4. CASE s.stat[u] = "SUSPEND"
  <2>1. s' = Resumed(s, u, c)
    BY <1>4, Zenon DEF Period
  <2> QED
    BY <1>1, <1>2, <1>3, <1>4, <2>1, ResumeKeeps, ZenonT(30)
<1>5. CASE s.stat[u] = "INIT"
  <2> DEFINE r == Suspended(s, u)
  <2>1. s' = Resumed(r, u, c)
    BY <1>5, Zenon DEF Period
  <2>2. SchedOK(r) /\ SuspendedStep(s, r, u)
    BY <1>0, <1>2, SuspendedEffect, Zenon
  <2>3. s.oncpu[u] = NoCpu /\ \A d \in CPUs : s.current[d] # u
    BY <1>2, <1>5, OffCore, Zenon
  <2> HIDE DEF r
  <2>4. r.stat[u] # "READY" /\ r.oncpu[u] = NoCpu
    BY <1>0, <1>2, <2>2, <2>3, Zenon DEF SuspendedStep
  <2>5. SchedOK(s') /\ ResumedStep(r, s', u)
    BY <1>2, <2>1, <2>2, <2>4, ResumedEffect, ZenonT(30)
  <2>6. /\ s'.stat = [s.stat EXCEPT ![u] = "READY"] /\ s'.oncpu = s.oncpu /\ s'.current = s.current
        /\ \A v \in All : /\ Contains(s'.waiters, v) <=> Contains(s.waiters, v) /\ v # u
                          /\ Contains(s'.defunct, v) <=> Contains(s.defunct, v) /\ v # u
    BY <1>0, <2>2, <2>4, <2>5, Zenon DEF SuspendedStep, ResumedStep
  <2>7. VarType' /\ IdleOK'
    BY <1>0, <1>1, Zenon DEF VarType, IdleOK, Phases, history
  <2>8. ThreadOK(u)'
    <3>1. s'.stat[u] = "READY" /\ s'.oncpu[u] = NoCpu /\ ~In(u, s'.waiters) /\ ~In(u, s'.defunct) /\ ~Lost(u)
      BY <1>0, <1>2, <2>3, <2>6, NothingLost, Zenon DEF In
    <3> QED
      BY <1>1, <1>2, <1>3, <3>1, Zenon DEF ThreadOK, history
  <2>9. ASSUME NEW v \in All \ {u} PROVE ThreadOK(v)'
    <3>1. Same(v)
      BY <1>0, <1>1, <2>6, ZenonT(30) DEF Same, In, history
    <3> QED
      BY <1>0, <3>1, ThreadFrame, Zenon
  <2>10. SliceOK'
    <3>1. \A d \in CPUs : irq'[d] = "slice" => irq[d] = "slice"
      BY <1>0, <1>1, Zenon DEF VarType
    <3> QED
      BY <1>0, <1>1, <2>3, <2>6, <3>1, SliceFrame, SMTT(30) DEF MayBecome
  <2> QED
    BY <2>5, <2>7, <2>8, <2>9, <2>10, Zenon DEF SInv
<1> QED
  BY <1>1, <1>4, <1>5, ZenonT(30)

LEMMA OverrunKeeps == SInv /\ ~Undefined /\ OverrunStep => SInv'
<1> SUFFICES ASSUME SInv, ~Undefined, NEW c \in CPUs, NEW u \in period_timer, Overrun(c, u)
             PROVE  SInv'
  BY Zenon DEF OverrunStep
<1>0. /\ VarType /\ IdleOK /\ SchedOK(s) /\ SliceOK /\ \A v \in All : ThreadOK(v)
      /\ s.stat \in [All -> Stats] /\ s.current \in [CPUs -> All]
  BY Zenon DEF SInv, SchedOK, LinksOK, SchedType
<1>1. /\ s' = Closed(s, u) /\ timer' = timer \ {u} /\ period_timer' = period_timer \ {u}
      /\ irq' = [irq EXCEPT ![c] = "exit"]
      /\ killed' = (IF s.oncpu[u] = NoCpu THEN killed ELSE killed \cup {u})
      /\ UNCHANGED <<victim, overwritten, pc, old_stat>>
      /\ s.stat[u] \notin {"INIT", "SUSPEND"}
  BY Zenon DEF Overrun, Enter
<1>2. u \in Threads /\ u \in All /\ ThreadOK(u) /\ u \in Periodic /\ ~Lost(u)
  BY <1>0, SchedAssumption, NothingLost, Zenon DEF VarType, All
<1>3. u \notin killed /\ u # victim /\ s.stat[u] # "freed"
  BY <1>2, Zenon DEF ThreadOK
<1>4. SchedOK(s') /\ ClosedStep(s, s', u)
  BY <1>0, <1>1, <1>2, ClosedEffect, Zenon
<1>5. VarType' /\ IdleOK'
  BY <1>0, <1>1, <1>2, Zenon DEF VarType, IdleOK, Phases
<1>6. ThreadOK(u)'
  <2>1. s'.stat[u] = "CLOSE" /\ s'.oncpu[u] = s.oncpu[u] /\ ~In(u, s'.waiters)
    BY <1>0, <1>2, <1>4, Zenon DEF ClosedStep, In
  <2>2. pc'[u] = "end" => u \in Periodic
    BY <1>2, Zenon
  <2> QED
    BY <1>1, <1>2, <1>3, <2>1, <2>2, ZenonT(30) DEF ThreadOK
<1>7. ASSUME NEW v \in All \ {u} PROVE ThreadOK(v)'
  <2>1. Same(v)
    BY <1>0, <1>1, <1>4, Zenon DEF Same, ClosedStep, In
  <2> QED
    BY <1>0, <2>1, ThreadFrame, Zenon
<1>8. SliceOK'
  <2>1. \A d \in CPUs : irq'[d] = "slice" => irq[d] = "slice"
    BY <1>0, <1>1, Zenon DEF VarType
  <2>2. \A d \in CPUs : s'.current[d] = s.current[d] /\ MayBecome(s.stat[s.current[d]], s'.stat[s.current[d]])
    BY <1>0, <1>3, <1>4, Zenon DEF ClosedStep, MayBecome
  <2> QED
    BY <1>0, <1>1, <2>1, <2>2, SliceFrame, ZenonT(30)
<1> QED
  BY <1>4, <1>5, <1>6, <1>7, <1>8, Zenon DEF SInv

-----------------------------------------------------------------------------
LEMMA SchedNext == SInv /\ [Next]_vars => SInv'
<1> SUFFICES ASSUME SInv, [Next]_vars PROVE SInv'
  BY Zenon
<1>1. CASE UNCHANGED vars
  <2>1. UNCHANGED <<s, timer, period_timer, irq, old_stat, pc, victim, killed, overwritten>>
    BY <1>1, Zenon DEF vars, timers, interrupts, history
  <2>2. SliceOK' <=> SliceOK
    BY <2>1, Zenon DEF SliceOK
  <2>3. (IdleOK' <=> IdleOK) /\ (VarType' <=> VarType)
    BY <2>1, Zenon DEF IdleOK, VarType
  <2>4. Undefined' <=> Undefined
    BY <2>1, Zenon DEF Undefined
  <2>5. ASSUME NEW t \in All PROVE ThreadOK(t)'
    <3>1. ThreadOK(t)
      BY Zenon DEF SInv
    <3> QED
      BY <2>1, <2>4, <3>1, Zenon DEF ThreadOK, Lost
  <2> QED
    BY <2>1, <2>2, <2>3, <2>5, Zenon DEF SInv
<1>2. CASE Next
  BY <1>2, Steps, SleepKeeps, JobEndKeeps, TakeHeapKeeps, CreateKeeps, StartupKeeps, DeleteInitKeeps,
     ReleaseHeapKeeps, ReclaimKeeps, CallScheduleKeeps, IrqExitKeeps, ExitKeeps, JobTestKeeps,
     ReclaimUnlockKeeps, ExitCriticalKeeps, QuietSteps, SliceReadKeeps, SliceWriteKeeps, TimeoutKeeps,
     PeriodKeeps, OverrunKeeps, ZenonT(30)
<1> QED
  BY <1>1, <1>2, Zenon

LEMMA SchedInit == Init => SInv
<1> SUFFICES ASSUME Init PROVE SInv
  BY Zenon
<1> DEFINE on == [c \in CPUs |-> IF c = Cpu0 THEN Main ELSE Idle[c]]
           running == {on[c] : c \in CPUs}
           i0 == Idle[Cpu0]
<1>1. /\ Cpu0 \in CPUs /\ Main \in All /\ i0 \in IdleThreads /\ i0 \in All /\ Main \notin IdleThreads
      /\ NoThread \notin All /\ NoCpu \notin CPUs /\ Priority \in [All -> Nat] /\ Idle \in [CPUs -> All]
  BY SchedAssumption, Zenon DEF All
<1>2. \A c, d \in CPUs : Idle[c] = Idle[d] => c = d
  BY SchedAssumption, Zenon DEF IsInjective
<1>3. on \in [CPUs -> All] /\ running \in SUBSET All /\ \A c, d \in CPUs : on[c] = on[d] => c = d
  BY <1>1, <1>2, SchedAssumption, SMTT(30) DEF IdleThreads
<1>4. /\ s.stat = [t \in All |-> IF t \in running THEN "RUNNING"
                                 ELSE IF t \in IdleThreads THEN "READY" ELSE "none"]
      /\ s.yield = [t \in All |-> FALSE]
      /\ s.oncpu = [t \in All |-> IF t \in running THEN CHOOSE c \in CPUs : on[c] = t ELSE NoCpu]
      /\ s.ready = [q \in CPUs \cup {NoCpu} |-> IF q = Cpu0 THEN <<i0>> ELSE <<>>]
      /\ s.group = [q \in CPUs \cup {NoCpu} |-> IF q = Cpu0 THEN {Priority[i0]} ELSE {}]
      /\ s.current = on /\ s.ipi = {} /\ s.waiters = <<>> /\ s.defunct = <<>>
      /\ s = [stat |-> s.stat, yield |-> s.yield, oncpu |-> s.oncpu, ready |-> s.ready, group |-> s.group,
              current |-> s.current, ipi |-> s.ipi, waiters |-> s.waiters, defunct |-> s.defunct]
  BY Zenon DEF Init
<1>5. /\ timer = {} /\ period_timer = {} /\ killed = {} /\ victim = NoThread
      /\ irq = [c \in CPUs |-> "none"] /\ old_stat = [c \in CPUs |-> "none"] /\ pc = [t \in All |-> "job"]
  BY Zenon DEF Init
<1> HIDE DEF on, running, i0
<1>6. \A t \in running : (CHOOSE c \in CPUs : on[c] = t) \in CPUs /\ on[CHOOSE c \in CPUs : on[c] = t] = t
  BY Zenon DEF running
<1>7. s.oncpu \in [All -> Queues] /\ s.stat \in [All -> Stats] /\ s.yield \in [All -> BOOLEAN]
  BY <1>4, <1>6, SMTT(30) DEF Queues, Stats
<1>8. s.ready \in [Queues -> Seq(All)]
  <2>1. <<i0>> \in Seq(All) /\ <<>> \in Seq(All)
    BY <1>1, SMTT(30)
  <2> QED
    BY <1>4, <2>1, Zenon DEF Queues
<1>9. s.group \in [Queues -> SUBSET Nat]
  BY <1>1, <1>4, SMTT(30) DEF Queues
<1>10. s \in SchedType
  <2>1. s.current \in [CPUs -> All] /\ s.ipi \in SUBSET CPUs /\ s.waiters \in Seq(All) /\ s.defunct \in Seq(All)
    BY <1>3, <1>4, SMTT(30)
  <2>2. s = [stat |-> s.stat, yield |-> s.yield, oncpu |-> s.oncpu, ready |-> s.ready, group |-> s.group,
             current |-> s.current, ipi |-> s.ipi, waiters |-> s.waiters, defunct |-> s.defunct]
    BY <1>4, Zenon
  <2> HIDE <1>4
  <2> QED
    BY <1>7, <1>8, <1>9, <2>1, <2>2, ZenonT(30) DEF SchedType
<1>11. CoreOK(s.stat, s.oncpu, s.current)
  <2>1. \A t \in All, c \in CPUs : s.oncpu[t] = c <=> s.current[c] = t
    <3> SUFFICES ASSUME NEW t \in All, NEW c \in CPUs PROVE s.oncpu[t] = c <=> on[c] = t
      BY <1>4
    <3>1. on[c] = t => t \in running
      BY Zenon DEF running
    <3>2. t \notin running => s.oncpu[t] = NoCpu
      BY <1>4, Zenon
    <3>3. t \in running => s.oncpu[t] \in CPUs /\ on[s.oncpu[t]] = t
      BY <1>4, <1>6, ZenonT(30)
    <3> QED
      BY <1>1, <1>3, <3>1, <3>2, <3>3, ZenonT(30)
  <2>2. \A t \in All : s.stat[t] = "RUNNING" <=> s.oncpu[t] # NoCpu
    BY <1>1, <1>4, <1>6, SMTT(30)
  <2> QED
    BY <2>1, <2>2, Zenon DEF CoreOK
<1>12. ReadyOK(s.stat, s.ready, s.group)
  <2> SUFFICES ASSUME NEW q \in Queues PROVE QueueOK(s.ready[q], s.group[q], ReadyAt(s.stat, q))
    BY Zenon DEF ReadyOK
  <2>1. \A t \in All : s.stat[t] = "READY" <=> t = i0
    <3> SUFFICES ASSUME NEW t \in All PROVE s.stat[t] = "READY" <=> t = i0
      BY Zenon
    <3>1. t \in IdleThreads \ running <=> t = i0
      BY <1>1, <1>2, Zenon DEF IdleThreads, running, on, i0
    <3> QED
      BY <1>1, <1>4, <3>1, ZenonT(30)
  <2>2. bind_cpu[i0] = Cpu0
    <3>1. (CHOOSE c \in CPUs : Idle[c] = i0) = Cpu0
      BY <1>1, <1>2, Zenon DEF i0
    <3> QED
      BY <1>1, <3>1, Zenon DEF bind_cpu
  <2>3. CASE q = Cpu0
    <3>1. ReadyAt(s.stat, q) = {i0}
      BY <1>1, <2>1, <2>2, <2>3, Zenon DEF ReadyAt
    <3>2. s.ready[q] = <<i0>> /\ s.group[q] = {Priority[i0]}
      BY <1>4, <2>3, Zenon DEF Queues
    <3>3. Holds(<<i0>>, {i0})
      BY <1>1 DEF Holds, IsInjective, Contains
    <3> QED
      BY <3>1, <3>2, <3>3, Zenon DEF QueueOK
  <2>4. CASE q # Cpu0
    <3>1. ReadyAt(s.stat, q) = {}
      BY <2>1, <2>2, <2>4, Zenon DEF ReadyAt
    <3>2. s.ready[q] = <<>> /\ s.group[q] = {}
      BY <1>4, <2>4, Zenon DEF Queues
    <3>3. Holds(<<>>, {})
      BY DEF Holds, IsInjective, Contains
    <3> QED
      BY <3>1, <3>2, <3>3, Zenon DEF QueueOK
  <2> QED
    BY <2>3, <2>4, Zenon
<1>13. SchedOK(s)
  <2>1. IsInjective(s.waiters) /\ IsInjective(s.defunct)
    BY <1>4, SMTT(30) DEF IsInjective
  <2> QED
    BY <1>10, <1>11, <1>12, <2>1, ZenonT(30) DEF SchedOK, LinksOK
<1>14. VarType /\ SliceOK /\ IdleOK
  BY <1>5, Zenon DEF VarType, SliceOK, IdleOK, Phases, Stats, Places, All
<1>15. ASSUME NEW t \in All PROVE ThreadOK(t)
  <2>1. ~In(t, s.waiters) /\ ~In(t, s.defunct)
    BY <1>4 DEF In, Contains
  <2>2. s.stat[t] \in {"RUNNING", "READY", "none"} /\ (t \in Periodic => s.stat[t] = "none")
    <3>1. t \in running => t \notin Periodic
      BY SchedAssumption, Zenon DEF running, on, IdleThreads
    <3>2. t \in IdleThreads => t \notin Periodic
      BY SchedAssumption, Zenon
    <3> QED
      BY <1>4, <3>1, <3>2, ZenonT(30)
  <2> QED
    BY <1>1, <1>5, <2>1, <2>2, ZenonT(30) DEF ThreadOK
<1> QED
  BY <1>13, <1>14, <1>15, Zenon DEF SInv

-----------------------------------------------------------------------------
\* The ready lists, the bit maps and the cores agree with what the threads say
\* of themselves, for any number of threads and cores: whenever a bit of
\* priority_group is set _get_highest_priority_thread finds a thread, and the
\* thread it finds is ready and on no core (scheduler.c).
THEOREM ListsStayConsistent == Spec => []ListsAgree
<1>1. SInv => ListsAgree
  <2> SUFFICES ASSUME SInv PROVE ListsAgree
    BY Zenon
  <2>1. ReadyOK(s.stat, s.ready, s.group) /\ CoreOK(s.stat, s.oncpu, s.current) /\ s.current \in [CPUs -> All]
    BY Zenon DEF SInv, SchedOK, LinksOK, SchedType
  <2>2. ASSUME NEW q \in CPUs \cup {NoCpu}
        PROVE  LET l == s.ready[q] IN
               /\ {l[k] : k \in DOMAIN l} = {t \in All : s.stat[t] = "READY" /\ bind_cpu[t] = q}
               /\ IsInjective(l)
               /\ s.group[q] = {Priority[l[k]] : k \in DOMAIN l}
    <3> DEFINE l == s.ready[q]
    <3>1. QueueOK(l, s.group[q], ReadyAt(s.stat, q))
      BY <2>1, Zenon DEF ReadyOK, Queues
    <3> HIDE DEF l
    <3>2. l \in Seq(All) /\ IsInjective(l) /\ \A t \in All : Contains(l, t) <=> t \in ReadyAt(s.stat, q)
      BY <3>1, Zenon DEF QueueOK, Holds
    <3>3. DOMAIN l = 1 .. Len(l) /\ \A k \in DOMAIN l : l[k] \in All
      BY <3>2
    <3>4. {l[k] : k \in DOMAIN l} = ReadyAt(s.stat, q)
      <4>1. ReadyAt(s.stat, q) \subseteq All
        BY Zenon DEF ReadyAt
      <4>2. \A k \in DOMAIN l : l[k] \in ReadyAt(s.stat, q)
        BY <3>2, <3>3, Zenon DEF Contains
      <4>3. \A t \in ReadyAt(s.stat, q) : \E k \in DOMAIN l : l[k] = t
        BY <3>2, <3>3, <4>1, Zenon DEF Contains
      <4> QED
        BY <4>2, <4>3, Zenon
    <3>5. s.group[q] = {Priority[l[k]] : k \in DOMAIN l}
      <4>1. s.group[q] = {Priority[t] : t \in ReadyAt(s.stat, q)}
        BY <3>1, Zenon DEF QueueOK
      <4> QED
        BY <3>4, <4>1, Zenon
    <3> QED
      BY <3>2, <3>4, <3>5, Zenon DEF ReadyAt, l
  <2>3. \A c \in CPUs : {t \in All : s.oncpu[t] = c} = {s.current[c]}
    BY <2>1 DEF CoreOK
  <2>4. \A t \in All : s.stat[t] = "RUNNING" => s.oncpu[t] # NoCpu
    BY <2>1, ZenonT(30) DEF CoreOK
  <2> QED
    BY <2>2, <2>3, <2>4, Zenon DEF ListsAgree
<1> QED
  BY <1>1, SchedInit, SchedNext, PTL DEF Spec

\* No thread is suspended without anything that will resume it, but for the
\* two races the property names: a time slice that ends between
\* rt_thread_suspend and rt_schedule (clock.c), and a period that ends between
\* the test and the lock of rt_thread_suspend (thread.c).
THEOREM SleepersWake == Spec => []SuspendedIsAwaited
<1>1. SInv => SuspendedIsAwaited
  BY Zenon DEF SInv, ThreadOK, SuspendedIsAwaited
<1> QED
  BY <1>1, SchedInit, SchedNext, PTL DEF Spec

\* rt_thread_timeout only meets threads that are suspended, and the idle
\* thread frees no thread that a list, a timer or, unless it was deleted
\* there, a core still has (idle.c, thread.c).
THEOREM FreedStaysUnused == Spec => []FreedIsUnused
<1>1. SInv => FreedIsUnused
  <2> SUFFICES ASSUME SInv PROVE FreedIsUnused
    BY Zenon
  <2>1. timer \subseteq All /\ Threads \subseteq All /\ \A t \in All : ThreadOK(t)
    BY Zenon DEF SInv, VarType, All
  <2> QED
    BY <2>1, Zenon DEF ThreadOK, FreedIsUnused
<1> QED
  BY <1>1, SchedInit, SchedNext, PTL DEF Spec

=============================================================================
