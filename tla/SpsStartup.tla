----------------------------- MODULE SpsStartup -----------------------------
(***************************************************************************)
(* main: create the kernel objects of the SPS, the host and the target     *)
(* machines, start the threads, and undo it all when a creation fails.     *)
(* Every rt_mutex_create, rt_mb_create and rt_thread_create may run out of *)
(* memory.  rt_thread_startup always returns RT_EOK.                       *)
(***************************************************************************)
EXTENDS Integers, Sequences, SequencesExt

CONSTANTS
  NumTargets,   \* SPS_NUM_TARGETS
  ByteRange     \* number of values of an rt_uint8_t, 256

ASSUME StartupAssumption ==
  NumTargets \in Nat \ {0} /\ ByteRange \in Nat /\ NumTargets < ByteRange

Targets == 0 .. NumTargets - 1

\* An object is named by the field that points to it and a machine, or 0.
One(field) == <<field, 0>>
Each(field) == [k \in 1 .. NumTargets |-> <<field, k - 1>>]
Lines == [k \in 1 .. 2 * NumTargets |->
            IF k % 2 = 1 THEN <<"mb_ping", k \div 2>> ELSE <<"gpio", k \div 2 - 1>>]

SpsMutex     == <<One("sps_mutex")>>
SpsThreads   == <<One("irq_out_handler"), One("irq_in_handler"), One("ping_thread")>>
SpsMailboxes == <<One("irq_out"), One("irq_in"), One("mb_ping_ack"), One("mb_ping_irq")>>
HostObjects  == <<One("action_thread"), One("feedback_irq_out_handler"), One("host_mutex")>>

\* What main creates, in this order: sps_init, host_init, target_init.
Plan == SpsMutex \o SpsThreads \o SpsMailboxes \o Lines \o HostObjects \o Each("simulation_thread")

\* Mutant of sps_delete: the first mailboxes are forgotten.
sps_delete_lines == SpsMutex \o Lines \o Reverse(SpsThreads)

\* What sps_delete and host_delete delete, in this order.
sps_delete == SpsMutex \o Lines \o Reverse(SpsMailboxes) \o Reverse(SpsThreads)
host_delete == Reverse(HostObjects)

\* The order in which main starts the threads: sps_start, host_start and
\* target_start.
StartPlan == <<One("irq_out_handler"), One("ping_thread"), One("irq_in_handler"),
               One("action_thread"), One("feedback_irq_out_handler")>> \o Each("simulation_thread")

\* The threads with a period: rt_thread_create_periodic.
IsPeriodic(o) == o[1] \in {"ping_thread", "action_thread", "simulation_thread"}
IsLine(o) == o[1] \in {"mb_ping", "gpio"}
IsTarget(o) == o[1] = "simulation_thread"

\* Mutant of Cleanup: host_delete is also called when host_init has failed.
CleanupHostTwice(n) ==
  IF n <= Len(SpsMutex \o SpsThreads \o SpsMailboxes) THEN Reverse(SubSeq(Plan, 1, n - 1))
  ELSE host_delete \o sps_delete

\* What is deleted when the creation of Plan[n] fails, n not in the loop over
\* the lines: sps_init and host_init undo their own creations in reverse,
\* main deletes what was complete before.
Cleanup(n) ==
  LET begun == Len(SpsMutex \o SpsThreads \o SpsMailboxes \o Lines)
  IN  IF n <= begun THEN Reverse(SubSeq(Plan, 1, n - 1))
      ELSE IF ~IsTarget(Plan[n]) THEN Reverse(SubSeq(Plan, begun + 1, n - 1)) \o sps_delete
      ELSE host_delete \o sps_delete

\* The objects a thread uses.
Uses(o) ==
  LET f == o[1] IN
  (IF f \in {"irq_in_handler", "ping_thread"} THEN {One("sps_mutex")} ELSE {}) \cup
  (IF f \in {"action_thread", "feedback_irq_out_handler"} THEN {One("host_mutex")} ELSE {}) \cup
  (IF f \in {"irq_out_handler", "feedback_irq_out_handler"} THEN {One("irq_out")} ELSE {}) \cup
  (IF f \in {"irq_in_handler", "action_thread"} THEN {One("irq_in")} ELSE {}) \cup
  (IF f \in {"irq_out_handler", "ping_thread"} THEN {One("mb_ping_irq")} ELSE {}) \cup
  (IF f \in {"ping_thread", "simulation_thread"} THEN {One("mb_ping_ack")} ELSE {}) \cup
  (IF f = "ping_thread" THEN ToSet(Each("mb_ping")) ELSE {}) \cup
  (IF f = "irq_in_handler" THEN ToSet(Each("gpio")) ELSE {}) \cup
  (IF f = "simulation_thread" THEN {<<"mb_ping", o[2]>>, <<"gpio", o[2]>>} ELSE {})

VARIABLES
  pc,       \* "create", "undo_lines", "delete", "start"; or at the end
            \* "running", "failed" (main returns an error) or "fault"
  next,     \* position in Plan or StartPlan
  live,     \* the objects that exist
  todo,     \* what is left to delete
  started,  \* the threads that were started
  i, j      \* of __sps_init_mailboxes

vars == <<pc, next, live, todo, started, i, j>>

Init ==
  /\ pc = "create" /\ next = 1
  /\ live = {} /\ todo = <<>> /\ started = {}
  /\ i = 0 /\ j = 0

\* Mutant of Create: the SPS's threads are started as they are created.
CreateAndStart ==
  /\ pc = "create"
  /\ live' = live \cup {Plan[next]}
  /\ started' = started \cup ({Plan[next]} \cap ToSet(SpsThreads))
  /\ IF next = Len(Plan) THEN pc' = "start" /\ next' = 1
                         ELSE pc' = "create" /\ next' = next + 1
  /\ UNCHANGED <<todo, i, j>>

\* The next object is created.
Create ==
  /\ pc = "create"
  /\ live' = live \cup {Plan[next]}
  /\ IF next = Len(Plan) THEN pc' = "start" /\ next' = 1
                         ELSE pc' = "create" /\ next' = next + 1
  /\ UNCHANGED <<todo, started, i, j>>

\* rt_thread_create_periodic writes to the thread it could not create: a
\* fault, or, where the memory at address 0 can be written, a NULL result as
\* of the other creations (CreateFails).
CreatePeriodicFails ==
  /\ pc = "create" /\ IsPeriodic(Plan[next])
  /\ pc' = "fault"
  /\ UNCHANGED <<next, live, todo, started, i, j>>

\* The loop over the lines fails: at mb_ping[m] with i = m, at gpio[m] with
\* i = m + 1.  mb_delete_ping begins at i - 1, in an rt_uint8_t.
CreateLineFails ==
  LET o == Plan[next]
      m == IF o[1] = "gpio" THEN o[2] + 1 ELSE o[2]
  IN  /\ pc = "create" /\ IsLine(o)
      /\ pc' = "undo_lines" /\ i' = m /\ j' = (m - 1) % ByteRange
      /\ UNCHANGED <<next, live, todo, started>>

CreateFails ==
  /\ pc = "create" /\ ~IsLine(Plan[next])
  /\ pc' = "delete" /\ todo' = Cleanup(next)
  /\ UNCHANGED <<next, live, started, i, j>>

\* An iteration of mb_delete_ping.  j >= 0 holds of every rt_uint8_t, so the
\* loop goes on with elements behind the array, pointers to anything.
UndoLine ==
  /\ pc = "undo_lines" /\ j \in Targets
  /\ live' = live \ {<<"mb_ping", j>>, IF j = i - 1 THEN <<"mb_ping", j>> ELSE <<"gpio", j>>}
  /\ j' = (j - 1) % ByteRange
  /\ UNCHANGED <<pc, next, todo, started, i>>

UndoBeyond ==
  /\ pc = "undo_lines" /\ j \notin Targets
  /\ pc' = "fault"
  /\ UNCHANGED <<next, live, todo, started, i, j>>

\* The next delete of the error path, or the return of main.
Delete ==
  /\ pc = "delete"
  /\ IF todo = <<>> THEN pc' = "failed" /\ UNCHANGED <<live, todo>>
                    ELSE live' = live \ {Head(todo)} /\ todo' = Tail(todo) /\ UNCHANGED pc
  /\ UNCHANGED <<next, started, i, j>>

\* rt_thread_startup of the next thread; main returns RT_EOK after the last.
Start ==
  /\ pc = "start"
  /\ started' = started \cup {StartPlan[next]}
  /\ pc' = IF next = Len(StartPlan) THEN "running" ELSE "start"
  /\ next' = next + 1
  /\ UNCHANGED <<live, todo, i, j>>

Next ==
  \/ Create \/ CreatePeriodicFails \/ CreateLineFails \/ CreateFails
  \/ UndoLine \/ UndoBeyond \/ Delete \/ Start

Spec == Init /\ [][Next]_vars

-----------------------------------------------------------------------------
\* The error paths of main, host_init and sps_init delete what exists, and
\* nothing twice, wherever the creation stopped; so does mb_delete_ping as
\* long as it is in the array.  The one gpio that it takes for "not created
\* yet" exists exactly if it was an mb_ping that could not be created.
DeletesWhatExists ==
  /\ ToSet(todo) \subseteq live /\ IsInjective(todo)
  /\ pc = "undo_lines" /\ j \in Targets =>
       /\ <<"mb_ping", j>> \in live
       /\ <<"gpio", j>> \in live <=> (j # i - 1 \/ Plan[next][1] = "mb_ping")

\* A thread finds every mutex and mailbox it uses from the moment it is
\* started: host_delete and sps_delete, which delete the mutex before the
\* threads that take it, never run once a thread has been started.
StartedFindsObjects == \A o \in started : o \in live /\ Uses(o) \subseteq live

\* When main returns an error nothing is left but simulation threads of
\* machines that were created before the failure and never started.
FailureLeavesTargets == pc = "failed" => \A o \in live : IsTarget(o) /\ o \notin started

=============================================================================
