--------------------------- MODULE MCPeriodicMutex --------------------------
(***************************************************************************)
(* PeriodicMutex with a periodic thread, as ping_thread, a plain one, as   *)
(* irq_in_handler, and a third, periodic and more urgent.                  *)
(***************************************************************************)
EXTENDS PeriodicMutex, TLC

CONSTANTS ping, irq_in, urgent
MCThreads == {ping, irq_in, urgent}
MCPeriodic == {ping, urgent}
MCPriority == (ping :> 2) @@ (irq_in :> 2) @@ (urgent :> 1)

=============================================================================
