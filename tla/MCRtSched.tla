----------------------------- MODULE MCRtSched ------------------------------
(***************************************************************************)
(* RtSched on two cores: main and work, of the same priority, compete for  *)
(* the cores and the heap; ping is periodic and more urgent.               *)
(***************************************************************************)
EXTENDS RtSched, TLC

CONSTANTS cpu0, cpu1, idle0, idle1, main, ping, work
MCThreads == {main, ping, work}
MCIdle == (cpu0 :> idle0) @@ (cpu1 :> idle1)
MCPriority == (main :> 1) @@ (work :> 1) @@ (ping :> 0) @@ (idle0 :> 2) @@ (idle1 :> 2)

=============================================================================
