----------------------------- MODULE MCRtMutex ------------------------------
(***************************************************************************)
(* RtMutex with three threads of three priorities.                         *)
(***************************************************************************)
EXTENDS RtMutex, TLC

CONSTANTS low, mid, high
MCThreads == {low, mid, high}
MCPriority == (low :> 3) @@ (mid :> 2) @@ (high :> 1)

=============================================================================
