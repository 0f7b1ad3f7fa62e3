---------------------------- MODULE MCRtMailbox -----------------------------
(***************************************************************************)
(* RtMailbox with three threads of two priorities.                         *)
(***************************************************************************)
EXTENDS RtMailbox, TLC

CONSTANTS t1, t2, t3

MCThreads == {t1, t2, t3}
MCPriority == (t1 :> 1) @@ (t2 :> 1) @@ (t3 :> 2)

=============================================================================
