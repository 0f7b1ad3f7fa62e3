------------------------------- MODULE RtList -------------------------------
(***************************************************************************)
(* The linked lists of the kernel (rt_list_t, rt-thread/include/           *)
(* rtservice.h) as sequences of what they hold, first to last.             *)
(*                                                                         *)
(* SequencesExt has operators like these.  They are written out, as        *)
(* functions on positions, because the proofs about the kernel use nothing *)
(* else of it and the provers carry along everything a module extends.     *)
(***************************************************************************)
EXTENDS Integers, Sequences, Functions

Contains(list, e) == \E k \in 1 .. Len(list) : list[k] = e

\* rt_list_insert_before: e goes before what is at position i, or, for the
\* position behind the last, to the end.
InsertAt(list, i, e) ==
  [k \in 1 .. Len(list) + 1 |-> IF k < i THEN list[k] ELSE IF k = i THEN e ELSE list[k - 1]]

\* rt_list_remove: e may be anywhere in the list, and no list holds anything
\* twice.  A node that is in no list is linked to itself, and stays so.
ListRemove(list, e) ==
  IF ~Contains(list, e) THEN list
  ELSE LET i == CHOOSE k \in 1 .. Len(list) : list[k] = e
       IN  [k \in 1 .. Len(list) - 1 |-> IF k < i THEN list[k] ELSE list[k + 1]]

=============================================================================
