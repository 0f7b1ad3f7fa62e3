-------------------------------- MODULE Heap --------------------------------
(***************************************************************************)
(* What a heap promises to its users: the blocks it has handed out do not  *)
(* overlap, are as large as was asked for, and change only at the request  *)
(* of their owner.                                                         *)
(***************************************************************************)
EXTENDS Integers

CONSTANTS Addresses

VARIABLES
  size,     \* for the address of each block that is handed out its size
  asked     \* and the size that was asked for

Init == size = [p \in {} |-> 0] /\ asked = [p \in {} |-> 0]

\* Two blocks have no place in common.
Apart(p, n, q, m) == p + n <= q \/ q + m <= p

\* Only the block at p may change.
Others(p) ==
  /\ DOMAIN size' \ {p} = DOMAIN size \ {p} /\ DOMAIN asked' \ {p} = DOMAIN asked \ {p}
  /\ \A q \in DOMAIN size \ {p} : size'[q] = size[q] /\ asked'[q] = asked[q]

\* A block is handed out in places that are free.
Allocate(p) ==
  /\ p \in DOMAIN size' \ DOMAIN size /\ p \in DOMAIN asked' /\ Others(p)
  /\ asked'[p] <= size'[p] /\ {p, p + size'[p]} \subseteq Addresses
  /\ \A q \in DOMAIN size : Apart(p, size'[p], q, size[q])

\* A block is given back.
Release(p) ==
  /\ p \in DOMAIN size /\ Others(p)
  /\ p \notin DOMAIN size' /\ p \notin DOMAIN asked'

\* The end of a block is given back.
Shorten(p) ==
  /\ p \in DOMAIN size \cap DOMAIN size' \cap DOMAIN asked' /\ Others(p)
  /\ asked'[p] <= size'[p] /\ size'[p] <= size[p]

Next == \E p \in Addresses : Allocate(p) \/ Release(p) \/ Shorten(p)

Spec == Init /\ [][Next]_<<size, asked>>

=============================================================================
