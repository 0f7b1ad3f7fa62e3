------------------------------- MODULE RtMem --------------------------------
(***************************************************************************)
(* The heap of RT-Thread (rt-thread/src/mem.c, RT_USING_SMALL_MEM): blocks *)
(* with a header in front, linked in the order of their addresses, the     *)
(* first that fits is taken, and neighbours that are free are joined.      *)
(*                                                                         *)
(* Addresses and sizes are counted in units of RT_ALIGN_SIZE from heap_ptr *)
(* on.  A header exists as long as the links lead to it: an access to an   *)
(* address that holds none is an error of evaluation.  heap_sem makes each *)
(* critical section one step; rt_realloc has three when it has to move a   *)
(* block.                                                                  *)
(***************************************************************************)
EXTENDS Integers, FiniteSets, FiniteSetsExt, Functions

CONSTANTS
  mem_size_aligned,    \* size of the heap without the two headers of its init
  SIZEOF_STRUCT_MEM,   \* size of a header, 4 units
  MIN_SIZE_ALIGNED,    \* smallest data part rt_malloc makes, 3 units
  Clients              \* threads that call rt_realloc

ASSUME MemAssumption ==
  /\ mem_size_aligned \in Nat
  /\ SIZEOF_STRUCT_MEM \in Nat \ {0}
  /\ MIN_SIZE_ALIGNED \in Nat \ {0}
  /\ MIN_SIZE_ALIGNED <= mem_size_aligned

heap_end == mem_size_aligned + SIZEOF_STRUCT_MEM

VARIABLES
  heap,       \* the headers: a function on their addresses
  lfree,      \* where rt_malloc starts to search
  used_mem,
  asked,      \* for the data pointers that callers hold, the size asked for
  moving,     \* for each client in rt_realloc its locals
  shrunk      \* history: rt_realloc has shortened a block

vars == <<heap, lfree, used_mem, asked, moving, shrunk>>

Sizes == 1 .. mem_size_aligned
None == heap_end
Idle == [rmem |-> None, nmem |-> None, size |-> 0, newsize |-> 0]

Header(u, n, p) == [used |-> u, next |-> n, prev |-> p]

\* rt_system_heap_init
Init ==
  /\ heap = [b \in {0, heap_end} |-> IF b = 0 THEN Header(FALSE, heap_end, 0)
                                     ELSE Header(TRUE, heap_end, heap_end)]
  /\ lfree = 0
  /\ used_mem = 0
  /\ asked = [p \in {} |-> 0]
  /\ moving = [c \in Clients |-> Idle]
  /\ shrunk = FALSE

\* Size of the data part of a block.
DataSize(h, b) == h[b].next - (b + SIZEOF_STRUCT_MEM)

\* The data pointer a caller gets, and back.
Pointer(b) == b + SIZEOF_STRUCT_MEM
HeaderOf(p) == p - SIZEOF_STRUCT_MEM

AtLeastMin(n) == IF n < MIN_SIZE_ALIGNED THEN MIN_SIZE_ALIGNED ELSE n

-----------------------------------------------------------------------------
\* Mutant of Linked: the new block is not the predecessor of the next.
LinkedForward(h, b, b2) ==
  [x \in DOMAIN h \cup {b2} |->
    IF x = b2 THEN Header(FALSE, h[b].next, b)
    ELSE IF x = b THEN [h[b] EXCEPT !.next = b2]
    ELSE h[x]]

\* A free block at b2 that ends where b ended; the header at the end of the
\* heap is left alone.
Linked(h, b, b2) ==
  [x \in DOMAIN h \cup {b2} |->
    IF x = b2 THEN Header(FALSE, h[b].next, b)
    ELSE IF x = b THEN [h[b] EXCEPT !.next = b2]
    ELSE IF x = h[b].next /\ x # heap_end THEN [h[x] EXCEPT !.prev = b2]
    ELSE h[x]]

\* Block b takes in the next one.
Joined(h, b) ==
  LET n == h[b].next
  IN  [x \in DOMAIN h \ {n} |->
        IF x = b THEN [h[b] EXCEPT !.next = h[n].next]
        ELSE IF x = h[n].next THEN [h[x] EXCEPT !.prev = b]
        ELSE h[x]]

\* plug_holes: heap and lfree after the free block b was joined with the next
\* and with the previous one, as far as these are free.
JoinsNext(h, b) == ~h[h[b].next].used /\ h[b].next # heap_end

\* Mutant of PluggedForward: lfree stays where there is no block any more.
PluggedForwardOnly(h, l, b) ==
  IF JoinsNext(h, b) THEN [heap |-> Joined(h, b), lfree |-> l] ELSE [heap |-> h, lfree |-> l]

PluggedForward(h, l, b) ==
  IF JoinsNext(h, b)
    THEN [heap |-> Joined(h, b), lfree |-> IF l = h[b].next THEN b ELSE l]
    ELSE [heap |-> h, lfree |-> l]

\* Mutant of JoinsPrev: a used block is joined with the free one behind it.
JoinsPrevUsed(h, b) == h[b].prev # b

JoinsPrev(h, b) == h[b].prev # b /\ ~h[h[b].prev].used

\* Mutant of PluggedBackward: a free block before b stays apart.
PluggedBackwardNot(h, l, b) == [heap |-> h, lfree |-> l]

PluggedBackward(h, l, b) ==
  IF JoinsPrev(h, b)
    THEN [heap |-> Joined(h, h[b].prev), lfree |-> IF l = b THEN h[b].prev ELSE l]
    ELSE [heap |-> h, lfree |-> l]

plug_holes(h, l, b) ==
  LET f == PluggedForward(h, l, b) IN PluggedBackward(f.heap, f.lfree, b)

-----------------------------------------------------------------------------
\* Mutant of Fits: the header is counted as data.
FitsWithHeader(h, b, n) == ~h[b].used /\ h[b].next - b >= n

\* Whether rt_malloc takes block b for n units.
Fits(h, b, n) == ~h[b].used /\ DataSize(h, b) >= n

\* Mutant of Candidates: a block before lfree is taken.
CandidatesAnywhere(n) == {b \in DOMAIN heap : b < mem_size_aligned - n /\ Fits(heap, b, n)}

\* The blocks from lfree on that rt_malloc would take.  The search follows the
\* links and stops at mem_size_aligned - n: see WalkFindsFirst.
Candidates(n) == {b \in DOMAIN heap : lfree <= b /\ b < mem_size_aligned - n /\ Fits(heap, b, n)}

\* Whether the rest of block b is worth a block of its own.
Splits(b, n) == DataSize(heap, b) >= n + SIZEOF_STRUCT_MEM + MIN_SIZE_ALIGNED

\* Mutant of Lowest: the next block, free or not.
LowestNext(h, l) == h[l].next

\* The lowest free block from l on.
Lowest(h, l) ==
  LET free == {b \in DOMAIN h : l <= b /\ b # heap_end /\ ~h[b].used}
  IN  IF free = {} THEN heap_end ELSE Min(free)

\* The critical section of rt_malloc, for a block that was found.
Take(b, n) ==
  LET h == IF Splits(b, n) THEN Linked(heap, b, Pointer(b) + n) ELSE heap
  IN  /\ heap' = [h EXCEPT ![b].used = TRUE]
      /\ lfree' = IF b = lfree THEN Lowest(heap', lfree) ELSE lfree
      /\ used_mem' = used_mem + heap'[b].next - b

\* rt_malloc, and rt_calloc.  Without a block that fits it returns RT_NULL and
\* changes nothing.
Malloc(n) ==
  /\ LET m == AtLeastMin(n)
     IN  /\ Candidates(m) # {}
         /\ Take(Min(Candidates(m)), m)
         /\ asked' = [p \in DOMAIN asked \cup {Pointer(Min(Candidates(m)))} |->
                       IF p \in DOMAIN asked THEN asked[p] ELSE n]
  /\ UNCHANGED <<moving, shrunk>>

\* Mutant of Freed: the count forgets the header.
FreedData(b) == used_mem - DataSize(heap, b)

\* used_mem after the block was freed.
Freed(b) == used_mem - (heap[b].next - b)

\* The critical section of rt_free.
Give(b) ==
  LET done == plug_holes([heap EXCEPT ![b].used = FALSE], IF b < lfree THEN b ELSE lfree, b)
  IN  /\ heap' = done.heap /\ lfree' = done.lfree
      /\ used_mem' = Freed(b)

\* Whether a client that is in rt_realloc holds the pointer.
InUse(p) == \E c \in Clients : p \in {moving[c].rmem, moving[c].nmem}

\* rt_free, and rt_realloc to size 0.
Free(p) ==
  /\ ~InUse(p)
  /\ Give(HeaderOf(p))
  /\ asked' = [q \in DOMAIN asked \ {p} |-> asked[q]]
  /\ UNCHANGED <<moving, shrunk>>

-----------------------------------------------------------------------------
\* Whether rt_realloc splits the block.  It does not look at MIN_SIZE_ALIGNED
\* for the part that stays.
Shortens(size, newsize) == newsize + SIZEOF_STRUCT_MEM + MIN_SIZE_ALIGNED < size

\* rt_realloc to a smaller size.
ReallocShorten(p, n) ==
  LET b == HeaderOf(p)
      b2 == p + n
      done == plug_holes(Linked(heap, b, b2), lfree, b2)
  IN  /\ ~InUse(p)
      /\ Shortens(DataSize(heap, b), n)
      /\ heap' = done.heap /\ lfree' = done.lfree
      /\ used_mem' = used_mem - (DataSize(heap, b) - n)
      /\ asked' = [asked EXCEPT ![p] = n]
      /\ shrunk' = TRUE
      /\ UNCHANGED moving

\* rt_realloc gives up heap_sem to move the block.  With the same size it
\* would return rmem.
ReallocBegin(c, p, n) ==
  /\ moving[c] = Idle /\ ~InUse(p)
  /\ LET size == DataSize(heap, HeaderOf(p))
     IN  /\ size # n /\ ~Shortens(size, n)
         /\ moving' = [moving EXCEPT ![c] = [rmem |-> p, nmem |-> None, size |-> size, newsize |-> n]]
  /\ UNCHANGED <<heap, lfree, used_mem, asked, shrunk>>

\* Its call of rt_malloc.  Without a block it returns RT_NULL and the caller
\* keeps the old one.
ReallocMalloc(c) ==
  LET m == AtLeastMin(moving[c].newsize)
      p == Pointer(Min(Candidates(m)))
  IN  /\ moving[c].rmem # None /\ moving[c].nmem = None
      /\ IF Candidates(m) = {}
           THEN /\ moving' = [moving EXCEPT ![c] = Idle]
                /\ UNCHANGED <<heap, lfree, used_mem, asked>>
           ELSE /\ Take(Min(Candidates(m)), m)
                /\ moving' = [moving EXCEPT ![c].nmem = p]
                /\ asked' = [q \in DOMAIN asked \cup {p} |->
                              IF q \in DOMAIN asked THEN asked[q] ELSE moving[c].newsize]
      /\ UNCHANGED shrunk

\* It copies, and frees the old block.
ReallocFree(c) ==
  /\ moving[c].nmem # None
  /\ Give(HeaderOf(moving[c].rmem))
  /\ asked' = [q \in DOMAIN asked \ {moving[c].rmem} |-> asked[q]]
  /\ moving' = [moving EXCEPT ![c] = Idle]
  /\ UNCHANGED shrunk

Next ==
  \/ \E n \in Sizes : Malloc(n)
  \/ \E p \in DOMAIN asked :
       \/ Free(p)
       \/ \E n \in Sizes : ReallocShorten(p, n) \/ \E c \in Clients : ReallocBegin(c, p, n)
  \/ \E c \in Clients : ReallocMalloc(c) \/ ReallocFree(c)

Spec == Init /\ [][Next]_vars

-----------------------------------------------------------------------------
Blocks == DOMAIN heap \ {heap_end}

Abstract == INSTANCE Heap WITH
              Addresses <- 0 .. heap_end,
              size <- [p \in DOMAIN asked |-> DataSize(heap, HeaderOf(p))]

TypeOK ==
  /\ DOMAIN heap \subseteq 0 .. heap_end /\ {0, heap_end} \subseteq DOMAIN heap
  /\ heap \in [DOMAIN heap -> [used : BOOLEAN, next : 0 .. heap_end, prev : 0 .. heap_end]]
  /\ lfree \in DOMAIN heap
  /\ DOMAIN asked \subseteq 0 .. heap_end /\ asked \in [DOMAIN asked -> Sizes]
  /\ moving \in [Clients -> [rmem : 0 .. heap_end, nmem : 0 .. heap_end,
                             size : 0 .. mem_size_aligned, newsize : 0 .. mem_size_aligned]]
  /\ shrunk \in BOOLEAN

\* The blocks lie one behind the other without gap or overlap, and the links
\* lead from each to its neighbours.
Tiled ==
  /\ heap[0].prev = 0
  /\ \A b \in Blocks :
       LET n == heap[b].next
       IN  /\ n \in DOMAIN heap /\ Pointer(b) < n
           /\ \A x \in DOMAIN heap : x <= b \/ n <= x
           /\ n # heap_end => heap[n].prev = b

\* plug_holes leaves no two free blocks side by side, which rt_malloc relies
\* on when it does not split: "mem->next will always be used at this point".
NoFreeNeighbours == \A b \in Blocks : ~heap[b].used => ~JoinsNext(heap, b)

\* The units of the used blocks, with their headers.
UsedUnits(h) == {x \in 0 .. heap_end : \E b \in DOMAIN h \ {heap_end} : h[b].used /\ b <= x /\ x < h[b].next}

\* rt_malloc's statistics count exactly what the used blocks and their headers
\* take of the heap.
UsedMemCounts == used_mem = Cardinality(UsedUnits(heap))

\* lfree is the "pointer to the lowest free block", unless rt_realloc has
\* shortened a block: the rest of it may lie before lfree.
LfreeIsLowest ==
  /\ lfree = heap_end \/ ~heap[lfree].used
  /\ ~shrunk => \A b \in Blocks : ~heap[b].used => lfree <= b

\* The loop of rt_malloc, which follows the links, ends and finds the same
\* block as the search by addresses.
WalkFindsFirst ==
  \A n \in MIN_SIZE_ALIGNED .. mem_size_aligned :
    LET walk[b \in DOMAIN heap] ==
          IF b >= mem_size_aligned - n THEN None
          ELSE IF Fits(heap, b, n) THEN b
          ELSE walk[heap[b].next]
    IN  walk[lfree] = IF Candidates(n) = {} THEN None ELSE Min(Candidates(n))

\* What rt_realloc copies fits into both blocks, whatever others did to the
\* heap in between.
CopyFits ==
  \A c \in Clients : moving[c].nmem # None =>
    LET n == Min({moving[c].size, moving[c].newsize})
    IN  /\ n <= DataSize(heap, HeaderOf(moving[c].rmem))
        /\ n <= DataSize(heap, HeaderOf(moving[c].nmem))

\* The heap keeps what it promises to its users.
ImplementsHeap == Abstract!Spec

=============================================================================
