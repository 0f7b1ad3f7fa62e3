----------------------------- MODULE RtMemProof -----------------------------
(***************************************************************************)
(* Proofs about the heap of RtMem, for every size of heap and header and   *)
(* every number of clients.  MemInv is inductive: the links are sound      *)
(* (Links), no two free blocks are neighbours (Alone), the used blocks are *)
(* those the callers hold (OwnInv), and a client in rt_realloc knows the   *)
(* sizes of its blocks (MoveInv).  Each operation on the links has a lemma *)
(* of its own, about the function of headers alone.                        *)
(*                                                                         *)
(* On MemInv rest the refinement of Heap, the count of used memory         *)
(* (UsedMemCounts) and the walk of rt_malloc from lfree                    *)
(* (WalkFindsFirst).                                                       *)
(***************************************************************************)
EXTENDS RtMem, TLAPS, WellFoundedInduction

\* A set of numbers that is not empty has a minimum, which Min chooses.
LEMMA MinProperty ==
  ASSUME NEW S \in SUBSET Nat, S # {}
  PROVE  Min(S) \in S /\ \A y \in S : Min(S) <= y
<1> DEFINE R == {ss \in Nat \X Nat : ss[1] < ss[2]}
<1>1. IsWellFoundedOn(R, Nat)
  BY NatLessThanWellFounded, Zenon DEF OpToRel
<1>2. \A a, b \in Nat : a < b => <<a, b>> \in R
  BY Zenon
<1> HIDE DEF R
<1>3. PICK x \in S : \A y \in S : ~(<<y, x>> \in R)
  BY <1>1, WFMin, Zenon
<1>4. \A y \in S : x <= y
  <2>1. SUFFICES ASSUME NEW y \in S, ~(x <= y) PROVE FALSE
    BY Zenon
  <2>2. y \in Nat /\ x \in Nat /\ y < x
    BY <2>1
  <2> QED
    BY <1>2, <1>3, <2>1, <2>2, Zenon
<1> QED
  BY <1>4, Zenon DEF Min

LEMMA EndFacts ==
  /\ heap_end \in Nat /\ SIZEOF_STRUCT_MEM \in Nat /\ SIZEOF_STRUCT_MEM > 0
  /\ MIN_SIZE_ALIGNED \in Nat /\ MIN_SIZE_ALIGNED > 0
  /\ heap_end = mem_size_aligned + SIZEOF_STRUCT_MEM /\ mem_size_aligned \in Nat
BY MemAssumption DEF heap_end

-----------------------------------------------------------------------------
\* The blocks of a heap, without the header at its end.
Blk(h) == DOMAIN h \ {heap_end}

\* Every header is one, the one at the end counts as used.
Typed(h) ==
  /\ DOMAIN h \subseteq 0 .. heap_end /\ {0, heap_end} \subseteq DOMAIN h
  /\ h \in [DOMAIN h -> [used : BOOLEAN, next : 0 .. heap_end, prev : 0 .. heap_end]]
  /\ h[heap_end].used

\* The links are sound: Tiled, and every block but the first is the next of
\* its prev.
Links(h) ==
  /\ h[0].prev = 0
  /\ \A b \in Blk(h) : /\ h[b].next \in DOMAIN h /\ Pointer(b) < h[b].next
                       /\ \A x \in DOMAIN h : x <= b \/ h[b].next <= x
                       /\ h[b].next # heap_end => h[h[b].next].prev = b
  /\ \A b \in Blk(h) \ {0} : h[b].prev \in Blk(h) /\ h[h[b].prev].next = b

\* Two free blocks lie side by side only if b is one of them.
Alone(h, b) ==
  \A x \in Blk(h) : ~h[x].used /\ ~h[h[x].next].used => x = b \/ h[x].next = b

\* lfree points to a free block, or to the end.
Free1(h, l) == l \in DOMAIN h /\ (l = heap_end \/ ~h[l].used)

\* No free block lies before l.
IsLowest(h, l) == \A x \in Blk(h) : ~h[x].used => l <= x

LEMMA TypedFacts ==
  ASSUME NEW h, Typed(h)
  PROVE  /\ 0 \in DOMAIN h /\ heap_end \in DOMAIN h /\ DOMAIN h \subseteq 0 .. heap_end
         /\ \A x \in DOMAIN h : /\ h[x].used \in BOOLEAN
                                /\ h[x].next \in 0 .. heap_end /\ h[x].prev \in 0 .. heap_end
BY Zenon DEF Typed

\* Linked, header by header.
LEMMA LinkedFields ==
  ASSUME NEW h, Typed(h), NEW b \in Blk(h), NEW b2 \in 0 .. heap_end, b2 \notin DOMAIN h,
         NEW e, e = h[b].next, e # b, e \in DOMAIN h,
         NEW g, g = Linked(h, b, b2)
  PROVE  /\ Typed(g) /\ DOMAIN g = DOMAIN h \cup {b2}
         /\ \A x \in DOMAIN h : g[x].used = h[x].used
         /\ \A x \in DOMAIN h \ {b} : g[x].next = h[x].next
         /\ g[b].next = b2
         /\ ~g[b2].used /\ g[b2].next = e /\ g[b2].prev = b
         /\ e # heap_end => g[e].prev = b2
         /\ \A x \in DOMAIN h : x # e \/ x = heap_end => g[x].prev = h[x].prev
<1> USE EndFacts DEF Blk
<1>1. /\ DOMAIN g = DOMAIN h \cup {b2}
      /\ g = [x \in DOMAIN g |-> g[x]]
  BY Zenon DEF Linked
<1>2. g[b2] = [used |-> FALSE, next |-> e, prev |-> b]
  BY Zenon DEF Linked, Header
<1>3. g[b] = [h[b] EXCEPT !.next = b2]
  BY Zenon DEF Linked
<1>4. e # heap_end => g[e] = [h[e] EXCEPT !.prev = b2]
  BY Zenon DEF Linked
<1>5. \A x \in DOMAIN h \ {b} : x # e \/ x = heap_end => g[x] = h[x]
  BY Zenon DEF Linked
<1>6. \A x \in DOMAIN h : h[x] \in [used : BOOLEAN, next : 0 .. heap_end, prev : 0 .. heap_end]
  BY Zenon DEF Typed
<1>7. /\ b \in DOMAIN h /\ e \in DOMAIN h /\ b \in 0 .. heap_end /\ e \in 0 .. heap_end
      /\ heap_end \in DOMAIN h /\ 0 \in DOMAIN h /\ heap_end # b2 /\ h[heap_end].used
  BY Zenon DEF Typed
<1>8. ASSUME NEW x \in DOMAIN h
      PROVE  /\ g[x] \in [used : BOOLEAN, next : 0 .. heap_end, prev : 0 .. heap_end]
             /\ g[x].used = h[x].used
             /\ x # b => g[x].next = h[x].next
             /\ x # e \/ x = heap_end => g[x].prev = h[x].prev
  <2>1. CASE x = b
    BY ONLY <1>3, <1>6, <1>7, <2>1, b2 \in 0 .. heap_end
  <2>2. CASE x = e /\ e # heap_end
    BY ONLY <1>4, <1>6, <1>7, <2>2, b2 \in 0 .. heap_end
  <2>3. CASE x # b /\ (x # e \/ x = heap_end)
    BY ONLY <1>5, <1>6, <2>3, x \in DOMAIN h, Zenon
  <2> QED
    BY <2>1, <2>2, <2>3, Zenon
<1>9. Typed(g)
  <2>1. g[b2] \in [used : BOOLEAN, next : 0 .. heap_end, prev : 0 .. heap_end]
    BY ONLY <1>2, <1>7
  <2>2. \A x \in DOMAIN g : g[x] \in [used : BOOLEAN, next : 0 .. heap_end, prev : 0 .. heap_end]
    BY <1>1, <1>8, <2>1, Zenon
  <2>3. DOMAIN g \subseteq 0 .. heap_end /\ {0, heap_end} \subseteq DOMAIN g /\ g[heap_end].used
    BY <1>1, <1>7, <1>8, Zenon DEF Typed
  <2> QED
    BY ONLY <1>1, <2>2, <2>3, Zenon DEF Typed
<1>10. g[b].next = b2 /\ (e # heap_end => g[e].prev = b2)
  BY ONLY <1>3, <1>4, <1>6, <1>7, ZenonT(30)
<1> QED
  BY ONLY <1>1, <1>2, <1>8, <1>9, <1>10

\* A block put into another keeps the links sound.
LEMMA LinkedLinks ==
  ASSUME NEW h, Typed(h), Links(h), NEW b \in Blk(h), NEW b2 \in Int,
         Pointer(b) < b2, Pointer(b2) < h[b].next,
         NEW g, g = Linked(h, b, b2)
  PROVE  /\ Typed(g) /\ Links(g) /\ b2 \notin DOMAIN h /\ DOMAIN g = DOMAIN h \cup {b2}
         /\ b2 \in Blk(g) /\ g[b].next = b2 /\ ~g[b2].used /\ g[b2].next = h[b].next
         /\ \A x \in DOMAIN h : g[x].used = h[x].used /\ (x # b => g[x].next = h[x].next)
<1>1. PICK e : e = h[b].next
  BY Zenon
<1>2. /\ b \in 0 .. heap_end /\ e \in 0 .. heap_end /\ e \in DOMAIN h /\ b \in DOMAIN h
      /\ b < b2 /\ b2 < e /\ b2 \in 0 .. heap_end /\ b2 # heap_end
      /\ \A x \in DOMAIN h : x <= b \/ e <= x
  BY <1>1, TypedFacts, EndFacts DEF Links, Pointer, Blk
<1>3. b2 \notin DOMAIN h /\ e # b /\ 0 \in DOMAIN h /\ DOMAIN h \subseteq 0 .. heap_end
  BY <1>2, TypedFacts
<1>4. /\ Typed(g) /\ DOMAIN g = DOMAIN h \cup {b2}
      /\ \A x \in DOMAIN h : g[x].used = h[x].used
      /\ \A x \in DOMAIN h \ {b} : g[x].next = h[x].next
      /\ g[b].next = b2
      /\ ~g[b2].used /\ g[b2].next = e /\ g[b2].prev = b
      /\ e # heap_end => g[e].prev = b2
      /\ \A x \in DOMAIN h : x # e \/ x = heap_end => g[x].prev = h[x].prev
  BY ONLY <1>1, <1>2, <1>3, Typed(h), b \in Blk(h), g = Linked(h, b, b2), LinkedFields, SMTT(30)
<1>5. /\ Blk(g) = Blk(h) \cup {b2}
  BY <1>2, <1>4, Zenon DEF Blk
<1>6. \A x \in Blk(h) : /\ h[x].next \in DOMAIN h /\ Pointer(x) < h[x].next
                        /\ \A y \in DOMAIN h : y <= x \/ h[x].next <= y
                        /\ h[x].next # heap_end => h[h[x].next].prev = x
  BY Zenon DEF Links
<1>7. \A x \in Blk(h) \ {0} : h[x].prev \in Blk(h) /\ h[h[x].prev].next = x
  BY Zenon DEF Links
<1>8. ASSUME NEW x \in Blk(g)
      PROVE  /\ g[x].next \in DOMAIN g /\ Pointer(x) < g[x].next
             /\ \A y \in DOMAIN g : y <= x \/ g[x].next <= y
             /\ g[x].next # heap_end => g[g[x].next].prev = x
  <2>1. CASE x = b2
    BY ONLY <1>2, <1>3, <1>4, <2>1, Pointer(b2) < h[b].next, <1>1, EndFacts DEF Pointer
  <2>2. CASE x = b
    BY ONLY <1>2, <1>3, <1>4, <2>2, Pointer(b) < b2, EndFacts DEF Pointer
  <2>3. CASE x \in Blk(h) \ {b}
    <3>1. g[x].next = h[x].next /\ x \in 0 .. heap_end /\ x \in DOMAIN h
      BY <1>3, <1>4, <2>3, Zenon DEF Blk
    <3>2. h[x].next \in DOMAIN h /\ Pointer(x) < h[x].next /\ h[x].next \in 0 .. heap_end
      BY <1>3, <1>6, <2>3, Zenon
    <3>3. x < b \/ x >= e
      BY ONLY <1>2, <2>3, <3>1, b \in Int
    <3>4. h[x].next <= b \/ x >= e
      BY ONLY <1>2, <1>6, <2>3, <3>1, <3>2, <3>3, EndFacts DEF Pointer
    <3>5. \A y \in DOMAIN g : y <= x \/ g[x].next <= y
      BY ONLY <1>2, <1>3, <1>4, <1>6, <2>3, <3>1, <3>2, <3>4
    <3>6. h[x].next # e
      BY ONLY <1>2, <3>1, <3>2, <3>4, EndFacts DEF Pointer
    <3>7. g[x].next # heap_end => g[g[x].next].prev = x
      BY ONLY <1>4, <1>6, <2>3, <3>1, <3>2, <3>6, Zenon
    <3> QED
      BY ONLY <1>4, <3>1, <3>2, <3>5, <3>7, Zenon
  <2> QED
    BY <1>5, <2>1, <2>2, <2>3, Zenon
<1>9. ASSUME NEW x \in Blk(g) \ {0} PROVE g[x].prev \in Blk(g) /\ g[g[x].prev].next = x
  <2>1. CASE x = b2
    BY ONLY <1>4, <1>5, <2>1, b \in Blk(h), Zenon
  <2>2. CASE x = e /\ x # b2
    BY ONLY <1>4, <1>5, <2>2, x \in Blk(g) \ {0}, Zenon DEF Blk
  <2>3. CASE x \in Blk(h) \ {0} /\ x # e
    <3>1. g[x].prev = h[x].prev /\ h[x].prev \in Blk(h) /\ h[h[x].prev].next = x
      BY ONLY <1>4, <1>7, <2>3, Zenon DEF Blk
    <3>2. h[x].prev # b
      BY ONLY <1>1, <2>3, <3>1, Zenon
    <3> QED
      BY ONLY <1>4, <1>5, <3>1, <3>2, Zenon DEF Blk
  <2> QED
    BY <1>5, <2>1, <2>2, <2>3, Zenon
<1>10. g[0].prev = 0
  BY <1>2, <1>3, <1>4 DEF Links
<1> QED
  BY ONLY <1>1, <1>2, <1>3, <1>4, <1>5, <1>8, <1>9, <1>10, Zenon DEF Links

\* Joined, header by header.
LEMMA JoinedFields ==
  ASSUME NEW h, Typed(h), NEW b \in Blk(h), NEW n \in Blk(h), n = h[b].next, n # b, n # 0,
         NEW e \in DOMAIN h, e = h[n].next, e # n, e # b,
         NEW g, g = Joined(h, b)
  PROVE  /\ Typed(g) /\ DOMAIN g = DOMAIN h \ {n}
         /\ \A x \in DOMAIN g : g[x].used = h[x].used
         /\ \A x \in DOMAIN g \ {b} : g[x].next = h[x].next
         /\ g[b].next = e /\ g[e].prev = b
         /\ \A x \in DOMAIN g \ {e} : g[x].prev = h[x].prev
<1> USE EndFacts DEF Blk
<1>1. DOMAIN g = DOMAIN h \ {n} /\ g = [x \in DOMAIN g |-> g[x]]
  BY Zenon DEF Joined
<1>2. g[b] = [h[b] EXCEPT !.next = e]
  BY Zenon DEF Joined
<1>3. g[e] = [h[e] EXCEPT !.prev = b]
  BY Zenon DEF Joined
<1>4. \A x \in DOMAIN h \ {b, n, e} : g[x] = h[x]
  BY Zenon DEF Joined
<1>5. \A x \in DOMAIN h : h[x] \in [used : BOOLEAN, next : 0 .. heap_end, prev : 0 .. heap_end]
  BY Zenon DEF Typed
<1>6. /\ b \in DOMAIN h /\ e \in DOMAIN h /\ b \in 0 .. heap_end /\ e \in 0 .. heap_end
      /\ heap_end \in DOMAIN h /\ 0 \in DOMAIN h /\ heap_end # n /\ h[heap_end].used
  BY Zenon DEF Typed
<1>7. ASSUME NEW x \in DOMAIN g
      PROVE  /\ g[x] \in [used : BOOLEAN, next : 0 .. heap_end, prev : 0 .. heap_end]
             /\ g[x].used = h[x].used
             /\ x # b => g[x].next = h[x].next
             /\ x # e => g[x].prev = h[x].prev
  <2>1. CASE x = b
    BY ONLY <1>2, <1>5, <1>6, <2>1
  <2>2. CASE x = e
    BY ONLY <1>3, <1>5, <1>6, <2>2
  <2>3. CASE x # b /\ x # e
    BY ONLY <1>1, <1>4, <1>5, <2>3, x \in DOMAIN g, Zenon
  <2> QED
    BY <2>1, <2>2, <2>3, Zenon
<1>8. Typed(g)
  <2>1. DOMAIN g \subseteq 0 .. heap_end /\ {0, heap_end} \subseteq DOMAIN g /\ g[heap_end].used
    BY <1>1, <1>6, <1>7, Zenon DEF Typed
  <2> QED
    BY ONLY <1>1, <1>7, <2>1, Zenon DEF Typed
<1>9. g[b].next = e /\ g[e].prev = b
  BY ONLY <1>2, <1>3, <1>5, <1>6
<1> QED
  BY ONLY <1>1, <1>7, <1>8, <1>9, Zenon

\* A block that takes in the next one keeps the links sound.
LEMMA JoinedLinks ==
  ASSUME NEW h, Typed(h), Links(h), NEW b \in Blk(h), h[b].next # heap_end,
         NEW g, g = Joined(h, b)
  PROVE  /\ Typed(g) /\ Links(g) /\ DOMAIN g = DOMAIN h \ {h[b].next}
         /\ g[b].next = h[h[b].next].next
         /\ \A x \in DOMAIN g : g[x].used = h[x].used /\ (x # b => g[x].next = h[x].next)
<1>0. PICK n : n = h[b].next
  BY Zenon
<1>1. \A x \in Blk(h) : /\ h[x].next \in DOMAIN h /\ Pointer(x) < h[x].next
                        /\ \A y \in DOMAIN h : y <= x \/ h[x].next <= y
                        /\ h[x].next # heap_end => h[h[x].next].prev = x
  BY Zenon DEF Links
<1>2. \A x \in Blk(h) \ {0} : h[x].prev \in Blk(h) /\ h[h[x].prev].next = x
  BY Zenon DEF Links
<1>3. n \in Blk(h) /\ Pointer(b) < n /\ (\A y \in DOMAIN h : y <= b \/ n <= y) /\ h[n].prev = b
  BY <1>0, <1>1, Zenon DEF Blk
<1>4. PICK e : e = h[n].next
  BY Zenon
<1>5. e \in DOMAIN h /\ Pointer(n) < e /\ (\A y \in DOMAIN h : y <= n \/ e <= y)
  BY <1>1, <1>3, <1>4, Zenon
<1>6. /\ DOMAIN h \subseteq 0 .. heap_end /\ 0 \in DOMAIN h
      /\ b \in 0 .. heap_end /\ n \in 0 .. heap_end /\ e \in 0 .. heap_end
      /\ b < n /\ n < e
  BY <1>3, <1>5, TypedFacts, EndFacts, SMTT(30) DEF Pointer, Blk
<1>7. /\ Typed(g) /\ DOMAIN g = DOMAIN h \ {n}
      /\ \A x \in DOMAIN g : g[x].used = h[x].used
      /\ \A x \in DOMAIN g \ {b} : g[x].next = h[x].next
      /\ g[b].next = e /\ g[e].prev = b
      /\ \A x \in DOMAIN g \ {e} : g[x].prev = h[x].prev
  <2>1. n # b /\ n # 0 /\ e # n /\ e # b
    BY <1>6
  <2> QED
    BY ONLY <1>0, <1>3, <1>4, <1>5, <2>1, Typed(h), b \in Blk(h), g = Joined(h, b), JoinedFields, SMTT(30)
<1>8. Blk(g) = Blk(h) \ {n}
  BY <1>7, Zenon DEF Blk
<1>9. ASSUME NEW x \in Blk(g)
      PROVE  /\ g[x].next \in DOMAIN g /\ Pointer(x) < g[x].next
             /\ \A y \in DOMAIN g : y <= x \/ g[x].next <= y
             /\ g[x].next # heap_end => g[g[x].next].prev = x
  <2>1. CASE x = b
    <3>1. Pointer(b) < e
      BY <1>3, <1>6, EndFacts DEF Pointer
    <3>2. \A y \in DOMAIN g : y <= b \/ e <= y
      BY ONLY <1>3, <1>5, <1>6, <1>7, SMTT(30)
    <3> QED
      BY ONLY <1>5, <1>6, <1>7, <2>1, <3>1, <3>2
  <2>2. CASE x # b
    <3>1. x \in Blk(h) /\ x # n /\ g[x].next = h[x].next /\ x \in DOMAIN h
      BY <1>7, <1>8, <2>2, Zenon DEF Blk
    <3>2. h[x].next # n
      <4>1. h[x].next = n => h[n].prev = x
        BY <1>1, <1>3, <3>1, Zenon DEF Blk
      <4> QED
        BY <1>3, <2>2, <4>1, Zenon
    <3>3. h[x].next # e \/ e = heap_end
      <4>1. h[x].next = e /\ e # heap_end => h[e].prev = x
        BY <1>1, <3>1, Zenon
      <4>2. e # heap_end => h[e].prev = n
        BY <1>1, <1>3, <1>4, Zenon
      <4> QED
        BY <3>1, <4>1, <4>2, Zenon
    <3>4. g[x].next # heap_end => g[g[x].next].prev = x
      BY ONLY <1>1, <1>7, <3>1, <3>2, <3>3, Zenon
    <3> QED
      BY ONLY <1>1, <1>7, <3>1, <3>2, <3>4, Zenon
  <2> QED
    BY <2>1, <2>2, Zenon
<1>10. ASSUME NEW x \in Blk(g) \ {0} PROVE g[x].prev \in Blk(g) /\ g[g[x].prev].next = x
  <2>1. CASE x = e
    BY ONLY <1>3, <1>6, <1>7, <1>8, <2>1, b \in Blk(h)
  <2>2. CASE x # e
    <3>1. x \in Blk(h) \ {0} /\ x # n /\ g[x].prev = h[x].prev
      BY <1>7, <1>8, <2>2, Zenon DEF Blk
    <3>2. h[x].prev \in Blk(h) /\ h[h[x].prev].next = x
      BY <1>2, <3>1, Zenon
    <3>3. h[x].prev # b /\ h[x].prev # n
      BY <1>0, <1>4, <2>2, <3>1, <3>2, Zenon
    <3> QED
      BY ONLY <1>7, <1>8, <3>1, <3>2, <3>3, Zenon DEF Blk
  <2> QED
    BY <2>1, <2>2, Zenon
<1>11. g[0].prev = 0
  <2>1. 0 \in DOMAIN g \ {e}
    BY <1>6, <1>7
  <2> QED
    BY <1>7, <2>1, Zenon DEF Links
<1> QED
  BY ONLY <1>0, <1>4, <1>7, <1>9, <1>10, <1>11, Zenon DEF Links

\* plug_holes joins b with its free neighbours, touches no used block and
\* leaves lfree at a free block that lies no higher.
LEMMA PlugHoles ==
  ASSUME NEW h, Typed(h), Links(h), NEW l, Free1(h, l), NEW b \in Blk(h), ~h[b].used, Alone(h, b),
         NEW g, NEW m, [heap |-> g, lfree |-> m] = plug_holes(h, l, b)
  PROVE  /\ Typed(g) /\ Links(g) /\ Alone(g, heap_end) /\ Free1(g, m) /\ m <= l
         /\ DOMAIN g \subseteq DOMAIN h /\ \A x \in DOMAIN g : g[x].used = h[x].used
         /\ \A x \in DOMAIN h : h[x].used => x \in DOMAIN g /\ g[x].next = h[x].next
<1>1. PICK f : f = PluggedForward(h, l, b)
  BY Zenon
<1>2. PICK h1, l1 : h1 = f.heap /\ l1 = f.lfree
  BY Zenon
<1>3. PluggedBackward(h1, l1, b) = [heap |-> g, lfree |-> m]
  BY <1>1, <1>2, Zenon DEF plug_holes
<1>4. \A x \in Blk(h) : h[x].next \in DOMAIN h /\ x < h[x].next
  BY TypedFacts, EndFacts DEF Links, Pointer, Blk
<1>5. /\ Typed(h1) /\ Links(h1) /\ Free1(h1, l1) /\ l1 <= l /\ b \in Blk(h1)
      /\ DOMAIN h1 \subseteq DOMAIN h /\ \A x \in DOMAIN h1 : h1[x].used = h[x].used
      /\ \A x \in DOMAIN h : h[x].used => x \in DOMAIN h1 /\ h1[x].next = h[x].next
      /\ \A x \in Blk(h1) : ~h1[x].used /\ ~h1[h1[x].next].used => h1[x].next = b
  <2>1. CASE JoinsNext(h, b)
    <3>1. PICK n : n = h[b].next
      BY Zenon
    <3>2. n \in Blk(h) /\ ~h[n].used /\ b < n /\ n # heap_end
      BY <1>4, <2>1, <3>1, Zenon DEF JoinsNext, Blk
    <3>3. h1 = Joined(h, b) /\ l1 = IF l = n THEN b ELSE l
      BY <1>1, <1>2, <2>1, <3>1, Zenon DEF PluggedForward
    <3>4. /\ Typed(h1) /\ Links(h1) /\ DOMAIN h1 = DOMAIN h \ {n} /\ h1[b].next = h[n].next
          /\ \A x \in DOMAIN h1 : h1[x].used = h[x].used /\ (x # b => h1[x].next = h[x].next)
      <4>1. h[b].next # heap_end /\ h1 = Joined(h, b)
        BY <3>1, <3>2, <3>3, Zenon
      <4>2. /\ Typed(h1) /\ Links(h1) /\ DOMAIN h1 = DOMAIN h \ {h[b].next}
            /\ h1[b].next = h[h[b].next].next
            /\ \A x \in DOMAIN h1 : h1[x].used = h[x].used /\ (x # b => h1[x].next = h[x].next)
        BY ONLY <4>1, Typed(h), Links(h), b \in Blk(h), JoinedLinks
      <4> QED
        BY ONLY <3>1, <4>2, Zenon
    <3>5. b \in DOMAIN h1 /\ ~h1[b].used /\ b \in Blk(h1)
      BY <3>2, <3>4, ~h[b].used, TypedFacts DEF Blk
    <3>6. Free1(h1, l1) /\ l1 <= l
      BY <3>2, <3>3, <3>4, <3>5, TypedFacts, SMTT(30) DEF Free1, Blk
    <3>7. h[n].next \in DOMAIN h /\ n < h[n].next /\ h[h[n].next].used
      BY <1>4, <3>2, Alone(h, b), TypedFacts DEF Alone, Blk
    <3>8. ASSUME NEW x \in Blk(h1), ~h1[x].used, ~h1[h1[x].next].used PROVE h1[x].next = b
      <4>1. x # b
        <5>1. h[n].next \in DOMAIN h1
          BY <3>4, <3>7, <3>2, TypedFacts, Zenon DEF Blk
        <5> QED
          BY <3>4, <3>7, <3>8, <5>1, Zenon
      <4>2. x \in Blk(h) /\ ~h[x].used /\ h1[x].next = h[x].next /\ h1[x].next \in DOMAIN h1
        BY <3>4, <3>8, <4>1, Zenon DEF Blk, Links
      <4> QED
        BY <3>4, <3>8, <4>1, <4>2, Alone(h, b), Zenon DEF Alone
    <3>9. \A x \in DOMAIN h : h[x].used => x \in DOMAIN h1 /\ h1[x].next = h[x].next
      BY <3>2, <3>4, ~h[b].used, Zenon
    <3> QED
      BY <3>4, <3>5, <3>6, <3>8, <3>9, Zenon
  <2>2. CASE ~JoinsNext(h, b)
    <3>1. h1 = h /\ l1 = l
      BY <1>1, <1>2, <2>2, Zenon DEF PluggedForward
    <3>2. l \in Int
      BY TypedFacts DEF Free1
    <3>3. h[h[b].next].used
      BY <2>2, Zenon DEF JoinsNext, Typed
    <3> QED
      BY <3>1, <3>2, <3>3, Alone(h, b) DEF Alone
  <2> QED
    BY <2>1, <2>2, Zenon
<1>6. \A x \in Blk(h1) : h1[x].next \in DOMAIN h1 /\ x < h1[x].next
  BY <1>5, TypedFacts, EndFacts DEF Links, Pointer, Blk
<1>7. l \in Int /\ l1 \in Int
  BY <1>5, TypedFacts DEF Free1
<1>8. CASE JoinsPrev(h1, b)
  <2>1. PICK p : p = h1[b].prev
    BY Zenon
  <2>2. p \in Blk(h1) /\ h1[p].next = b /\ p # b /\ ~h1[p].used /\ b # heap_end /\ b # 0
    BY <1>5, <1>8, <2>1, Zenon DEF JoinsPrev, Links, Blk
  <2>3. p < b
    BY <1>6, <2>2, Zenon
  <2>4. g = Joined(h1, p) /\ m = IF l1 = b THEN p ELSE l1
    BY <1>3, <1>8, <2>1, Zenon DEF PluggedBackward
  <2>5. /\ Typed(g) /\ Links(g) /\ DOMAIN g = DOMAIN h1 \ {b} /\ g[p].next = h1[b].next
        /\ \A x \in DOMAIN g : g[x].used = h1[x].used /\ (x # p => g[x].next = h1[x].next)
    <3>1. h1[p].next # heap_end /\ g = Joined(h1, p) /\ Typed(h1) /\ Links(h1)
      BY <1>5, <2>2, <2>4, Zenon
    <3>2. /\ Typed(g) /\ Links(g) /\ DOMAIN g = DOMAIN h1 \ {h1[p].next}
          /\ g[p].next = h1[h1[p].next].next
          /\ \A x \in DOMAIN g : g[x].used = h1[x].used /\ (x # p => g[x].next = h1[x].next)
      BY ONLY <2>2, <3>1, JoinedLinks, SMTT(30)
    <3> QED
      BY ONLY <2>2, <3>2, Zenon
  <2>6. p \in DOMAIN g /\ p \in Int /\ ~g[p].used
    BY <1>5, <2>2, <2>3, <2>5, TypedFacts DEF Blk
  <2>7. Free1(g, m) /\ m <= l
    BY <1>5, <1>7, <2>3, <2>4, <2>5, <2>6 DEF Free1
  <2>8. h1[b].next \in DOMAIN g /\ h1[h1[b].next].used /\ b < h1[b].next
    <3>1. b \in DOMAIN h1 /\ ~h1[b].used /\ b \in Int /\ b # h1[b].next
      BY <1>5, <1>6, ~h[b].used, TypedFacts DEF Blk
    <3> QED
      BY <1>5, <1>6, <2>5, <3>1, Zenon
  <2>9. Alone(g, heap_end)
    <3>1. SUFFICES ASSUME NEW x \in Blk(g), ~g[x].used, ~g[g[x].next].used PROVE FALSE
      BY Zenon DEF Alone
    <3>2. x # p
      BY <2>5, <2>8, <3>1, Zenon
    <3>3. x \in Blk(h1) /\ ~h1[x].used /\ g[x].next = h1[x].next /\ g[x].next \in DOMAIN g
      BY <2>5, <3>1, <3>2, Zenon DEF Blk, Links
    <3> QED
      BY <1>5, <2>5, <3>1, <3>3, Zenon
  <2>10. \A x \in DOMAIN h : h[x].used => x \in DOMAIN g /\ g[x].next = h[x].next
    BY <1>5, <2>2, <2>5, ~h[b].used, Zenon DEF Blk
  <2> QED
    BY <1>5, <2>5, <2>7, <2>9, <2>10, Zenon
<1>9. CASE ~JoinsPrev(h1, b)
  <2>1. g = h1 /\ m = l1
    BY <1>3, <1>9, Zenon DEF PluggedBackward
  <2>2. Alone(h1, heap_end)
    <3>1. SUFFICES ASSUME NEW x \in Blk(h1), ~h1[x].used, ~h1[h1[x].next].used PROVE FALSE
      BY Zenon DEF Alone
    <3>2. h1[x].next = b
      BY <1>5, <3>1, Zenon
    <3>3. h1[b].prev = x
      BY <1>5, <3>1, <3>2, Zenon DEF Links, Blk
    <3>4. x # b
      BY <1>5, <1>6, <3>1, <3>2, TypedFacts DEF Blk
    <3> QED
      BY <1>9, <3>1, <3>3, <3>4, Zenon DEF JoinsPrev
  <2> QED
    BY <1>5, <2>1, <2>2, Zenon
<1> QED
  BY <1>8, <1>9, Zenon

Marks(h, b, v) == [h EXCEPT ![b].used = v]

\* Marking a block as used or free leaves the links alone.
LEMMA Marked ==
  ASSUME NEW h, Typed(h), Links(h), NEW b \in Blk(h), NEW v \in BOOLEAN,
         NEW g, g = Marks(h, b, v)
  PROVE  /\ Typed(g) /\ Links(g) /\ DOMAIN g = DOMAIN h /\ g[b].used = v
         /\ \A x \in DOMAIN h : g[x].next = h[x].next /\ (x # b => g[x].used = h[x].used)
<1>1. DOMAIN g = DOMAIN h /\ g = [x \in DOMAIN g |-> g[x]] /\ b \in DOMAIN h /\ b # heap_end
  BY Zenon DEF Blk, Marks
<1>2. g[b] = [h[b] EXCEPT !.used = v] /\ \A x \in DOMAIN h \ {b} : g[x] = h[x]
  BY <1>1, Zenon DEF Marks
<1>3. \A x \in DOMAIN h : h[x] \in [used : BOOLEAN, next : 0 .. heap_end, prev : 0 .. heap_end]
  BY Zenon DEF Typed
<1>4. ASSUME NEW x \in DOMAIN h
      PROVE  /\ g[x] \in [used : BOOLEAN, next : 0 .. heap_end, prev : 0 .. heap_end]
             /\ g[x].next = h[x].next /\ g[x].prev = h[x].prev /\ (x # b => g[x].used = h[x].used)
  <2>1. CASE x = b
    BY ONLY <1>1, <1>2, <1>3, <2>1, v \in BOOLEAN, Zenon
  <2>2. CASE x # b
    BY ONLY <1>2, <1>3, <2>2, x \in DOMAIN h, Zenon
  <2> QED
    BY <2>1, <2>2, Zenon
<1>5. g[b].used = v
  BY ONLY <1>1, <1>2, <1>3, Zenon
<1>6. Typed(g)
  <2>1. DOMAIN g \subseteq 0 .. heap_end /\ {0, heap_end} \subseteq DOMAIN g /\ g[heap_end].used
    BY <1>1, <1>4, Zenon DEF Typed
  <2> QED
    BY ONLY <1>1, <1>4, <2>1, Zenon DEF Typed
<1>7. Links(g)
  <2>1. Blk(g) = Blk(h) /\ 0 \in DOMAIN h
    BY <1>1, TypedFacts, Zenon DEF Blk
  <2>2. \A x \in DOMAIN h : g[x].next = h[x].next /\ g[x].prev = h[x].prev
    BY <1>4, Zenon
  <2>3. \A x \in Blk(h) : x \in DOMAIN h
    BY Zenon DEF Blk
  <2>4. \A x \in Blk(h) : /\ h[x].next \in DOMAIN h /\ Pointer(x) < h[x].next
                          /\ \A y \in DOMAIN h : y <= x \/ h[x].next <= y
                          /\ h[x].next # heap_end => h[h[x].next].prev = x
    BY Zenon DEF Links
  <2>5. \A x \in Blk(h) \ {0} : h[x].prev \in Blk(h) /\ h[h[x].prev].next = x
    BY Zenon DEF Links
  <2>6. \A x \in Blk(g) : /\ g[x].next \in DOMAIN g /\ Pointer(x) < g[x].next
                          /\ \A y \in DOMAIN g : y <= x \/ g[x].next <= y
                          /\ g[x].next # heap_end => g[g[x].next].prev = x
    BY ONLY <1>1, <2>1, <2>2, <2>3, <2>4, ZenonT(30)
  <2>7. \A x \in Blk(g) \ {0} : g[x].prev \in Blk(g) /\ g[g[x].prev].next = x
    BY ONLY <2>1, <2>2, <2>3, <2>5, Zenon
  <2>8. g[0].prev = 0
    BY <2>1, <2>2, Zenon DEF Links
  <2> QED
    BY ONLY <2>6, <2>7, <2>8, Zenon DEF Links
<1> QED
  BY <1>1, <1>4, <1>5, <1>6, <1>7, Zenon

\* The used blocks of h and of g are the same, up to the one at b.
Stays(h, g, b) ==
  /\ \A x \in DOMAIN h \ {b} : h[x].used => x \in DOMAIN g /\ g[x].used /\ g[x].next = h[x].next
  /\ \A x \in DOMAIN g \ {b} : g[x].used => x \in DOMAIN h /\ h[x].used

\* The state of the heap between two critical sections.
HeapOK(h, l) == Typed(h) /\ Links(h) /\ Alone(h, heap_end) /\ Free1(h, l)

\* rt_malloc takes a free block.
LEMMA TakeKeeps ==
  ASSUME HeapOK(heap, lfree), NEW n \in Nat, n > 0, NEW b \in Candidates(n), Take(b, n)
  PROVE  /\ HeapOK(heap', lfree') /\ Stays(heap, heap', b)
         /\ b \in Blk(heap) /\ ~heap[b].used
         /\ b \in Blk(heap') /\ heap'[b].used /\ DataSize(heap', b) >= n
         /\ IsLowest(heap, lfree) => IsLowest(heap', lfree')
<1> USE DEF HeapOK
<1>1. /\ b \in DOMAIN heap /\ lfree <= b /\ b < mem_size_aligned - n
      /\ ~heap[b].used /\ DataSize(heap, b) >= n
  BY Zenon DEF Candidates, Fits
<1>2. b \in Blk(heap) /\ b \in 0 .. heap_end /\ b # heap_end
  BY <1>1, TypedFacts, EndFacts DEF Blk
<1>3. PICK h : h = IF Splits(b, n) THEN Linked(heap, b, Pointer(b) + n) ELSE heap
  BY Zenon
<1>4. /\ Typed(h) /\ Links(h) /\ b \in Blk(h)
      /\ DOMAIN heap \subseteq DOMAIN h
      /\ \A x \in DOMAIN heap : h[x].used = heap[x].used /\ (x # b => h[x].next = heap[x].next)
      /\ \A x \in DOMAIN h : h[x].used => x \in DOMAIN heap
      /\ \A x \in DOMAIN h \ DOMAIN heap : b < x
      /\ DataSize(h, b) >= n
      /\ \A x \in Blk(h) \ {b} : ~h[x].used => h[h[x].next].used \/ h[x].next = b
  <2>1. CASE Splits(b, n)
    <3>1. PICK b2 : b2 = Pointer(b) + n
      BY Zenon
    <3>2. /\ b2 \in Int /\ Pointer(b) < b2 /\ Pointer(b2) < heap[b].next /\ b < b2
          /\ heap[b].next \in 0 .. heap_end
      BY <1>1, <1>2, <2>1, <3>1, TypedFacts, EndFacts, SMTT(30) DEF Splits, DataSize, Pointer
    <3>3. /\ Typed(h) /\ Links(h) /\ b2 \notin DOMAIN heap /\ DOMAIN h = DOMAIN heap \cup {b2}
          /\ b2 \in Blk(h) /\ h[b].next = b2 /\ ~h[b2].used /\ h[b2].next = heap[b].next
          /\ \A x \in DOMAIN heap : h[x].used = heap[x].used /\ (x # b => h[x].next = heap[x].next)
      <4>1. h = Linked(heap, b, b2)
        BY <1>3, <2>1, <3>1, Zenon
      <4>2. Typed(heap) /\ Links(heap)
        BY Zenon
      <4> QED
        BY ONLY <1>2, <3>2, <4>1, <4>2, LinkedLinks
    <3>4. DataSize(h, b) = n
      BY <1>2, <3>1, <3>3, EndFacts DEF DataSize, Pointer
    <3>5. heap[heap[b].next].used /\ heap[b].next \in DOMAIN heap
      <4>1. heap[b].next # b
        BY <1>2, <3>2, EndFacts DEF Pointer
      <4> QED
        BY <1>1, <1>2, <4>1, TypedFacts, Zenon DEF Alone, Links, Typed
    <3>6. \A x \in Blk(h) \ {b} : ~h[x].used => h[h[x].next].used \/ h[x].next = b
      <4>1. ASSUME NEW x \in Blk(h) \ {b}, ~h[x].used, x # b2 PROVE h[h[x].next].used \/ h[x].next = b
        <5>1. x \in Blk(heap) /\ ~heap[x].used /\ h[x].next = heap[x].next
          BY <3>3, <4>1, Zenon DEF Blk
        <5>2. heap[x].next \in DOMAIN heap
          BY <5>1, Zenon DEF Links
        <5> QED
          BY <3>3, <5>1, <5>2, Zenon DEF Alone, Typed
      <4> QED
        BY <3>3, <3>5, <4>1, ZenonT(30)
    <3> QED
      BY <1>2, <3>2, <3>3, <3>4, <3>6 DEF Blk
  <2>2. CASE ~Splits(b, n)
    <3>1. h = heap
      BY <1>3, <2>2, Zenon
    <3> QED
      BY <1>1, <1>2, <3>1, Zenon DEF Alone, Typed
  <2> QED
    BY <2>1, <2>2, Zenon
<1>5. /\ Typed(heap') /\ Links(heap') /\ DOMAIN heap' = DOMAIN h /\ heap'[b].used
      /\ \A x \in DOMAIN h : heap'[x].next = h[x].next /\ (x # b => heap'[x].used = h[x].used)
  <2>1. PICK v \in BOOLEAN : v = TRUE
    BY Zenon
  <2>2. heap' = Marks(h, b, v)
    BY <1>3, <2>1, Zenon DEF Take, Marks
  <2>3. /\ Typed(heap') /\ Links(heap') /\ DOMAIN heap' = DOMAIN h /\ heap'[b].used = v
        /\ \A x \in DOMAIN h : heap'[x].next = h[x].next /\ (x # b => heap'[x].used = h[x].used)
    BY ONLY <1>4, <2>2, v \in BOOLEAN, Marked
  <2> QED
    BY <2>1, <2>3, Zenon
<1>6. Blk(heap') = Blk(h) /\ Blk(heap) \subseteq Blk(h)
  BY <1>4, <1>5, Zenon DEF Blk
<1>7. Alone(heap', heap_end)
  <2>1. SUFFICES ASSUME NEW x \in Blk(heap'), ~heap'[x].used, ~heap'[heap'[x].next].used PROVE FALSE
    BY Zenon DEF Alone
  <2>2. x # b /\ x \in Blk(h) /\ x \in DOMAIN h /\ ~h[x].used /\ heap'[x].next = h[x].next
    BY <1>5, <1>6, <2>1, Zenon DEF Blk
  <2>3. h[x].next \in DOMAIN h
    BY <1>4, <2>2, Zenon DEF Links
  <2> QED
    BY <1>4, <1>5, <2>1, <2>2, <2>3, Zenon
<1>8. Stays(heap, heap', b)
  BY <1>4, <1>5, Zenon DEF Stays
<1>9. b \in Blk(heap') /\ DataSize(heap', b) >= n
  BY <1>4, <1>5, <1>6, Zenon DEF DataSize, Blk
<1>10. lfree' = IF b = lfree THEN Lowest(heap', lfree) ELSE lfree
  BY Zenon DEF Take
<1>11. lfree \in DOMAIN heap /\ lfree \in 0 .. heap_end /\ DOMAIN heap' \subseteq 0 .. heap_end
  BY <1>5, TypedFacts, Zenon DEF Free1
<1>12. CASE b = lfree
  <2>1. PICK S : S = {x \in DOMAIN heap' : lfree <= x /\ x # heap_end /\ ~heap'[x].used}
    BY Zenon
  <2>2. lfree' = IF S = {} THEN heap_end ELSE Min(S)
    BY <1>10, <1>12, <2>1, Zenon DEF Lowest
  <2>3. S \subseteq Nat
    BY <1>11, <2>1
  <2>4. IsLowest(heap, lfree) => \A x \in Blk(heap') : ~heap'[x].used => x \in S
    <3>1. SUFFICES ASSUME IsLowest(heap, lfree), NEW x \in Blk(heap'), ~heap'[x].used
                   PROVE  lfree <= x
      BY <2>1, Zenon DEF Blk
    <3>2. CASE x \in DOMAIN heap
      <4>1. x \in Blk(heap) /\ ~heap[x].used
        BY <1>4, <1>5, <3>1, <3>2, Zenon DEF Blk
      <4> QED
        BY <3>1, <4>1, Zenon DEF IsLowest
    <3>3. CASE x \notin DOMAIN heap
      BY <1>4, <1>5, <1>11, <1>12, <3>1, <3>3, TypedFacts DEF Blk
    <3> QED
      BY <3>2, <3>3, Zenon
  <2>5. CASE S = {}
    BY <1>5, <1>7, <1>8, <1>9, <1>1, <1>2, <2>2, <2>4, <2>5, TypedFacts, Zenon DEF Free1, IsLowest
  <2>6. CASE S # {}
    <3>1. Min(S) \in S /\ \A y \in S : Min(S) <= y
      BY <2>3, <2>6, MinProperty, Zenon
    <3>2. Free1(heap', lfree')
      BY <2>1, <2>2, <2>6, <3>1, Zenon DEF Free1
    <3>3. IsLowest(heap, lfree) => IsLowest(heap', lfree')
      BY <2>2, <2>4, <2>6, <3>1, Zenon DEF IsLowest
    <3> QED
      BY <1>1, <1>2, <1>5, <1>7, <1>8, <1>9, <3>2, <3>3, Zenon
  <2> QED
    BY <2>5, <2>6, Zenon
<1>13. CASE b # lfree
  <2>1. lfree' = lfree /\ Free1(heap', lfree')
    BY <1>4, <1>5, <1>10, <1>11, <1>13, Zenon DEF Free1
  <2>2. IsLowest(heap, lfree) => IsLowest(heap', lfree')
    <3>1. SUFFICES ASSUME IsLowest(heap, lfree), NEW x \in Blk(heap'), ~heap'[x].used
                   PROVE  lfree <= x
      BY <2>1, Zenon DEF IsLowest
    <3>2. CASE x \in DOMAIN heap
      <4>1. x \in Blk(heap) /\ ~heap[x].used
        BY <1>4, <1>5, <3>1, <3>2, <1>1, Zenon DEF Blk
      <4> QED
        BY <3>1, <4>1, Zenon DEF IsLowest
    <3>3. CASE x \notin DOMAIN heap
      <4>1. b < x /\ x \in 0 .. heap_end
        BY <1>4, <1>5, <1>11, <3>1, <3>3, Zenon DEF Blk
      <4> QED
        BY <1>1, <1>2, <1>11, <4>1
    <3> QED
      BY <3>2, <3>3, Zenon
  <2> QED
    BY <1>1, <1>2, <1>5, <1>7, <1>8, <1>9, <2>1, <2>2, Zenon
<1> QED
  BY <1>12, <1>13, Zenon

\* rt_free gives a used block back.
LEMMA GiveKeeps ==
  ASSUME HeapOK(heap, lfree), NEW b \in Blk(heap), heap[b].used, Give(b)
  PROVE  /\ HeapOK(heap', lfree') /\ Stays(heap, heap', b)
         /\ b \notin DOMAIN heap' \/ ~heap'[b].used
         /\ IsLowest(heap, lfree) => IsLowest(heap', lfree')
<1> USE DEF HeapOK
<1>1. PICK v \in BOOLEAN : v = FALSE
  BY Zenon
<1>2. PICK h, l : h = Marks(heap, b, v) /\ l = IF b < lfree THEN b ELSE lfree
  BY Zenon
<1>3. /\ Typed(h) /\ Links(h) /\ DOMAIN h = DOMAIN heap /\ ~h[b].used
      /\ \A x \in DOMAIN heap : h[x].next = heap[x].next /\ (x # b => h[x].used = heap[x].used)
  <2>1. Typed(heap) /\ Links(heap)
    BY Zenon
  <2>2. /\ Typed(h) /\ Links(h) /\ DOMAIN h = DOMAIN heap /\ h[b].used = v
        /\ \A x \in DOMAIN heap : h[x].next = heap[x].next /\ (x # b => h[x].used = heap[x].used)
    BY ONLY <1>2, <2>1, b \in Blk(heap), v \in BOOLEAN, Marked
  <2> QED
    BY <1>1, <2>2, Zenon
<1>4. b \in DOMAIN heap /\ b \in 0 .. heap_end /\ lfree \in 0 .. heap_end /\ b \in Blk(h)
  BY <1>3, TypedFacts, Zenon DEF Free1, Blk
<1>5. Free1(h, l) /\ l <= b /\ l <= lfree
  BY <1>2, <1>3, <1>4 DEF Free1
<1>6. Alone(h, b)
  <2>1. SUFFICES ASSUME NEW x \in Blk(h), ~h[x].used, ~h[h[x].next].used, x # b, h[x].next # b
                 PROVE  FALSE
    BY Zenon DEF Alone
  <2>2. x \in Blk(heap) /\ ~heap[x].used /\ h[x].next = heap[x].next /\ h[x].next \in DOMAIN heap
    BY <1>3, <2>1, Zenon DEF Blk, Links
  <2> QED
    BY <1>3, <2>1, <2>2, Zenon DEF Alone, Typed
<1>7. [heap |-> heap', lfree |-> lfree'] = plug_holes(h, l, b)
  <2>1. [heap EXCEPT ![b].used = FALSE] = h
    BY <1>1, <1>2, Zenon DEF Marks
  <2>2. heap' = plug_holes(h, l, b).heap /\ lfree' = plug_holes(h, l, b).lfree
    BY <1>2, <2>1, Zenon DEF Give
  <2> QED
    BY <2>2, Zenon DEF plug_holes, PluggedBackward
<1>8. /\ Typed(heap') /\ Links(heap') /\ Alone(heap', heap_end) /\ Free1(heap', lfree') /\ lfree' <= l
      /\ DOMAIN heap' \subseteq DOMAIN h /\ \A x \in DOMAIN heap' : heap'[x].used = h[x].used
      /\ \A x \in DOMAIN h : h[x].used => x \in DOMAIN heap' /\ heap'[x].next = h[x].next
  BY ONLY <1>3, <1>4, <1>5, <1>6, <1>7, PlugHoles
<1>9. Stays(heap, heap', b) /\ (b \notin DOMAIN heap' \/ ~heap'[b].used)
  BY <1>3, <1>8, Zenon DEF Stays
<1>10. ASSUME IsLowest(heap, lfree) PROVE IsLowest(heap', lfree')
  <2>1. SUFFICES ASSUME NEW x \in Blk(heap'), ~heap'[x].used PROVE lfree' <= x
    BY Zenon DEF IsLowest
  <2>2. x \in Blk(heap) /\ x \in 0 .. heap_end /\ ~h[x].used /\ lfree' \in Int /\ l \in Int
    BY <1>3, <1>5, <1>8, <2>1, TypedFacts DEF Blk, Free1
  <2>3. x = b \/ lfree <= x
    BY <1>3, <1>10, <2>2, Zenon DEF IsLowest, Blk
  <2> QED
    BY <1>4, <1>5, <1>8, <2>2, <2>3
<1> QED
  BY <1>8, <1>9, <1>10, Zenon

\* rt_realloc gives the end of a used block back.
LEMMA ShortenKeeps ==
  ASSUME HeapOK(heap, lfree), NEW b \in Blk(heap), heap[b].used, NEW n \in Nat, n > 0,
         Shortens(DataSize(heap, b), n),
         heap' = plug_holes(Linked(heap, b, Pointer(b) + n), lfree, Pointer(b) + n).heap,
         lfree' = plug_holes(Linked(heap, b, Pointer(b) + n), lfree, Pointer(b) + n).lfree
  PROVE  /\ HeapOK(heap', lfree') /\ Stays(heap, heap', b)
         /\ b \in Blk(heap') /\ heap'[b].used /\ DataSize(heap', b) = n /\ n <= DataSize(heap, b)
<1> USE DEF HeapOK
<1>1. PICK b2, h : b2 = Pointer(b) + n /\ h = Linked(heap, b, b2)
  BY Zenon
<1>2. /\ b \in 0 .. heap_end /\ heap[b].next \in 0 .. heap_end /\ b2 \in Int
      /\ Pointer(b) < b2 /\ Pointer(b2) < heap[b].next /\ b # heap[b].next /\ n <= DataSize(heap, b)
  BY <1>1, TypedFacts, EndFacts, SMTT(30) DEF Shortens, DataSize, Pointer, Blk
<1>3. /\ Typed(h) /\ Links(h) /\ b2 \notin DOMAIN heap /\ DOMAIN h = DOMAIN heap \cup {b2}
      /\ b2 \in Blk(h) /\ h[b].next = b2 /\ ~h[b2].used /\ h[b2].next = heap[b].next
      /\ \A x \in DOMAIN heap : h[x].used = heap[x].used /\ (x # b => h[x].next = heap[x].next)
  <2>1. Typed(heap) /\ Links(heap)
    BY Zenon
  <2> QED
    BY ONLY <1>1, <1>2, <2>1, b \in Blk(heap), LinkedLinks, SMTT(30)
<1>4. b \in DOMAIN heap /\ b # b2
  BY <1>3, Zenon DEF Blk
<1>5. Free1(h, lfree)
  BY <1>3, Zenon DEF Free1
<1>6. Alone(h, b2)
  <2>1. SUFFICES ASSUME NEW x \in Blk(h), ~h[x].used, ~h[h[x].next].used, x # b2, h[x].next # b2
                 PROVE  FALSE
    BY Zenon DEF Alone
  <2>2. x \in Blk(heap) /\ x # b
    BY <1>3, <2>1, Zenon DEF Blk
  <2>3. ~heap[x].used /\ h[x].next = heap[x].next /\ h[x].next \in DOMAIN heap
    BY <1>3, <2>1, <2>2, Zenon DEF Blk, Links
  <2> QED
    BY <1>3, <2>1, <2>2, <2>3, ZenonT(30) DEF Alone, Typed
<1>7. [heap |-> heap', lfree |-> lfree'] = plug_holes(h, lfree, b2)
  <2>1. heap' = plug_holes(h, lfree, b2).heap /\ lfree' = plug_holes(h, lfree, b2).lfree
    BY <1>1, Zenon
  <2> QED
    BY <2>1, Zenon DEF plug_holes, PluggedBackward
<1>8. /\ Typed(heap') /\ Links(heap') /\ Alone(heap', heap_end) /\ Free1(heap', lfree')
      /\ DOMAIN heap' \subseteq DOMAIN h /\ \A x \in DOMAIN heap' : heap'[x].used = h[x].used
      /\ \A x \in DOMAIN h : h[x].used => x \in DOMAIN heap' /\ heap'[x].next = h[x].next
  BY ONLY <1>3, <1>5, <1>6, <1>7, PlugHoles, SMTT(30)
<1>9. Stays(heap, heap', b)
  BY <1>3, <1>8 DEF Stays
<1>10. b \in Blk(heap') /\ heap'[b].used /\ heap'[b].next = b2
  BY <1>3, <1>4, <1>8, Zenon DEF Blk
<1>11. DataSize(heap', b) = n
  BY <1>1, <1>2, <1>10, EndFacts, SMTT(30) DEF DataSize, Pointer
<1> QED
  BY <1>2, <1>8, <1>9, <1>10, <1>11, Zenon

-----------------------------------------------------------------------------
\* The used blocks are the ones the callers hold, and large enough for them.
OwnInv ==
  /\ asked \in [DOMAIN asked -> Sizes] /\ DOMAIN asked \subseteq 0 .. heap_end - 1
  /\ \A p \in DOMAIN asked : /\ HeaderOf(p) \in Blk(heap) /\ heap[HeaderOf(p)].used
                             /\ asked[p] <= DataSize(heap, HeaderOf(p))
  /\ \A b \in Blk(heap) : heap[b].used => Pointer(b) \in DOMAIN asked

\* The pointers a client in rt_realloc holds.
Held(c) == {moving[c].rmem, moving[c].nmem} \ {None}

\* A client in rt_realloc holds the block it moves and then the new one, no
\* other client does, and what it knows of their sizes stays true.
MoveInv ==
  /\ moving \in [Clients -> [rmem : 0 .. heap_end, nmem : 0 .. heap_end,
                             size : 0 .. mem_size_aligned, newsize : 0 .. mem_size_aligned]]
  /\ \A c \in Clients :
       /\ Held(c) \subseteq DOMAIN asked
       /\ moving[c].rmem # None => /\ moving[c].size = DataSize(heap, HeaderOf(moving[c].rmem))
                                   /\ moving[c].newsize \in Sizes
       /\ moving[c].nmem # None =>
            /\ moving[c].rmem \notin {None, moving[c].nmem}
            /\ moving[c].newsize <= DataSize(heap, HeaderOf(moving[c].nmem))
       /\ \A d \in Clients \ {c} : Held(c) \cap Held(d) = {}

MemInv ==
  /\ HeapOK(heap, lfree) /\ (~shrunk => IsLowest(heap, lfree)) /\ shrunk \in BOOLEAN
  /\ OwnInv /\ MoveInv

LEMMA BlockFacts ==
  ASSUME NEW h, Typed(h), Links(h), NEW b \in Blk(h)
  PROVE  /\ b \in 0 .. heap_end /\ h[b].next \in 0 .. heap_end /\ Pointer(b) < h[b].next
         /\ DataSize(h, b) \in 1 .. mem_size_aligned /\ Pointer(b) \in 0 .. heap_end - 1
         /\ HeaderOf(Pointer(b)) = b /\ h[b].next = Pointer(b) + DataSize(h, b)
         /\ \A x \in Blk(h) : x # b => h[x].next <= b \/ h[b].next <= x
BY TypedFacts, EndFacts DEF Links, DataSize, Pointer, HeaderOf, Blk

\* A step that touches at most the block b leaves the other callers' blocks.
LEMMA OthersStay ==
  ASSUME HeapOK(heap, lfree), HeapOK(heap', lfree'), OwnInv, NEW b, Stays(heap, heap', b),
         NEW q \in DOMAIN asked, HeaderOf(q) # b
  PROVE  /\ HeaderOf(q) \in Blk(heap') /\ heap'[HeaderOf(q)].used
         /\ DataSize(heap', HeaderOf(q)) = DataSize(heap, HeaderOf(q))
BY Zenon DEF HeapOK, OwnInv, Stays, DataSize, Blk

LEMMA PointerHeader ==
  ASSUME NEW p \in Int, NEW b \in Int
  PROVE  /\ Pointer(HeaderOf(p)) = p /\ HeaderOf(Pointer(b)) = b
         /\ p = Pointer(b) <=> HeaderOf(p) = b
BY EndFacts DEF Pointer, HeaderOf

\* rt_malloc adds a block to those of the callers.
LEMMA OwnTaken ==
  ASSUME HeapOK(heap, lfree), OwnInv, HeapOK(heap', lfree'), NEW b, Stays(heap, heap', b),
         b \in Blk(heap), ~heap[b].used, b \in Blk(heap'), heap'[b].used,
         NEW n \in Sizes, n <= DataSize(heap', b),
         asked' = [p \in DOMAIN asked \cup {Pointer(b)} |-> IF p \in DOMAIN asked THEN asked[p] ELSE n]
  PROVE  /\ OwnInv' /\ Pointer(b) \notin DOMAIN asked /\ DOMAIN asked' = DOMAIN asked \cup {Pointer(b)}
         /\ \A q \in DOMAIN asked : asked'[q] = asked[q]
                                    /\ DataSize(heap', HeaderOf(q)) = DataSize(heap, HeaderOf(q))
         /\ asked'[Pointer(b)] = n
<1>1. b \in Int /\ Pointer(b) \in 0 .. heap_end - 1 /\ HeaderOf(Pointer(b)) = b
  BY ONLY HeapOK(heap, lfree), b \in Blk(heap), BlockFacts, EndFacts, SMTT(30) DEF HeapOK
<1>2. \A q \in DOMAIN asked : q \in Int /\ HeaderOf(q) # b
  BY EndFacts DEF OwnInv
<1>3. Pointer(b) \notin DOMAIN asked
  BY <1>1, <1>2, Zenon
<1>4. \A q \in DOMAIN asked : /\ HeaderOf(q) \in Blk(heap') /\ heap'[HeaderOf(q)].used
                              /\ DataSize(heap', HeaderOf(q)) = DataSize(heap, HeaderOf(q))
  BY <1>2, OthersStay, Zenon
<1>5. /\ DOMAIN asked' = DOMAIN asked \cup {Pointer(b)} /\ asked'[Pointer(b)] = n
      /\ \A q \in DOMAIN asked : asked'[q] = asked[q]
  BY <1>3, Zenon
<1>6. asked' \in [DOMAIN asked' -> Sizes] /\ DOMAIN asked' \subseteq 0 .. heap_end - 1
  BY <1>1, <1>5, Zenon DEF OwnInv
<1>7. ASSUME NEW p \in DOMAIN asked'
      PROVE  /\ HeaderOf(p) \in Blk(heap') /\ heap'[HeaderOf(p)].used
             /\ asked'[p] <= DataSize(heap', HeaderOf(p))
  BY <1>1, <1>4, <1>5, Zenon DEF OwnInv
<1>8. ASSUME NEW x \in Blk(heap'), heap'[x].used PROVE Pointer(x) \in DOMAIN asked'
  <2>1. CASE x = b
    BY <1>5, <2>1, Zenon
  <2>2. CASE x # b
    <3>1. x \in Blk(heap) /\ heap[x].used
      BY <1>8, <2>2, Zenon DEF Stays, Blk
    <3> QED
      BY <1>5, <3>1, Zenon DEF OwnInv
  <2> QED
    BY <2>1, <2>2, Zenon
<1>9. OwnInv'
  BY ONLY <1>6, <1>7, <1>8, Zenon DEF OwnInv, Blk, DataSize, HeaderOf, Pointer, heap_end, Sizes
<1> QED
  BY <1>3, <1>4, <1>5, <1>9, Zenon

\* rt_free takes a block from those of the callers.
LEMMA OwnGiven ==
  ASSUME HeapOK(heap, lfree), OwnInv, HeapOK(heap', lfree'), NEW r \in DOMAIN asked,
         Stays(heap, heap', HeaderOf(r)),
         HeaderOf(r) \notin DOMAIN heap' \/ ~heap'[HeaderOf(r)].used,
         asked' = [q \in DOMAIN asked \ {r} |-> asked[q]]
  PROVE  /\ OwnInv' /\ DOMAIN asked' = DOMAIN asked \ {r}
         /\ \A q \in DOMAIN asked' : asked'[q] = asked[q]
                                     /\ DataSize(heap', HeaderOf(q)) = DataSize(heap, HeaderOf(q))
<1>1. /\ DOMAIN asked' = DOMAIN asked \ {r} /\ \A q \in DOMAIN asked' : asked'[q] = asked[q]
      /\ asked' \in [DOMAIN asked' -> Sizes] /\ DOMAIN asked' \subseteq 0 .. heap_end - 1
  BY Zenon DEF OwnInv
<1>2. \A q \in DOMAIN asked' : HeaderOf(q) # HeaderOf(r)
  BY <1>1, EndFacts DEF OwnInv, HeaderOf
<1>3. \A q \in DOMAIN asked' : /\ HeaderOf(q) \in Blk(heap') /\ heap'[HeaderOf(q)].used
                               /\ DataSize(heap', HeaderOf(q)) = DataSize(heap, HeaderOf(q))
  BY <1>1, <1>2, OthersStay, Zenon
<1>4. ASSUME NEW p \in DOMAIN asked'
      PROVE  /\ HeaderOf(p) \in Blk(heap') /\ heap'[HeaderOf(p)].used
             /\ asked'[p] <= DataSize(heap', HeaderOf(p))
  BY <1>1, <1>3, Zenon DEF OwnInv
<1>5. ASSUME NEW x \in Blk(heap'), heap'[x].used PROVE Pointer(x) \in DOMAIN asked'
  <2>1. x # HeaderOf(r) /\ x \in Blk(heap) /\ heap[x].used
    BY <1>5, Zenon DEF Stays, Blk
  <2>2. x \in Int /\ r \in Int
    <3>1. x \in 0 .. heap_end
      BY ONLY HeapOK(heap, lfree), <2>1, BlockFacts, Zenon DEF HeapOK
    <3> QED
      BY <3>1, EndFacts DEF OwnInv
  <2> QED
    BY <1>1, <2>1, <2>2, PointerHeader, Zenon DEF OwnInv
<1>6. OwnInv'
  BY ONLY <1>1, <1>4, <1>5, Zenon DEF OwnInv, Blk, DataSize, HeaderOf, Pointer, heap_end, Sizes
<1> QED
  BY <1>1, <1>3, <1>6, Zenon

\* rt_realloc shortens a block of a caller.
LEMMA OwnShortened ==
  ASSUME HeapOK(heap, lfree), OwnInv, HeapOK(heap', lfree'), NEW r \in DOMAIN asked, NEW n \in Sizes,
         Stays(heap, heap', HeaderOf(r)), HeaderOf(r) \in Blk(heap'), heap'[HeaderOf(r)].used,
         DataSize(heap', HeaderOf(r)) = n, asked' = [asked EXCEPT ![r] = n]
  PROVE  /\ OwnInv' /\ DOMAIN asked' = DOMAIN asked /\ asked'[r] = n
         /\ \A q \in DOMAIN asked \ {r} : asked'[q] = asked[q]
                                     /\ DataSize(heap', HeaderOf(q)) = DataSize(heap, HeaderOf(q))
<1>1. /\ DOMAIN asked' = DOMAIN asked /\ \A q \in DOMAIN asked \ {r} : asked'[q] = asked[q]
      /\ asked' \in [DOMAIN asked' -> Sizes] /\ asked'[r] = n /\ DOMAIN asked' \subseteq 0 .. heap_end - 1
  BY Zenon DEF OwnInv
<1>2. \A q \in DOMAIN asked \ {r} : HeaderOf(q) # HeaderOf(r)
  BY EndFacts DEF OwnInv, HeaderOf
<1>3. \A q \in DOMAIN asked \ {r} : /\ HeaderOf(q) \in Blk(heap') /\ heap'[HeaderOf(q)].used
                               /\ DataSize(heap', HeaderOf(q)) = DataSize(heap, HeaderOf(q))
  BY <1>2, OthersStay, Zenon
<1>4. ASSUME NEW p \in DOMAIN asked'
      PROVE  /\ HeaderOf(p) \in Blk(heap') /\ heap'[HeaderOf(p)].used
             /\ asked'[p] <= DataSize(heap', HeaderOf(p))
  <2>1. CASE p = r
    BY <1>1, <2>1, EndFacts DEF Sizes
  <2>2. CASE p # r
    BY <1>1, <1>3, <2>2, Zenon DEF OwnInv
  <2> QED
    BY <2>1, <2>2, Zenon
<1>5. ASSUME NEW x \in Blk(heap'), heap'[x].used PROVE Pointer(x) \in DOMAIN asked'
  <2>1. CASE x = HeaderOf(r)
    <3>1. r \in Int
      BY EndFacts DEF OwnInv
    <3> QED
      BY <1>1, <2>1, <3>1, PointerHeader, Zenon
  <2>2. CASE x # HeaderOf(r)
    <3>1. x \in Blk(heap) /\ heap[x].used
      BY <1>5, <2>2, Zenon DEF Stays, Blk
    <3> QED
      BY <1>1, <3>1, Zenon DEF OwnInv
  <2> QED
    BY <2>1, <2>2, Zenon
<1>6. OwnInv'
  BY ONLY <1>1, <1>4, <1>5, Zenon DEF OwnInv, Blk, DataSize, HeaderOf, Pointer, heap_end, Sizes
<1> QED
  BY <1>1, <1>3, <1>6, Zenon

-----------------------------------------------------------------------------
\* The sizes of the blocks that are handed out, as Heap sees them.
SizeBar == [p \in DOMAIN asked |-> DataSize(heap, HeaderOf(p))]

\* rt_malloc allocates, in the sense of Heap.
LEMMA StepTake ==
  ASSUME MemInv, NEW n \in Sizes, NEW b, b = Min(Candidates(AtLeastMin(n))),
         Candidates(AtLeastMin(n)) # {}, Take(b, AtLeastMin(n)), UNCHANGED shrunk,
         asked' = [p \in DOMAIN asked \cup {Pointer(b)} |-> IF p \in DOMAIN asked THEN asked[p] ELSE n]
  PROVE  /\ HeapOK(heap', lfree') /\ (~shrunk' => IsLowest(heap', lfree')) /\ OwnInv'
         /\ Pointer(b) \in 0 .. heap_end - 1 /\ n <= DataSize(heap', HeaderOf(Pointer(b)))
         /\ Pointer(b) \notin DOMAIN asked /\ DOMAIN asked' = DOMAIN asked \cup {Pointer(b)}
         /\ \A q \in DOMAIN asked : DataSize(heap', HeaderOf(q)) = DataSize(heap, HeaderOf(q))
         /\ Abstract!Next
<1> DEFINE m == AtLeastMin(n)
<1>1. m \in Nat /\ m > 0 /\ n <= m /\ n \in Nat
  BY EndFacts DEF AtLeastMin, Sizes
<1>2. b \in Candidates(m)
  <2>1. Candidates(m) \subseteq DOMAIN heap /\ DOMAIN heap \subseteq Nat
    BY TypedFacts DEF Candidates, MemInv, HeapOK
  <2> QED
    BY <2>1, MinProperty, Zenon
<1> HIDE DEF m
<1>3. HeapOK(heap, lfree) /\ OwnInv
  BY Zenon DEF MemInv
<1>4. /\ HeapOK(heap', lfree') /\ Stays(heap, heap', b)
      /\ b \in Blk(heap) /\ ~heap[b].used
      /\ b \in Blk(heap') /\ heap'[b].used /\ DataSize(heap', b) >= m
      /\ IsLowest(heap, lfree) => IsLowest(heap', lfree')
  <2>1. Take(b, m)
    BY Zenon DEF m
  <2> QED
    BY ONLY <1>1, <1>2, <1>3, <2>1, TakeKeeps, Zenon
<1>5. /\ Pointer(b) \in 0 .. heap_end - 1 /\ HeaderOf(Pointer(b)) = b /\ b \in 0 .. heap_end
      /\ DataSize(heap', b) \in 1 .. mem_size_aligned
      /\ heap'[b].next = Pointer(b) + DataSize(heap', b) /\ heap'[b].next \in 0 .. heap_end
      /\ \A x \in Blk(heap') : x # b => heap'[x].next <= b \/ heap'[b].next <= x
  BY ONLY <1>4, BlockFacts, Zenon DEF HeapOK
<1>6. n <= DataSize(heap', b)
  BY <1>1, <1>4, <1>5
<1>7. /\ OwnInv' /\ Pointer(b) \notin DOMAIN asked /\ DOMAIN asked' = DOMAIN asked \cup {Pointer(b)}
      /\ \A q \in DOMAIN asked : asked'[q] = asked[q]
                                 /\ DataSize(heap', HeaderOf(q)) = DataSize(heap, HeaderOf(q))
      /\ asked'[Pointer(b)] = n
  BY <1>3, <1>4, <1>6, OwnTaken, Zenon
<1>8. ASSUME NEW q \in DOMAIN asked
      PROVE  Abstract!Apart(Pointer(b), DataSize(heap', b), q, DataSize(heap, HeaderOf(q)))
  <2>1. PICK x : x = HeaderOf(q)
    BY Zenon
  <2>2. x \in Blk(heap) /\ ~(x = b) /\ q \in Int
    BY <1>4, <2>1, EndFacts DEF MemInv, OwnInv
  <2>3. x \in Blk(heap') /\ DataSize(heap', x) = DataSize(heap, x)
    BY <1>3, <1>4, <2>1, <2>2, OthersStay, Zenon
  <2>4. /\ x \in 0 .. heap_end /\ heap'[x].next = Pointer(x) + DataSize(heap', x)
        /\ DataSize(heap', x) \in 1 .. mem_size_aligned /\ heap'[x].next \in 0 .. heap_end
    BY ONLY <1>4, <2>3, BlockFacts, Zenon DEF HeapOK
  <2>5. Pointer(x) = q
    BY <2>1, <2>2, EndFacts DEF Pointer, HeaderOf
  <2>6. heap'[x].next <= b \/ heap'[b].next <= x
    BY <1>5, <2>2, <2>3, Zenon
  <2>7. q + DataSize(heap, x) <= Pointer(b) \/ Pointer(b) + DataSize(heap', b) <= q
    BY <1>5, <2>2, <2>3, <2>4, <2>5, <2>6, EndFacts, SMTT(30) DEF Pointer
  <2> QED
    BY <2>1, <2>7, Zenon DEF Abstract!Apart
<1>9. Abstract!Allocate(Pointer(b))
  <2>1. /\ SizeBar' = [p \in DOMAIN asked' |-> DataSize(heap', HeaderOf(p))]
        /\ DOMAIN SizeBar = DOMAIN asked /\ DOMAIN SizeBar' = DOMAIN asked'
        /\ \A q \in DOMAIN asked : SizeBar[q] = DataSize(heap, HeaderOf(q))
        /\ SizeBar'[Pointer(b)] = DataSize(heap', b)
        /\ \A q \in DOMAIN asked : SizeBar'[q] = DataSize(heap', HeaderOf(q))
    BY <1>5, <1>7, Zenon DEF SizeBar, DataSize, HeaderOf
  <2>2. /\ Pointer(b) \in DOMAIN SizeBar' \ DOMAIN SizeBar /\ Pointer(b) \in DOMAIN asked'
        /\ DOMAIN SizeBar' \ {Pointer(b)} = DOMAIN SizeBar \ {Pointer(b)}
        /\ DOMAIN asked' \ {Pointer(b)} = DOMAIN asked \ {Pointer(b)}
        /\ \A q \in DOMAIN SizeBar \ {Pointer(b)} : SizeBar'[q] = SizeBar[q] /\ asked'[q] = asked[q]
    BY <1>7, <2>1, Zenon
  <2>3. /\ asked'[Pointer(b)] <= SizeBar'[Pointer(b)]
        /\ Pointer(b) \in 0 .. heap_end /\ Pointer(b) + SizeBar'[Pointer(b)] \in 0 .. heap_end
    BY <1>5, <1>6, <1>7, <2>1, EndFacts, SMTT(20)
  <2>4. \A q \in DOMAIN SizeBar : Abstract!Apart(Pointer(b), SizeBar'[Pointer(b)], q, SizeBar[q])
    BY <1>8, <2>1, Zenon
  <2> QED
    BY <2>2, <2>3, <2>4, Zenon DEF Abstract!Allocate, Abstract!Others, SizeBar
<1>10. Abstract!Next
  <2>1. Pointer(b) \in 0 .. heap_end
    BY <1>5, EndFacts
  <2> QED
    BY <1>9, <2>1, Zenon DEF Abstract!Next
<1> QED
  BY <1>4, <1>5, <1>6, <1>7, <1>10, Zenon DEF MemInv

\* rt_free releases, in the sense of Heap.
LEMMA StepGive ==
  ASSUME MemInv, NEW r \in DOMAIN asked, Give(HeaderOf(r)), UNCHANGED shrunk,
         asked' = [q \in DOMAIN asked \ {r} |-> asked[q]]
  PROVE  /\ HeapOK(heap', lfree') /\ (~shrunk' => IsLowest(heap', lfree')) /\ OwnInv'
         /\ DOMAIN asked' = DOMAIN asked \ {r}
         /\ \A q \in DOMAIN asked \ {r} : DataSize(heap', HeaderOf(q)) = DataSize(heap, HeaderOf(q))
         /\ Abstract!Next
<1>1. HeapOK(heap, lfree) /\ OwnInv
  BY Zenon DEF MemInv
<1>2. HeaderOf(r) \in Blk(heap) /\ heap[HeaderOf(r)].used /\ r \in 0 .. heap_end
  BY <1>1, EndFacts DEF OwnInv
<1>3. /\ HeapOK(heap', lfree') /\ Stays(heap, heap', HeaderOf(r))
      /\ HeaderOf(r) \notin DOMAIN heap' \/ ~heap'[HeaderOf(r)].used
      /\ IsLowest(heap, lfree) => IsLowest(heap', lfree')
  BY <1>1, <1>2, GiveKeeps, Zenon
<1>4. /\ OwnInv' /\ DOMAIN asked' = DOMAIN asked \ {r}
      /\ \A q \in DOMAIN asked' : asked'[q] = asked[q]
                                  /\ DataSize(heap', HeaderOf(q)) = DataSize(heap, HeaderOf(q))
  BY <1>1, <1>3, OwnGiven, Zenon
<1>5. /\ DOMAIN SizeBar = DOMAIN asked /\ DOMAIN SizeBar' = DOMAIN asked'
      /\ \A q \in DOMAIN asked : SizeBar[q] = DataSize(heap, HeaderOf(q))
      /\ \A q \in DOMAIN asked' : SizeBar'[q] = DataSize(heap', HeaderOf(q))
  BY Zenon DEF SizeBar, DataSize, HeaderOf
<1>6. /\ r \in DOMAIN SizeBar /\ r \notin DOMAIN SizeBar' /\ r \notin DOMAIN asked'
      /\ DOMAIN SizeBar' \ {r} = DOMAIN SizeBar \ {r} /\ DOMAIN asked' \ {r} = DOMAIN asked \ {r}
      /\ \A q \in DOMAIN SizeBar \ {r} : SizeBar'[q] = SizeBar[q] /\ asked'[q] = asked[q]
  BY <1>4, <1>5, Zenon
<1>7. Abstract!Release(r)
  BY <1>6, Zenon DEF Abstract!Release, Abstract!Others, SizeBar
<1> QED
  BY <1>2, <1>3, <1>4, <1>7, Zenon DEF MemInv, Abstract!Next

\* rt_realloc to a smaller size shortens, in the sense of Heap.
LEMMA StepShorten ==
  ASSUME MemInv, NEW r \in DOMAIN asked, NEW n \in Sizes, ReallocShorten(r, n)
  PROVE  /\ HeapOK(heap', lfree') /\ OwnInv' /\ shrunk' = TRUE
         /\ DOMAIN asked' = DOMAIN asked
         /\ \A q \in DOMAIN asked \ {r} : DataSize(heap', HeaderOf(q)) = DataSize(heap, HeaderOf(q))
         /\ Abstract!Next
<1>1. HeapOK(heap, lfree) /\ OwnInv
  BY Zenon DEF MemInv
<1>2. HeaderOf(r) \in Blk(heap) /\ heap[HeaderOf(r)].used /\ r \in 0 .. heap_end /\ r \in Int
  BY <1>1, EndFacts DEF OwnInv
<1>3. n \in Nat /\ n > 0 /\ Pointer(HeaderOf(r)) = r
  BY <1>2, PointerHeader, EndFacts DEF Sizes, Pointer, HeaderOf
<1>4. /\ Shortens(DataSize(heap, HeaderOf(r)), n)
      /\ heap' = plug_holes(Linked(heap, HeaderOf(r), Pointer(HeaderOf(r)) + n), lfree, Pointer(HeaderOf(r)) + n).heap
      /\ lfree' = plug_holes(Linked(heap, HeaderOf(r), Pointer(HeaderOf(r)) + n), lfree, Pointer(HeaderOf(r)) + n).lfree
      /\ asked' = [asked EXCEPT ![r] = n] /\ shrunk' = TRUE
  BY <1>3, Zenon DEF ReallocShorten
<1>5. /\ HeapOK(heap', lfree') /\ Stays(heap, heap', HeaderOf(r))
      /\ HeaderOf(r) \in Blk(heap') /\ heap'[HeaderOf(r)].used /\ DataSize(heap', HeaderOf(r)) = n
      /\ n <= DataSize(heap, HeaderOf(r))
  BY ONLY <1>1, <1>2, <1>3, <1>4, ShortenKeeps, Zenon
<1>6. /\ OwnInv' /\ DOMAIN asked' = DOMAIN asked /\ asked'[r] = n
      /\ \A q \in DOMAIN asked \ {r} : asked'[q] = asked[q]
                                  /\ DataSize(heap', HeaderOf(q)) = DataSize(heap, HeaderOf(q))
  BY <1>1, <1>4, <1>5, OwnShortened, Zenon
<1>7. /\ DOMAIN SizeBar = DOMAIN asked /\ DOMAIN SizeBar' = DOMAIN asked'
      /\ \A q \in DOMAIN asked : SizeBar[q] = DataSize(heap, HeaderOf(q))
      /\ \A q \in DOMAIN asked' : SizeBar'[q] = DataSize(heap', HeaderOf(q))
  BY Zenon DEF SizeBar, DataSize, HeaderOf
<1>8. /\ r \in DOMAIN SizeBar \cap DOMAIN SizeBar' \cap DOMAIN asked'
      /\ DOMAIN SizeBar' \ {r} = DOMAIN SizeBar \ {r} /\ DOMAIN asked' \ {r} = DOMAIN asked \ {r}
      /\ \A q \in DOMAIN SizeBar \ {r} : SizeBar'[q] = SizeBar[q] /\ asked'[q] = asked[q]
      /\ asked'[r] <= SizeBar'[r] /\ SizeBar'[r] <= SizeBar[r]
  <2>1. DOMAIN SizeBar = DOMAIN asked /\ DOMAIN SizeBar' = DOMAIN asked /\ DOMAIN asked' = DOMAIN asked
    BY ONLY <1>6, <1>7, Zenon
  <2>2. \A q \in DOMAIN asked \ {r} : SizeBar'[q] = SizeBar[q] /\ asked'[q] = asked[q]
    BY ONLY <1>6, <1>7, Zenon
  <2>3. asked'[r] = n /\ SizeBar'[r] = n /\ SizeBar[r] = DataSize(heap, HeaderOf(r))
    BY <1>5, <1>6, <1>7, Zenon
  <2>4. n <= n /\ n <= DataSize(heap, HeaderOf(r))
    BY <1>3, <1>5
  <2> QED
    BY <2>1, <2>2, <2>3, <2>4, Zenon
<1>9. Abstract!Shorten(r)
  BY <1>8, Zenon DEF Abstract!Shorten, Abstract!Others, SizeBar
<1> QED
  BY <1>2, <1>4, <1>5, <1>6, <1>9, Zenon DEF Abstract!Next

\* A step that leaves the locals and the blocks of the clients in rt_realloc.
LEMMA MoveStays ==
  ASSUME MoveInv, moving' = moving,
         \A c \in Clients : \A q \in Held(c) :
           q \in DOMAIN asked' /\ DataSize(heap', HeaderOf(q)) = DataSize(heap, HeaderOf(q))
  PROVE  MoveInv'
<1>1. \A c \in Clients : Held(c)' = Held(c)
  BY Zenon DEF Held
<1>2. ASSUME NEW c \in Clients
      PROVE  /\ Held(c)' \subseteq DOMAIN asked'
             /\ moving'[c].rmem # None =>
                  /\ moving'[c].size = DataSize(heap', HeaderOf(moving'[c].rmem))
                  /\ moving'[c].newsize \in Sizes
             /\ moving'[c].nmem # None =>
                  /\ moving'[c].rmem \notin {None, moving'[c].nmem}
                  /\ moving'[c].newsize <= DataSize(heap', HeaderOf(moving'[c].nmem))
             /\ \A d \in Clients \ {c} : Held(c)' \cap Held(d)' = {}
  <2>1. /\ moving[c].rmem # None => moving[c].rmem \in Held(c)
        /\ moving[c].nmem # None => moving[c].nmem \in Held(c)
    BY Zenon DEF Held
  <2> QED
    BY <1>1, <2>1, Zenon DEF MoveInv
<1> QED
  BY ONLY <1>2, MoveInv, moving' = moving, Zenon
     DEF MoveInv, Held, None, Sizes, DataSize, HeaderOf, heap_end

LEMMA NotInUse ==
  ASSUME NEW p \in DOMAIN asked, ~InUse(p)
  PROVE  \A c \in Clients : p \notin Held(c)
BY Zenon DEF InUse, Held

\* Each operation keeps MemInv and is a step of Heap.
LEMMA StepMalloc ==
  ASSUME MemInv, NEW n \in Sizes, Malloc(n)
  PROVE  MemInv' /\ Abstract!Next
<1>1. PICK b : b = Min(Candidates(AtLeastMin(n)))
  BY Zenon
<1>2. /\ Candidates(AtLeastMin(n)) # {} /\ Take(b, AtLeastMin(n)) /\ UNCHANGED <<moving, shrunk>>
      /\ asked' = [p \in DOMAIN asked \cup {Pointer(b)} |-> IF p \in DOMAIN asked THEN asked[p] ELSE n]
  BY <1>1, Zenon DEF Malloc
<1>3. /\ HeapOK(heap', lfree') /\ (~shrunk' => IsLowest(heap', lfree')) /\ OwnInv'
      /\ DOMAIN asked' = DOMAIN asked \cup {Pointer(b)}
      /\ \A q \in DOMAIN asked : DataSize(heap', HeaderOf(q)) = DataSize(heap, HeaderOf(q))
      /\ Abstract!Next
  BY <1>1, <1>2, StepTake, Zenon
<1>4. \A c \in Clients : Held(c) \subseteq DOMAIN asked
  BY Zenon DEF MemInv, MoveInv
<1>5. MoveInv'
  BY <1>2, <1>3, <1>4, MoveStays, Zenon DEF MemInv
<1> QED
  BY <1>2, <1>3, <1>5, Zenon DEF MemInv

LEMMA StepFree ==
  ASSUME MemInv, NEW p \in DOMAIN asked, Free(p)
  PROVE  MemInv' /\ Abstract!Next
<1>1. /\ ~InUse(p) /\ Give(HeaderOf(p)) /\ UNCHANGED <<moving, shrunk>>
      /\ asked' = [q \in DOMAIN asked \ {p} |-> asked[q]]
  BY Zenon DEF Free
<1>2. /\ HeapOK(heap', lfree') /\ (~shrunk' => IsLowest(heap', lfree')) /\ OwnInv'
      /\ DOMAIN asked' = DOMAIN asked \ {p}
      /\ \A q \in DOMAIN asked \ {p} : DataSize(heap', HeaderOf(q)) = DataSize(heap, HeaderOf(q))
      /\ Abstract!Next
  BY <1>1, StepGive, Zenon
<1>3. \A c \in Clients : Held(c) \subseteq DOMAIN asked \ {p}
  BY <1>1, NotInUse, Zenon DEF MemInv, MoveInv
<1>4. MoveInv'
  BY <1>1, <1>2, <1>3, MoveStays, Zenon DEF MemInv
<1> QED
  BY <1>1, <1>2, <1>4, Zenon DEF MemInv

LEMMA StepReallocShorten ==
  ASSUME MemInv, NEW p \in DOMAIN asked, NEW n \in Sizes, ReallocShorten(p, n)
  PROVE  MemInv' /\ Abstract!Next
<1>1. ~InUse(p) /\ moving' = moving
  BY Zenon DEF ReallocShorten
<1>2. /\ HeapOK(heap', lfree') /\ OwnInv' /\ shrunk' = TRUE
      /\ DOMAIN asked' = DOMAIN asked
      /\ \A q \in DOMAIN asked \ {p} : DataSize(heap', HeaderOf(q)) = DataSize(heap, HeaderOf(q))
      /\ Abstract!Next
  BY StepShorten, Zenon
<1>3. \A c \in Clients : Held(c) \subseteq DOMAIN asked \ {p}
  BY <1>1, NotInUse, Zenon DEF MemInv, MoveInv
<1>4. MoveInv'
  BY <1>1, <1>2, <1>3, MoveStays, Zenon DEF MemInv
<1> QED
  BY <1>1, <1>2, <1>4, Zenon DEF MemInv

\* The step of one client that changes only its own locals and perhaps adds
\* or takes one pointer.
LEMMA MoveChanges ==
  ASSUME MoveInv, NEW c \in Clients,
         NEW m \in [rmem : 0 .. heap_end, nmem : 0 .. heap_end,
                    size : 0 .. mem_size_aligned, newsize : 0 .. mem_size_aligned],
         moving' = [moving EXCEPT ![c] = m],
         \A d \in Clients \ {c} : \A q \in Held(d) :
           /\ q \in DOMAIN asked' /\ q \notin {m.rmem, m.nmem}
           /\ DataSize(heap', HeaderOf(q)) = DataSize(heap, HeaderOf(q)),
         {m.rmem, m.nmem} \ {None} \subseteq DOMAIN asked',
         m.rmem # None => m.size = DataSize(heap', HeaderOf(m.rmem)) /\ m.newsize \in Sizes,
         m.nmem # None => /\ m.rmem \notin {None, m.nmem}
                          /\ m.newsize <= DataSize(heap', HeaderOf(m.nmem))
  PROVE  MoveInv'
<1>1. moving'[c] = m /\ \A d \in Clients \ {c} : moving'[d] = moving[d]
  BY Zenon DEF MoveInv
<1>2. moving' \in [Clients -> [rmem : 0 .. heap_end, nmem : 0 .. heap_end,
                               size : 0 .. mem_size_aligned, newsize : 0 .. mem_size_aligned]]
  BY Zenon DEF MoveInv
<1>3. /\ Held(c)' = {m.rmem, m.nmem} \ {None}
      /\ \A d \in Clients \ {c} : Held(d)' = Held(d)
  BY <1>1, Zenon DEF Held, None, heap_end
<1>4. ASSUME NEW d \in Clients
      PROVE  /\ Held(d)' \subseteq DOMAIN asked'
             /\ moving'[d].rmem # None =>
                  /\ moving'[d].size = DataSize(heap', HeaderOf(moving'[d].rmem))
                  /\ moving'[d].newsize \in Sizes
             /\ moving'[d].nmem # None =>
                  /\ moving'[d].rmem \notin {None, moving'[d].nmem}
                  /\ moving'[d].newsize <= DataSize(heap', HeaderOf(moving'[d].nmem))
             /\ \A e \in Clients \ {d} : Held(d)' \cap Held(e)' = {}
  <2>1. CASE d = c
    BY <1>1, <1>3, <2>1, SMTT(30)
  <2>2. CASE d # c
    <3>1. /\ moving[d].rmem # None => moving[d].rmem \in Held(d)
          /\ moving[d].nmem # None => moving[d].nmem \in Held(d)
      BY Zenon DEF Held
    <3>2. \A e \in Clients \ {d} : Held(d)' \cap Held(e)' = {}
      BY <1>3, <2>2 DEF MoveInv
    <3> QED
      BY <1>1, <1>3, <2>2, <3>1, <3>2, SMTT(20) DEF MoveInv
  <2> QED
    BY <2>1, <2>2, Zenon
<1> QED
  BY ONLY <1>2, <1>4, Zenon DEF MoveInv, Held, None, Sizes, DataSize, HeaderOf, heap_end

LEMMA IdleType ==
  /\ Idle \in [rmem : 0 .. heap_end, nmem : 0 .. heap_end,
               size : 0 .. mem_size_aligned, newsize : 0 .. mem_size_aligned]
  /\ Idle.rmem = None /\ Idle.nmem = None
BY EndFacts DEF Idle, None

LEMMA StepReallocBegin ==
  ASSUME MemInv, NEW c \in Clients, NEW p \in DOMAIN asked, NEW n \in Sizes, ReallocBegin(c, p, n)
  PROVE  MemInv' /\ UNCHANGED <<SizeBar, asked>>
<1>1. PICK size : size = DataSize(heap, HeaderOf(p))
  BY Zenon
<1>2. PICK m : m = [rmem |-> p, nmem |-> None, size |-> size, newsize |-> n]
  BY Zenon
<1>3. /\ ~InUse(p) /\ moving' = [moving EXCEPT ![c] = m]
      /\ UNCHANGED <<heap, lfree, used_mem, asked, shrunk>>
  BY <1>1, <1>2, Zenon DEF ReallocBegin
<1>4. size \in 1 .. mem_size_aligned /\ p \in 0 .. heap_end /\ p # None
  <2>1. HeaderOf(p) \in Blk(heap) /\ p \in 0 .. heap_end - 1
    BY Zenon DEF MemInv, OwnInv
  <2> QED
    <3>1. Typed(heap) /\ Links(heap)
      BY Zenon DEF MemInv, HeapOK
    <3>2. DataSize(heap, HeaderOf(p)) \in 1 .. mem_size_aligned
      BY ONLY <2>1, <3>1, BlockFacts, Zenon
    <3> QED
      BY ONLY <1>1, <2>1, <3>2, EndFacts DEF None
<1>5. m \in [rmem : 0 .. heap_end, nmem : 0 .. heap_end,
             size : 0 .. mem_size_aligned, newsize : 0 .. mem_size_aligned]
  BY <1>2, <1>4, EndFacts DEF Sizes, None
<1>6. m.rmem = p /\ m.nmem = None /\ m.size = size /\ m.newsize = n
  BY <1>2, Zenon
<1>7. \A d \in Clients \ {c} : \A q \in Held(d) :
           /\ q \in DOMAIN asked' /\ q \notin {m.rmem, m.nmem}
           /\ DataSize(heap', HeaderOf(q)) = DataSize(heap, HeaderOf(q))
  <2>1. \A d \in Clients : p \notin Held(d) /\ None \notin Held(d) /\ Held(d) \subseteq DOMAIN asked
    BY <1>3, NotInUse, Zenon DEF MemInv, MoveInv, Held
  <2> QED
    BY <1>3, <1>6, <2>1, Zenon
<1>8. MoveInv'
  <2>1. {m.rmem, m.nmem} \ {None} \subseteq DOMAIN asked'
    BY <1>3, <1>6, Zenon
  <2>2. m.rmem # None => m.size = DataSize(heap', HeaderOf(m.rmem)) /\ m.newsize \in Sizes
    BY <1>1, <1>3, <1>6, Zenon
  <2>3. m.nmem # None => /\ m.rmem \notin {None, m.nmem}
                         /\ m.newsize <= DataSize(heap', HeaderOf(m.nmem))
    BY <1>6, Zenon
  <2>4. MoveInv
    BY Zenon DEF MemInv
  <2> QED
    BY ONLY <1>3, <1>5, <1>7, <2>1, <2>2, <2>3, <2>4, c \in Clients, MoveChanges, Zenon
<1>9. OwnInv' /\ UNCHANGED <<SizeBar, asked>>
  BY <1>3, Zenon DEF MemInv, OwnInv, SizeBar, Blk
<1> QED
  BY <1>3, <1>8, <1>9, Zenon DEF MemInv

LEMMA StepReallocMalloc ==
  ASSUME MemInv, NEW c \in Clients, ReallocMalloc(c)
  PROVE  MemInv' /\ (Abstract!Next \/ UNCHANGED <<SizeBar, asked>>)
<1>1. PICK n, b : n = moving[c].newsize /\ b = Min(Candidates(AtLeastMin(n)))
  BY Zenon
<1>2. moving[c].rmem # None /\ moving[c].nmem = None /\ shrunk' = shrunk /\ MoveInv
  BY Zenon DEF ReallocMalloc, MemInv
<1>3. /\ n \in Sizes /\ moving[c].rmem \in Held(c) /\ moving[c].rmem \in DOMAIN asked
      /\ moving[c].size = DataSize(heap, HeaderOf(moving[c].rmem))
  BY <1>1, <1>2, Zenon DEF MoveInv, Held
<1>4. CASE Candidates(AtLeastMin(n)) = {}
  <2>1. moving' = [moving EXCEPT ![c] = Idle] /\ UNCHANGED <<heap, lfree, used_mem, asked>>
    BY <1>1, <1>4, Zenon DEF ReallocMalloc
  <2>2. \A d \in Clients \ {c} : \A q \in Held(d) :
           /\ q \in DOMAIN asked' /\ q \notin {Idle.rmem, Idle.nmem}
           /\ DataSize(heap', HeaderOf(q)) = DataSize(heap, HeaderOf(q))
    BY <1>2, <2>1, IdleType, Zenon DEF MoveInv, Held
  <2>3. MoveInv'
    BY <1>2, <2>1, <2>2, IdleType, MoveChanges, Zenon
  <2>4. OwnInv' /\ UNCHANGED <<SizeBar, asked>>
    BY <2>1, Zenon DEF MemInv, OwnInv, SizeBar, Blk
  <2> QED
    BY <1>2, <2>1, <2>3, <2>4, Zenon DEF MemInv
<1>5. CASE Candidates(AtLeastMin(n)) # {}
  <2>1. /\ Take(b, AtLeastMin(n)) /\ moving' = [moving EXCEPT ![c].nmem = Pointer(b)]
        /\ asked' = [p \in DOMAIN asked \cup {Pointer(b)} |-> IF p \in DOMAIN asked THEN asked[p] ELSE n]
    BY <1>1, <1>5, Zenon DEF ReallocMalloc
  <2>2. /\ HeapOK(heap', lfree') /\ (~shrunk' => IsLowest(heap', lfree')) /\ OwnInv'
        /\ Pointer(b) \in 0 .. heap_end - 1 /\ n <= DataSize(heap', HeaderOf(Pointer(b)))
        /\ Pointer(b) \notin DOMAIN asked /\ DOMAIN asked' = DOMAIN asked \cup {Pointer(b)}
        /\ \A q \in DOMAIN asked : DataSize(heap', HeaderOf(q)) = DataSize(heap, HeaderOf(q))
        /\ Abstract!Next
    BY <1>1, <1>2, <1>3, <1>5, <2>1, StepTake, Zenon
  <2>3. PICK m : m = [moving[c] EXCEPT !.nmem = Pointer(b)]
    BY Zenon
  <2>4. /\ m \in [rmem : 0 .. heap_end, nmem : 0 .. heap_end,
                  size : 0 .. mem_size_aligned, newsize : 0 .. mem_size_aligned]
        /\ m.rmem = moving[c].rmem /\ m.nmem = Pointer(b)
        /\ m.size = moving[c].size /\ m.newsize = n
    <3>1. moving[c] \in [rmem : 0 .. heap_end, nmem : 0 .. heap_end,
                         size : 0 .. mem_size_aligned, newsize : 0 .. mem_size_aligned]
      BY <1>2, Zenon DEF MoveInv
    <3>2. Pointer(b) \in 0 .. heap_end
      BY <2>2, EndFacts
    <3> QED
      BY ONLY <1>1, <2>3, <3>1, <3>2, Zenon
  <2>5. moving' = [moving EXCEPT ![c] = m]
    BY <2>1, <2>3, Zenon
  <2>6. \A d \in Clients \ {c} : \A q \in Held(d) :
           /\ q \in DOMAIN asked' /\ q \notin {m.rmem, m.nmem}
           /\ DataSize(heap', HeaderOf(q)) = DataSize(heap, HeaderOf(q))
    <3>1. \A d \in Clients \ {c} : Held(d) \subseteq DOMAIN asked /\ moving[c].rmem \notin Held(d)
      BY <1>2, <1>3, Zenon DEF MoveInv
    <3> QED
      BY <2>2, <2>4, <3>1, Zenon
  <2>7. MoveInv'
    <3>1. {m.rmem, m.nmem} \ {None} \subseteq DOMAIN asked'
      BY <1>3, <2>2, <2>4, Zenon
    <3>2. m.rmem # None => m.size = DataSize(heap', HeaderOf(m.rmem)) /\ m.newsize \in Sizes
      BY <1>3, <2>2, <2>4, Zenon
    <3>3. m.nmem # None => /\ m.rmem \notin {None, m.nmem}
                           /\ m.newsize <= DataSize(heap', HeaderOf(m.nmem))
      BY <1>2, <1>3, <2>2, <2>4, Zenon
    <3> QED
      BY ONLY <1>2, <2>4, <2>5, <2>6, <3>1, <3>2, <3>3, c \in Clients, MoveChanges, ZenonT(30)
  <2> QED
    BY <1>2, <2>2, <2>7, Zenon DEF MemInv
<1> QED
  BY <1>4, <1>5, Zenon

LEMMA StepReallocFree ==
  ASSUME MemInv, NEW c \in Clients, ReallocFree(c)
  PROVE  MemInv' /\ Abstract!Next
<1>1. PICK r : r = moving[c].rmem
  BY Zenon
<1>2. /\ moving[c].nmem # None /\ Give(HeaderOf(r)) /\ moving' = [moving EXCEPT ![c] = Idle]
      /\ asked' = [q \in DOMAIN asked \ {r} |-> asked[q]] /\ shrunk' = shrunk /\ MoveInv
  BY <1>1, Zenon DEF ReallocFree, MemInv
<1>3. r \in Held(c) /\ r \in DOMAIN asked
  BY <1>1, <1>2, Zenon DEF MoveInv, Held
<1>4. /\ HeapOK(heap', lfree') /\ (~shrunk' => IsLowest(heap', lfree')) /\ OwnInv'
      /\ DOMAIN asked' = DOMAIN asked \ {r}
      /\ \A q \in DOMAIN asked \ {r} : DataSize(heap', HeaderOf(q)) = DataSize(heap, HeaderOf(q))
      /\ Abstract!Next
  BY <1>2, <1>3, StepGive, Zenon
<1>5. \A d \in Clients \ {c} : \A q \in Held(d) :
           /\ q \in DOMAIN asked' /\ q \notin {Idle.rmem, Idle.nmem}
           /\ DataSize(heap', HeaderOf(q)) = DataSize(heap, HeaderOf(q))
  <2>1. \A d \in Clients \ {c} : r \notin Held(d) /\ Held(d) \subseteq DOMAIN asked /\ None \notin Held(d)
    BY <1>2, <1>3, Zenon DEF MoveInv, Held
  <2> QED
    BY <1>4, <2>1, IdleType, Zenon
<1>6. MoveInv'
  BY <1>2, <1>5, IdleType, MoveChanges, Zenon
<1> QED
  BY <1>2, <1>4, <1>6, Zenon DEF MemInv

-----------------------------------------------------------------------------
LEMMA MemInit == Init => MemInv /\ Abstract!Init
<1>1. ASSUME Init PROVE MemInv /\ Abstract!Init
  <2>1. PICK h : h = heap
    BY Zenon
  <2>2. /\ DOMAIN h = {0, heap_end} /\ heap_end # 0
        /\ h = [x \in DOMAIN h |-> h[x]]
        /\ h[0] = [used |-> FALSE, next |-> heap_end, prev |-> 0]
        /\ h[heap_end] = [used |-> TRUE, next |-> heap_end, prev |-> heap_end]
    BY <1>1, <2>1, EndFacts DEF Init, Header
  <2>3. /\ h[0].used = FALSE /\ h[0].next = heap_end /\ h[0].prev = 0 /\ h[heap_end].used = TRUE
        /\ h[0] \in [used : BOOLEAN, next : 0 .. heap_end, prev : 0 .. heap_end]
        /\ h[heap_end] \in [used : BOOLEAN, next : 0 .. heap_end, prev : 0 .. heap_end]
    BY <2>2, EndFacts
  <2>4. Typed(h)
    <3>1. \A x \in DOMAIN h : h[x] \in [used : BOOLEAN, next : 0 .. heap_end, prev : 0 .. heap_end]
      BY <2>2, <2>3, Zenon
    <3> QED
      BY <2>2, <2>3, <3>1, EndFacts, Zenon DEF Typed
  <2>5. Blk(h) = {0}
    BY <2>2, Zenon DEF Blk
  <2>6. Links(h)
    <3>1. Pointer(0) < heap_end /\ \A x \in DOMAIN h : x <= 0 \/ heap_end <= x
      BY <1>1, <2>2, EndFacts, MemAssumption, SMTT(30) DEF Pointer
    <3> QED
      BY <2>2, <2>3, <2>5, <3>1, Zenon DEF Links
  <2>7. Alone(h, heap_end) /\ Free1(h, 0) /\ IsLowest(h, 0)
    BY <2>2, <2>3, <2>5, EndFacts DEF Alone, Free1, IsLowest
  <2>8. DOMAIN asked = {} /\ asked = [p \in {} |-> 0] /\ lfree = 0 /\ shrunk = FALSE
    BY <1>1, Zenon DEF Init
  <2>9. OwnInv
    BY <2>1, <2>3, <2>5, <2>8, Zenon DEF OwnInv
  <2>10. MoveInv
    <3>1. \A c \in Clients : moving[c].rmem = None /\ moving[c].nmem = None /\ Held(c) = {}
      BY <1>1, IdleType, Zenon DEF Init, Held
    <3> QED
      BY <1>1, <3>1, IdleType, Zenon DEF Init, MoveInv
  <2>11. MemInv
    BY <2>1, <2>4, <2>6, <2>7, <2>8, <2>9, <2>10, Zenon DEF MemInv, HeapOK
  <2>12. Abstract!Init
    BY <2>8, Zenon DEF Abstract!Init
  <2> QED
    BY <2>11, <2>12, Zenon
<1> QED
  BY <1>1, Zenon

\* MemInv is inductive, and a step that keeps it is a step of Heap.
LEMMA MemNext ==
  ASSUME MemInv, [Next]_vars
  PROVE  MemInv' /\ (Abstract!Next \/ UNCHANGED <<SizeBar, asked>>)
<1>1. CASE \E n \in Sizes : Malloc(n)
  BY <1>1, StepMalloc, Zenon
<1>2. CASE \E p \in DOMAIN asked : Free(p)
  BY <1>2, StepFree, Zenon
<1>3. CASE \E p \in DOMAIN asked, n \in Sizes : ReallocShorten(p, n)
  BY <1>3, StepReallocShorten, Zenon
<1>4. CASE \E c \in Clients, p \in DOMAIN asked, n \in Sizes : ReallocBegin(c, p, n)
  BY <1>4, StepReallocBegin, Zenon
<1>5. CASE \E c \in Clients : ReallocMalloc(c)
  BY <1>5, StepReallocMalloc, Zenon
<1>6. CASE \E c \in Clients : ReallocFree(c)
  BY <1>6, StepReallocFree, Zenon
<1>7. CASE UNCHANGED vars
  <2>1. UNCHANGED <<heap, lfree, asked, moving, shrunk>>
    BY <1>7, Zenon DEF vars
  <2>2. OwnInv' /\ UNCHANGED <<SizeBar, asked>>
    BY <2>1, Zenon DEF MemInv, OwnInv, SizeBar, Blk
  <2>3. MoveInv'
    BY <2>1, Zenon DEF MemInv, MoveInv, Held
  <2> QED
    BY <2>1, <2>2, <2>3, Zenon DEF MemInv
<1> QED
  BY <1>1, <1>2, <1>3, <1>4, <1>5, <1>6, <1>7, Zenon DEF Next

\* The state keeps its types: headers and pointers lie inside the heap.
THEOREM HeapTypes == Spec => []TypeOK
<1>1. ASSUME MemInv PROVE TypeOK
  <2>1. /\ DOMAIN heap \subseteq 0 .. heap_end /\ {0, heap_end} \subseteq DOMAIN heap
        /\ heap \in [DOMAIN heap -> [used : BOOLEAN, next : 0 .. heap_end, prev : 0 .. heap_end]]
        /\ lfree \in DOMAIN heap
    BY <1>1, Zenon DEF MemInv, HeapOK, Typed, Free1
  <2>2. DOMAIN asked \subseteq 0 .. heap_end /\ asked \in [DOMAIN asked -> Sizes]
    BY <1>1, EndFacts DEF MemInv, OwnInv
  <2> QED
    BY <1>1, <2>1, <2>2, Zenon DEF MemInv, MoveInv, TypeOK
<1>2. MemInv /\ [Next]_vars => MemInv'
  BY MemNext, Zenon
<1> QED
  BY <1>1, <1>2, MemInit, PTL DEF Spec

\* rt_malloc, rt_realloc and rt_free leave the blocks one behind the other,
\* with links that lead from each to its neighbours.
THEOREM HeapStaysTiled == Spec => []Tiled
<1>1. MemInv => Tiled
  BY Zenon DEF MemInv, HeapOK, Links, Tiled, Blocks, Blk
<1>2. MemInv /\ [Next]_vars => MemInv'
  BY MemNext, Zenon
<1> QED
  BY <1>1, <1>2, MemInit, PTL DEF Spec

\* No two free blocks are left side by side.
THEOREM HolesArePlugged == Spec => []NoFreeNeighbours
<1>1. MemInv => NoFreeNeighbours
  BY Zenon DEF MemInv, HeapOK, Alone, NoFreeNeighbours, JoinsNext, Blocks, Blk
<1>2. MemInv /\ [Next]_vars => MemInv'
  BY MemNext, Zenon
<1> QED
  BY <1>1, <1>2, MemInit, PTL DEF Spec

\* lfree points to a free block or to the end of the heap, and to the lowest
\* free block unless rt_realloc has shortened a block.
THEOREM LfreeStaysLowest == Spec => []LfreeIsLowest
<1>1. MemInv => LfreeIsLowest
  BY Zenon DEF MemInv, HeapOK, Free1, IsLowest, LfreeIsLowest, Blocks, Blk
<1>2. MemInv /\ [Next]_vars => MemInv'
  BY MemNext, Zenon
<1> QED
  BY <1>1, <1>2, MemInit, PTL DEF Spec

\* The copy of rt_realloc fits into both blocks, although it gives up heap_sem
\* before it copies.
THEOREM CopiesFit == Spec => []CopyFits
<1>1. ASSUME MemInv PROVE CopyFits
  <2>1. SUFFICES ASSUME NEW c \in Clients, moving[c].nmem # None
                 PROVE  LET n == Min({moving[c].size, moving[c].newsize})
                        IN  /\ n <= DataSize(heap, HeaderOf(moving[c].rmem))
                            /\ n <= DataSize(heap, HeaderOf(moving[c].nmem))
    BY Zenon DEF CopyFits
  <2>2. PICK s, t, n : s = moving[c].size /\ t = moving[c].newsize /\ n = Min({s, t})
    BY Zenon
  <2>3. /\ s = DataSize(heap, HeaderOf(moving[c].rmem)) /\ t <= DataSize(heap, HeaderOf(moving[c].nmem))
        /\ s \in Nat /\ t \in Nat
    BY <1>1, <2>1, <2>2, EndFacts, SMTT(30) DEF MemInv, MoveInv
  <2>4. DataSize(heap, HeaderOf(moving[c].nmem)) \in Int
    <3>1. HeaderOf(moving[c].nmem) \in Blk(heap)
      BY <1>1, <2>1, Zenon DEF MemInv, MoveInv, OwnInv, Held
    <3>2. Typed(heap) /\ Links(heap)
      BY <1>1, Zenon DEF MemInv, HeapOK
    <3>3. DataSize(heap, HeaderOf(moving[c].nmem)) \in 1 .. mem_size_aligned
      BY ONLY <3>1, <3>2, BlockFacts, Zenon
    <3> QED
      BY ONLY <3>3, EndFacts
  <2>5. n \in {s, t} /\ n <= s /\ n <= t
    <3>1. {s, t} \in SUBSET Nat /\ {s, t} # {}
      BY <2>3, Zenon
    <3> QED
      BY <2>2, <3>1, MinProperty, Zenon
  <2> QED
    BY ONLY <2>2, <2>3, <2>4, <2>5
<1>2. MemInv /\ [Next]_vars => MemInv'
  BY MemNext, Zenon
<1> QED
  BY <1>1, <1>2, MemInit, PTL DEF Spec

\* The blocks that rt_malloc and rt_realloc hand out never overlap, are as
\* large as was asked for, and change only when their owner asks for it.
THEOREM HeapKeepsItsPromise == Spec => ImplementsHeap
<1>1. [Abstract!Next]_<<SizeBar, asked>> <=>
      [Abstract!Next]_<<[p \in DOMAIN asked |-> DataSize(heap, HeaderOf(p))], asked>>
  BY Zenon DEF SizeBar
<1>2. MemInv /\ [Next]_vars => MemInv' /\ [Abstract!Next]_<<SizeBar, asked>>
  BY MemNext, Zenon
<1>3. Init => MemInv /\ Abstract!Init
  BY MemInit, Zenon
<1> QED
  BY <1>1, <1>2, <1>3, PTL DEF Spec, ImplementsHeap, Abstract!Spec

-----------------------------------------------------------------------------
(***************************************************************************)
(* used_mem.  A step changes one block.  The units of the other used       *)
(* blocks stay the same, and those of the block are an interval apart from *)
(* them.                                                                   *)
(***************************************************************************)
INSTANCE FiniteSetTheorems

\* The units of the used blocks other than b.
OtherUnits(h, b) ==
  {x \in 0 .. heap_end : \E y \in Blk(h) \ {b} : h[y].used /\ y <= x /\ x < h[y].next}

LEMMA OtherUnitsStay ==
  ASSUME NEW h, Typed(h), NEW g, Typed(g), NEW b, Stays(h, g, b)
  PROVE  OtherUnits(g, b) = OtherUnits(h, b)
<1>1. \A y \in Blk(h) \ {b} : h[y].used => y \in Blk(g) \ {b} /\ g[y].used /\ g[y].next = h[y].next
  BY Zenon DEF Stays, Blk
<1>2. \A y \in Blk(g) \ {b} : g[y].used => y \in Blk(h) \ {b} /\ h[y].used /\ g[y].next = h[y].next
  BY Zenon DEF Stays, Blk
<1> QED
  BY <1>1, <1>2, Zenon DEF OtherUnits

LEMMA OtherUnitsFinite ==
  ASSUME NEW h, NEW b
  PROVE  IsFiniteSet(OtherUnits(h, b)) /\ Cardinality(OtherUnits(h, b)) \in Nat
<1>1. IsFiniteSet(0 .. heap_end)
  BY FS_Interval, EndFacts, SMTT(30)
<1>2. OtherUnits(h, b) \in SUBSET (0 .. heap_end)
  BY Zenon DEF OtherUnits
<1>3. IsFiniteSet(OtherUnits(h, b))
  BY <1>1, <1>2, FS_Subset, Zenon
<1> QED
  BY <1>3, FS_CardinalityType, Zenon

\* A block that is free or gone takes nothing.
LEMMA FreeUnits ==
  ASSUME NEW h, NEW b, b \notin DOMAIN h \/ ~h[b].used
  PROVE  UsedUnits(h) = OtherUnits(h, b)
BY Zenon DEF UsedUnits, OtherUnits, Blk

\* A used block takes all units up to the next one, and the others none of
\* them.
LEMMA BlockUnits ==
  ASSUME NEW h, Typed(h), Links(h), NEW b \in Blk(h), h[b].used
  PROVE  Cardinality(UsedUnits(h)) = Cardinality(OtherUnits(h, b)) + (h[b].next - b)
<1>1. PICK e : e = h[b].next
  BY Zenon
<1>2. b \in 0 .. heap_end /\ e \in 0 .. heap_end /\ b < e
  BY <1>1, BlockFacts, EndFacts, SMTT(30) DEF Pointer
<1>3. /\ IsFiniteSet(b .. e - 1) /\ Cardinality(b .. e - 1) = e - b
  BY <1>2, FS_Interval, EndFacts, SMTT(30)
<1>4. UsedUnits(h) = OtherUnits(h, b) \cup (b .. e - 1)
  <2>1. \A x \in 0 .. heap_end : x \in b .. e - 1 <=> b <= x /\ x < e
    BY <1>2, SMTT(30)
  <2>2. b .. e - 1 \subseteq 0 .. heap_end
    BY <1>2, EndFacts, SMTT(30)
  <2> QED
    BY <1>1, <2>1, <2>2, Zenon DEF UsedUnits, OtherUnits, Blk
<1>5. OtherUnits(h, b) \cap (b .. e - 1) = {}
  <2> SUFFICES ASSUME NEW x \in 0 .. heap_end, NEW y \in Blk(h) \ {b}, y <= x, x < h[y].next, b <= x, x < e
               PROVE  FALSE
    BY <1>2, SMTT(30) DEF OtherUnits
  <2>1. y \in DOMAIN h /\ b \in DOMAIN h /\ y \in 0 .. heap_end /\ h[y].next \in 0 .. heap_end
    BY TypedFacts, Zenon DEF Blk
  <2>2. (y <= b \/ e <= y) /\ (b <= y \/ h[y].next <= b)
    BY <1>1, <2>1, Zenon DEF Links
  <2> QED
    BY <1>2, <2>1, <2>2, SMTT(30)
<1>6. Cardinality(OtherUnits(h, b) \cap (b .. e - 1)) = 0
  BY <1>5, FS_EmptySet, Zenon
<1>7. /\ IsFiniteSet(OtherUnits(h, b)) /\ Cardinality(OtherUnits(h, b)) \in Nat
  BY OtherUnitsFinite, Zenon
<1>8. Cardinality(OtherUnits(h, b) \cup (b .. e - 1)) =
        Cardinality(OtherUnits(h, b)) + Cardinality(b .. e - 1) - Cardinality(OtherUnits(h, b) \cap (b .. e - 1))
  BY <1>3, <1>7, FS_Union, ZenonT(30)
<1> QED
  BY <1>1, <1>2, <1>3, <1>4, <1>6, <1>7, <1>8, SMTT(30)

LEMMA UsedTake ==
  ASSUME MemInv, UsedMemCounts, NEW n \in Sizes, Candidates(AtLeastMin(n)) # {},
         Take(Min(Candidates(AtLeastMin(n))), AtLeastMin(n))
  PROVE  UsedMemCounts'
<1>1. PICK m, b : m = AtLeastMin(n) /\ b = Min(Candidates(AtLeastMin(n)))
  BY Zenon
<1>2. m \in Nat /\ m > 0
  BY <1>1, EndFacts, SMTT(30) DEF AtLeastMin, Sizes
<1>3. b \in Candidates(m)
  <2>1. Candidates(m) \subseteq DOMAIN heap /\ DOMAIN heap \subseteq Nat
    BY TypedFacts DEF Candidates, MemInv, HeapOK
  <2> QED
    BY <1>1, <2>1, MinProperty, ZenonT(30)
<1>4. HeapOK(heap, lfree) /\ Take(b, m)
  BY <1>1, Zenon DEF MemInv
<1>5. /\ HeapOK(heap', lfree') /\ Stays(heap, heap', b)
      /\ b \in Blk(heap) /\ ~heap[b].used /\ b \in Blk(heap') /\ heap'[b].used
  BY ONLY <1>2, <1>3, <1>4, TakeKeeps, ZenonT(30)
<1>6. /\ Cardinality(UsedUnits(heap')) = Cardinality(OtherUnits(heap', b)) + (heap'[b].next - b)
      /\ UsedUnits(heap) = OtherUnits(heap, b) /\ OtherUnits(heap', b) = OtherUnits(heap, b)
  <2>1. Typed(heap) /\ Typed(heap') /\ Links(heap')
    BY <1>4, <1>5, Zenon DEF HeapOK
  <2>2. Cardinality(UsedUnits(heap')) = Cardinality(OtherUnits(heap', b)) + (heap'[b].next - b)
    BY ONLY <1>5, <2>1, BlockUnits, Zenon
  <2>3. UsedUnits(heap) = OtherUnits(heap, b)
    BY ONLY <1>5, FreeUnits, Zenon
  <2>4. OtherUnits(heap', b) = OtherUnits(heap, b)
    BY ONLY <1>5, <2>1, OtherUnitsStay, ZenonT(30)
  <2> QED
    BY ONLY <2>2, <2>3, <2>4, ZenonT(30)
<1>7. /\ b \in Int /\ heap'[b].next \in Int /\ used_mem \in Nat
      /\ used_mem' = used_mem + heap'[b].next - b
  <2>1. b \in 0 .. heap_end /\ heap'[b].next \in 0 .. heap_end
    BY <1>5, BlockFacts, ZenonT(30) DEF HeapOK
  <2>2. used_mem \in Nat
    BY <1>6, OtherUnitsFinite, Zenon DEF UsedMemCounts
  <2>3. used_mem' = used_mem + heap'[b].next - b
    BY <1>4, ZenonT(30) DEF Take
  <2> QED
    BY <2>1, <2>2, <2>3, EndFacts, SMTT(30)
<1>8. used_mem' = Cardinality(UsedUnits(heap'))
  BY <1>6, <1>7, SMTT(30) DEF UsedMemCounts
<1> QED
  BY <1>8, Zenon DEF UsedMemCounts, UsedUnits

LEMMA UsedGive ==
  ASSUME MemInv, UsedMemCounts, NEW r \in DOMAIN asked, Give(HeaderOf(r))
  PROVE  UsedMemCounts'
<1>1. PICK b : b = HeaderOf(r)
  BY Zenon
<1>2. HeapOK(heap, lfree) /\ b \in Blk(heap) /\ heap[b].used /\ Give(b)
  BY <1>1, Zenon DEF MemInv, OwnInv
<1>3. /\ HeapOK(heap', lfree') /\ Stays(heap, heap', b)
      /\ b \notin DOMAIN heap' \/ ~heap'[b].used
  BY ONLY <1>2, GiveKeeps, ZenonT(30)
<1>4. /\ Cardinality(UsedUnits(heap)) = Cardinality(OtherUnits(heap, b)) + (heap[b].next - b)
      /\ UsedUnits(heap') = OtherUnits(heap', b) /\ OtherUnits(heap', b) = OtherUnits(heap, b)
  <2>1. Typed(heap) /\ Links(heap) /\ Typed(heap')
    BY <1>2, <1>3, ZenonT(30) DEF HeapOK
  <2>2. Cardinality(UsedUnits(heap)) = Cardinality(OtherUnits(heap, b)) + (heap[b].next - b)
    BY ONLY <1>2, <2>1, BlockUnits, ZenonT(30)
  <2>3. UsedUnits(heap') = OtherUnits(heap', b)
    BY ONLY <1>3, FreeUnits, Zenon
  <2>4. OtherUnits(heap', b) = OtherUnits(heap, b)
    BY ONLY <1>3, <2>1, OtherUnitsStay, ZenonT(30)
  <2> QED
    BY ONLY <2>2, <2>3, <2>4, ZenonT(30)
<1>5. b \in 0 .. heap_end /\ heap[b].next \in 0 .. heap_end
  BY <1>2, BlockFacts, ZenonT(30) DEF HeapOK
<1>6. used_mem' = used_mem - (heap[b].next - b) /\ Cardinality(OtherUnits(heap, b)) \in Nat
  BY <1>2, OtherUnitsFinite, ZenonT(30) DEF Give, Freed
<1>7. used_mem' = Cardinality(UsedUnits(heap'))
  BY <1>4, <1>5, <1>6, EndFacts, SMTT(30) DEF UsedMemCounts
<1> QED
  BY <1>7, Zenon DEF UsedMemCounts, UsedUnits

LEMMA UsedShorten ==
  ASSUME MemInv, UsedMemCounts, NEW r \in DOMAIN asked, NEW n \in Sizes, ReallocShorten(r, n)
  PROVE  UsedMemCounts'
<1>1. PICK b : b = HeaderOf(r)
  BY Zenon
<1>2. HeapOK(heap, lfree) /\ b \in Blk(heap) /\ heap[b].used /\ r \in Int
  BY <1>1, EndFacts, SMTT(30) DEF MemInv, OwnInv
<1>3. n \in Nat /\ n > 0 /\ Pointer(b) = r
  BY <1>1, <1>2, PointerHeader, EndFacts, SMTT(30) DEF Sizes, Pointer, HeaderOf
<1>4. /\ Shortens(DataSize(heap, b), n) /\ used_mem' = used_mem - (DataSize(heap, b) - n)
      /\ heap' = plug_holes(Linked(heap, b, Pointer(b) + n), lfree, Pointer(b) + n).heap
      /\ lfree' = plug_holes(Linked(heap, b, Pointer(b) + n), lfree, Pointer(b) + n).lfree
  BY <1>1, <1>3, Zenon DEF ReallocShorten
<1>5. /\ HeapOK(heap', lfree') /\ Stays(heap, heap', b)
      /\ b \in Blk(heap') /\ heap'[b].used /\ DataSize(heap', b) = n
  BY ONLY <1>2, <1>3, <1>4, ShortenKeeps, ZenonT(30)
<1>6. /\ Cardinality(UsedUnits(heap)) = Cardinality(OtherUnits(heap, b)) + (heap[b].next - b)
      /\ Cardinality(UsedUnits(heap')) = Cardinality(OtherUnits(heap', b)) + (heap'[b].next - b)
      /\ OtherUnits(heap', b) = OtherUnits(heap, b) /\ Cardinality(OtherUnits(heap, b)) \in Nat
  BY <1>2, <1>5, BlockUnits, OtherUnitsStay, OtherUnitsFinite, ZenonT(30) DEF HeapOK
<1>7. b \in 0 .. heap_end /\ heap[b].next \in 0 .. heap_end /\ heap'[b].next \in 0 .. heap_end
  BY <1>2, <1>5, BlockFacts, ZenonT(30) DEF HeapOK
<1>8. used_mem' = Cardinality(UsedUnits(heap'))
  BY <1>3, <1>4, <1>5, <1>6, <1>7, EndFacts, SMTT(30) DEF UsedMemCounts, DataSize
<1> QED
  BY <1>8, Zenon DEF UsedMemCounts, UsedUnits

\* rt_malloc adds to used_mem what a block takes, with its header and with
\* what is too small to be split off; rt_free and rt_realloc take off exactly
\* what becomes free.
THEOREM UsedMemIsExact == Spec => []UsedMemCounts
<1>1. ASSUME Init PROVE UsedMemCounts
  <2>1. UsedUnits(heap) = {}
    BY <1>1, EndFacts, Zenon DEF Init, UsedUnits, Header
  <2> QED
    BY <1>1, <2>1, FS_EmptySet, Zenon DEF Init, UsedMemCounts
<1>2. ASSUME MemInv, UsedMemCounts, [Next]_vars PROVE UsedMemCounts'
  <2>1. CASE \E n \in Sizes : Malloc(n)
    BY <1>2, <2>1, UsedTake, Zenon DEF Malloc
  <2>2. CASE \E p \in DOMAIN asked : Free(p)
    BY <1>2, <2>2, UsedGive, Zenon DEF Free
  <2>3. CASE \E p \in DOMAIN asked, n \in Sizes : ReallocShorten(p, n)
    BY <1>2, <2>3, UsedShorten, Zenon
  <2>4. CASE \E c \in Clients : ReallocMalloc(c)
    <3>1. PICK c \in Clients : ReallocMalloc(c)
      BY <2>4, Zenon
    <3>2. moving[c].newsize \in Sizes
      BY <1>2, <3>1, Zenon DEF MemInv, MoveInv, ReallocMalloc
    <3> QED
      BY <1>2, <3>1, <3>2, UsedTake, ZenonT(30) DEF ReallocMalloc, UsedMemCounts, UsedUnits
  <2>5. CASE \E c \in Clients : ReallocFree(c)
    <3>1. PICK c \in Clients : ReallocFree(c)
      BY <2>5, Zenon
    <3>2. moving[c].rmem \in DOMAIN asked
      BY <1>2, <3>1, Zenon DEF MemInv, MoveInv, ReallocFree, Held
    <3> QED
      BY <1>2, <3>1, <3>2, UsedGive, ZenonT(30) DEF ReallocFree
  <2>6. CASE UNCHANGED <<heap, used_mem>>
    BY <1>2, <2>6, ZenonT(30) DEF UsedMemCounts, UsedUnits
  <2> QED
    BY <1>2, <2>1, <2>2, <2>3, <2>4, <2>5, <2>6, ZenonT(30) DEF Next, vars, ReallocBegin
<1>3. MemInv /\ [Next]_vars => MemInv'
  BY MemNext, Zenon
<1> QED
  BY <1>1, <1>2, <1>3, MemInit, PTL DEF Spec

-----------------------------------------------------------------------------
\* The blocks from b on that rt_malloc would take, and the first of them.
Ahead(h, b, n) == {x \in DOMAIN h : b <= x /\ x < mem_size_aligned - n /\ Fits(h, x, n)}
FirstFit(h, b, n) == IF Ahead(h, b, n) = {} THEN None ELSE Min(Ahead(h, b, n))

\* An iteration of the loop of rt_malloc, with f for the iterations to come.
Iteration(h, n, f) ==
  [b \in DOMAIN h |-> IF b >= mem_size_aligned - n THEN None
                      ELSE IF Fits(h, b, n) THEN b
                      ELSE f[h[b].next]]

\* The first fit is found by following the links.
LEMMA FirstFitStep ==
  ASSUME NEW h, Typed(h), Links(h), NEW n \in Nat, NEW b \in DOMAIN h
  PROVE  /\ b >= mem_size_aligned - n => FirstFit(h, b, n) = None
         /\ b < mem_size_aligned - n =>
              /\ h[b].next \in DOMAIN h /\ b < h[b].next
              /\ Fits(h, b, n) => FirstFit(h, b, n) = b
              /\ ~Fits(h, b, n) => FirstFit(h, b, n) = FirstFit(h, h[b].next, n)
<1>1. /\ DOMAIN h \subseteq Nat /\ b \in Nat /\ b \in 0 .. heap_end /\ mem_size_aligned - n \in Int
      /\ b < mem_size_aligned - n => b # heap_end
  BY TypedFacts, EndFacts, SMTT(30)
<1>2. ASSUME b >= mem_size_aligned - n PROVE FirstFit(h, b, n) = None
  <2>1. Ahead(h, b, n) = {}
    BY <1>1, <1>2, SMTT(30) DEF Ahead
  <2> QED
    BY <2>1, Zenon DEF FirstFit
<1>3. ASSUME b < mem_size_aligned - n, Fits(h, b, n) PROVE FirstFit(h, b, n) = b
  <2>1. b \in Ahead(h, b, n) /\ Ahead(h, b, n) \subseteq Nat
    BY <1>1, <1>3, SMTT(30) DEF Ahead
  <2>2. Min(Ahead(h, b, n)) \in Ahead(h, b, n) /\ \A y \in Ahead(h, b, n) : Min(Ahead(h, b, n)) <= y
    BY <2>1, MinProperty, ZenonT(30)
  <2>3. Min(Ahead(h, b, n)) \in Nat /\ Min(Ahead(h, b, n)) <= b /\ b <= Min(Ahead(h, b, n))
    BY <2>1, <2>2, ZenonT(30) DEF Ahead
  <2> QED
    BY <1>1, <2>1, <2>3, SMTT(30) DEF FirstFit
<1>4. ASSUME b < mem_size_aligned - n PROVE h[b].next \in DOMAIN h /\ b < h[b].next
  <2>1. b \in Blk(h)
    BY <1>1, <1>4, Zenon DEF Blk
  <2> QED
    BY <1>1, <2>1, BlockFacts, EndFacts, SMTT(30) DEF Links, Pointer
<1>5. ASSUME b < mem_size_aligned - n, ~Fits(h, b, n) PROVE FirstFit(h, b, n) = FirstFit(h, h[b].next, n)
  <2>1. \A x \in DOMAIN h : x <= b \/ h[b].next <= x
    BY <1>1, <1>5, ZenonT(30) DEF Links, Blk
  <2>2. b < h[b].next /\ h[b].next \in Nat
    BY <1>1, <1>4, <1>5, ZenonT(30)
  <2>3. \A x \in DOMAIN h : Fits(h, x, n) => (b <= x <=> h[b].next <= x)
    <3> SUFFICES ASSUME NEW x \in DOMAIN h, x # b PROVE b <= x <=> h[b].next <= x
      BY <1>5, Zenon
    <3> QED
      BY <1>1, <2>1, <2>2, SMTT(30)
  <2>4. Ahead(h, b, n) = Ahead(h, h[b].next, n)
    BY <2>3, Zenon DEF Ahead
  <2> QED
    BY <2>4, Zenon DEF FirstFit
<1> QED
  BY <1>2, <1>3, <1>4, <1>5, ZenonT(30)

\* Whatever satisfies the equation of the loop is the first fit: the links
\* lead upwards, so there is no highest block at which it is another.
LEMMA WalkIsFirstFit ==
  ASSUME NEW h, Typed(h), Links(h), NEW n \in Nat, NEW f, f = Iteration(h, n, f)
  PROVE  \A b \in DOMAIN h : f[b] = FirstFit(h, b, n)
<1> DEFINE Wrong == {k \in Nat : \E b \in DOMAIN h : k = heap_end - b /\ f[b] # FirstFit(h, b, n)}
<1>1. DOMAIN h \subseteq 0 .. heap_end /\ heap_end \in Nat
  BY TypedFacts, EndFacts, Zenon
<1>2. SUFFICES ASSUME Wrong # {} PROVE FALSE
  <2>1. \A b \in DOMAIN h : heap_end - b \in Nat
    BY <1>1, SMTT(30)
  <2> QED
    BY <2>1, Zenon
<1>3. PICK k \in Wrong : \A j \in Wrong : k <= j
  BY <1>2, MinProperty, Zenon
<1>4. PICK b \in DOMAIN h : k = heap_end - b /\ f[b] # FirstFit(h, b, n)
  BY <1>3, Zenon
<1>5. f[b] = IF b >= mem_size_aligned - n THEN None
             ELSE IF Fits(h, b, n) THEN b
             ELSE f[h[b].next]
  BY Zenon DEF Iteration
<1>6. b < mem_size_aligned - n /\ ~Fits(h, b, n)
  <2>1. b >= mem_size_aligned - n \/ b < mem_size_aligned - n
    BY <1>1, EndFacts, SMTT(30)
  <2> QED
    BY <1>4, <1>5, <2>1, FirstFitStep, ZenonT(30)
<1>7. ~(b >= mem_size_aligned - n)
  BY <1>1, <1>6, EndFacts, SMTT(30)
<1>8. /\ h[b].next \in DOMAIN h /\ b < h[b].next
      /\ FirstFit(h, b, n) = FirstFit(h, h[b].next, n) /\ f[b] = f[h[b].next]
  BY <1>5, <1>6, <1>7, FirstFitStep, ZenonT(30)
<1>9. heap_end - h[b].next \in Nat /\ heap_end - h[b].next < k /\ k \in Nat
  BY <1>1, <1>4, <1>8, SMTT(30)
<1>10. heap_end - h[b].next \in Wrong
  BY <1>4, <1>8, <1>9, ZenonT(30)
<1>11. k <= heap_end - h[b].next
  BY <1>3, <1>10, ZenonT(30)
<1> QED
  BY <1>9, <1>11, SMTT(30)

\* The loop of rt_malloc ends: it meets the first block from lfree on that
\* fits, by addresses, or the end of the heap.
THEOREM WalkEnds == Spec => []WalkFindsFirst
<1>1. ASSUME MemInv PROVE WalkFindsFirst
  <2>1. Typed(heap) /\ Links(heap) /\ lfree \in DOMAIN heap
    BY <1>1, Zenon DEF MemInv, HeapOK, Free1
  <2>2. ASSUME NEW n \in Nat, NEW f, f = CHOOSE g : g = Iteration(heap, n, g)
        PROVE  f[lfree] = IF Candidates(n) = {} THEN None ELSE Min(Candidates(n))
    <3> DEFINE first == [b \in DOMAIN heap |-> FirstFit(heap, b, n)]
    <3>1. first = Iteration(heap, n, first)
      <4>1. \A b \in DOMAIN heap : b >= mem_size_aligned - n \/ b < mem_size_aligned - n
        BY <2>1, TypedFacts, EndFacts, SMTT(30)
      <4>2. \A b \in DOMAIN heap : b < mem_size_aligned - n => ~(b >= mem_size_aligned - n)
        BY <2>1, TypedFacts, EndFacts, SMTT(30)
      <4>3. ASSUME NEW b \in DOMAIN heap
            PROVE  first[b] = IF b >= mem_size_aligned - n THEN None
                              ELSE IF Fits(heap, b, n) THEN b
                              ELSE first[heap[b].next]
        BY <2>1, <4>1, <4>2, FirstFitStep, ZenonT(30)
      <4> QED
        BY <4>3, Zenon DEF Iteration
    <3>2. f = Iteration(heap, n, f)
      BY <2>2, <3>1, Zenon
    <3>3. f[lfree] = FirstFit(heap, lfree, n)
      BY ONLY <2>1, <2>2, <3>2, WalkIsFirstFit, ZenonT(30)
    <3> QED
      BY <3>3, Zenon DEF FirstFit, Ahead, Candidates
  <2>3. \A n \in MIN_SIZE_ALIGNED .. mem_size_aligned : n \in Nat
    BY EndFacts, SMTT(30)
  <2> QED
    BY <2>2, <2>3, Zenon DEF WalkFindsFirst, Iteration
<1>2. MemInv /\ [Next]_vars => MemInv'
  BY MemNext, Zenon
<1> QED
  BY <1>1, <1>2, MemInit, PTL DEF Spec

=============================================================================
