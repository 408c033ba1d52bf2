-------------------------------- MODULE Heap --------------------------------
(***************************************************************************)
(* The heap of the firmware, freertos_extras/heap_6.c: FreeRTOS heap_5 and *)
(* a realloc().  A free list in order of address runs from xStart to       *)
(* pxEnd; blocks are split when they are handed out and merged with their  *)
(* neighbours when they come back.                                         *)
(*                                                                         *)
(* Addresses and sizes are in units of the alignment (8 bytes), which is   *)
(* also the size of a block header.  The one region of allocator.c begins  *)
(* at address 0 and pxEnd is at End.  What vTaskSuspendAll() protects is   *)
(* one step; vPortFree() begins before it.                                 *)
(***************************************************************************)
EXTENDS Integers, FiniteSetsExt

CONSTANTS
  Tasks,    (* the tasks that use the heap                                 *)
  End,      (* address of pxEnd: units the heap can hand out               *)
  MaxSize   (* bound: largest size asked for                               *)

ASSUME EndAssumption == End \in Nat \ {0}
ASSUME MaxSizeAssumption == MaxSize \in Nat

Start == -1   \* xStart, below the heap
Null  == -2

Addr  == 0 .. End - 1
Nodes == Addr \cup {Start}
Requests == 0 .. MaxSize

VARIABLES
  size,     (* xBlockSize by address, 0 where no block begins              *)
  next,     (* pxNextFreeBlock by address                                  *)
  used,     (* blocks with the allocated bit                               *)
  room,     (* xFreeBytesRemaining                                         *)
  freeing   (* the block each task is freeing, or Null                     *)

vars == <<size, next, used, room, freeing>>

TypeOK ==
  /\ size \in [Addr -> 0 .. End]
  /\ next \in [Nodes -> Addr \cup {End, Null}]
  /\ used \subseteq Addr
  /\ room \in 0 .. End
  /\ freeing \in [Tasks -> Addr \cup {Null}]

\* vPortDefineHeapRegions(): one block.
Init ==
  /\ size = [a \in Addr |-> IF a = 0 THEN End ELSE 0]
  /\ next = [n \in Nodes |-> CASE n = Start -> 0 [] n = 0 -> End [] OTHER -> Null]
  /\ used = {} /\ room = End
  /\ freeing = [t \in Tasks |-> Null]

-----------------------------------------------------------------------------
Header  == 1
Minimum == 2 * Header   \* heapMINIMUM_BLOCK_SIZE

Heap == [size |-> size, next |-> next]

\* The nodes of a heap's free list but pxEnd.
Listed(h) == {n \in Nodes : h.next[n] # Null}

\* Where the walk along the list for a place to insert b ends, and where it
\* finds the node that leads to b.  (The list is in order of address.)
Before(h, b) == Max({n \in Listed(h) : n < b})

\* Block b of size n becomes part of block `at`, whose size becomes `total`
\* and which is followed by `after`; q is swallowed if it is a block.
Place(h, b, n, p, at, total, q, after) ==
  [size |-> [a \in Addr |-> IF a = at THEN total
                            ELSE IF a \in {b, q} THEN 0 ELSE h.size[a]],
   next |-> [a \in Nodes |-> IF a = at THEN after
                             ELSE IF a = p THEN b
                             ELSE IF a \in {b, q} THEN Null ELSE h.next[a]]]

\* Mutant: a block is not joined with the one in front of it.
InsertApart(h, b, n) ==
  LET p == Before(h, b)
      q == h.next[p]
      back == b + n = q /\ q # End
  IN Place(h, b, n, p, b,
           n + (IF back THEN h.size[q] ELSE 0),
           IF back THEN q ELSE Null, IF back THEN h.next[q] ELSE q)

\* prvInsertBlockIntoFreeList(): the block is joined with the one it follows
\* and with the one it precedes where they touch, but never with pxEnd.
Insert(h, b, n) ==
  LET p == Before(h, b)
      q == h.next[p]
      front == p # Start /\ p + h.size[p] = b
      back == b + n = q /\ q # End
  IN Place(h, b, n, p, IF front THEN p ELSE b,
           n + (IF front THEN h.size[p] ELSE 0) + (IF back THEN h.size[q] ELSE 0),
           IF back THEN q ELSE Null, IF back THEN h.next[q] ELSE q)

\* Removes block b from the list.
Unlink(h, b) ==
  [h EXCEPT !.next = [h.next EXCEPT ![Before(h, b)] = h.next[b], ![b] = Null]]

\* Units a request for n of memory takes, the header included.
Wanted(n) == n + Header

\* The blocks a walk for w units can end on, and the first one on the way.
Fit(w) == {b \in Addr : next[b] # Null /\ size[b] >= w}

Can(n) == n > 0 /\ Wanted(n) <= room /\ Fit(Wanted(n)) # {}

\* What is handed out for n: a block is split unless too little would be left.
Taken(n) ==
  LET b == Min(Fit(Wanted(n))) IN
  IF size[b] - Wanted(n) > Minimum THEN Wanted(n) ELSE size[b]

\* Mutant: the block that was split keeps its size.
CarveUncut(b, w) ==
  LET h == Unlink(Heap, b)
  IN IF w < size[b] THEN Insert(h, b + w, size[b] - w) ELSE h

\* Hands out the first w units of block b, the rest of it is put back.
Carve(b, w) ==
  LET h == Unlink(Heap, b)
      cut == [h EXCEPT !.size = [h.size EXCEPT ![b] = w]]
  IN IF w < size[b] THEN Insert(cut, b + w, size[b] - w) ELSE h

Becomes(h) == size' = h.size /\ next' = h.next

-----------------------------------------------------------------------------
\* Mutant: the units asked for are taken from the count, not those handed out.
MallocWanted(t, n) ==
  /\ freeing[t] = Null /\ Can(n)
  /\ LET b == Min(Fit(Wanted(n))) IN
     /\ Becomes(Carve(b, Taken(n)))
     /\ used' = used \cup {b}
     /\ room' = room - Wanted(n)
  /\ UNCHANGED freeing

\* pvPortMalloc(): first fit.  What cannot be had is refused with NULL and
\* changes nothing.
Malloc(t, n) ==
  /\ freeing[t] = Null /\ Can(n)
  /\ LET b == Min(Fit(Wanted(n))) IN
     /\ Becomes(Carve(b, Taken(n)))
     /\ used' = used \cup {b}
     /\ room' = room - Taken(n)
  /\ UNCHANGED freeing

\* vPortFree() of a block that is in use, which the assertions have passed:
\* the allocated bit is cleared, and only then is the scheduler suspended ...
FreeMark(t, b) ==
  /\ freeing[t] = Null /\ b \in used
  /\ used' = used \ {b}
  /\ freeing' = [freeing EXCEPT ![t] = b]
  /\ UNCHANGED <<size, next, room>>

\* ... and the block put on the list.
FreeInsert(t) ==
  LET b == freeing[t] IN
  /\ b # Null
  /\ Becomes(Insert(Heap, b, size[b]))
  /\ room' = room + size[b]
  /\ freeing' = [freeing EXCEPT ![t] = Null]
  /\ UNCHANGED used

\* pvPortRealloc() of a block that has become too small: under one suspension
\* another is had, and the old one freed.  (A block that is large enough is
\* kept as it is, and a size of 0 gives NULL and frees nothing.)
Realloc(t, b, n) ==
  /\ freeing[t] = Null /\ b \in used /\ n > size[b] - Header /\ Can(n)
  /\ LET c == Min(Fit(Wanted(n)))
         h == Carve(c, Taken(n)) IN
     /\ Becomes(Insert(h, b, size[b]))
     /\ used' = (used \cup {c}) \ {b}
     /\ room' = room - Taken(n) + size[b]
  /\ UNCHANGED freeing

Next ==
  \E t \in Tasks :
    \/ \E n \in Requests : Malloc(t, n)
    \/ \E b \in used : FreeMark(t, b)
    \/ FreeInsert(t)
    \/ \E b \in used, n \in Requests : Realloc(t, b, n)

Spec == Init /\ [][Next]_vars

-----------------------------------------------------------------------------
(* Properties.                                                              *)

Blocks == {a \in Addr : size[a] > 0}
OnList == Listed(Heap) \ {Start}

\* The blocks, used, listed or on their way to the list, tile the heap: none
\* overlaps another and no unit is lost, whatever is split and joined.
Tiled ==
  /\ 0 \in Blocks
  /\ \A b \in Blocks : b + size[b] \in Blocks \cup {End}
  /\ \A b, c \in Blocks : b < c => b + size[b] <= c

Held == {freeing[t] : t \in Tasks} \ {Null}

\* The list is in order of address and no two of its blocks touch: a request
\* that fits between two blocks in use finds one block to fit in.
\* (heap_6.c:129-134)
Joined ==
  \A n \in Listed(Heap) :
    /\ next[n] = End \/ next[n] \in OnList
    /\ n # Start => n + size[n] < next[n] \/ next[n] = End
    /\ n = Start => \A m \in OnList : next[n] <= m

\* The block at b, as its holder sees it.
Block(b) == [at |-> b, size |-> size[b]]

Memory == INSTANCE Allocator WITH
  Excess <- Minimum, given <- {Block(b) : b \in used \cup Held}, room <- room

\* The heap is an allocator: no unit is handed out twice, though the allocated
\* bit is cleared before the scheduler is suspended (heap_6.c:339-346); none is
\* lost; and the free byte count, by which requests are refused, is exact.
Refines == Memory!Spec
=============================================================================
