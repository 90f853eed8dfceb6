------------------------------- MODULE Memheap -------------------------------
(***************************************************************************)
(* The heap behind rt_malloc, rt_realloc and rt_free in this build         *)
(* (rt-thread/src/memheap.c, RT_USING_MEMHEAP_AS_HEAP, fast mode).  The    *)
(* pool is cut into blocks, each a header and the memory behind it, linked *)
(* in the order of their addresses, and the free ones are on a list.       *)
(*                                                                         *)
(* A call is one action: kservice.c makes it under the heap mutex.  An     *)
(* address is a number of words in the pool; the header of a block that    *)
(* was merged away is not read again and leaves next and prev.             *)
(***************************************************************************)
EXTENDS Integers, SequencesExt

CONSTANTS
    Handles,    \* what the program keeps its pointers in
    Sizes,      \* the sizes it asks for
    PoolSize,   \* pool_size
    Header,     \* RT_MEMHEAP_SIZE
    MinAlloc    \* RT_MEMHEAP_MINIALLOC

ASSUME MemheapAssumption ==
    /\ Header \in Nat \ {0} /\ MinAlloc \in Nat \ {0}
    /\ PoolSize \in Nat /\ PoolSize >= 2 * Header + MinAlloc
    /\ Sizes \subseteq Nat \ {0}

First == 0                      \* start_addr
Tailer == PoolSize - Header     \* the used block that ends the pool

VARIABLES
    heap,   \* the links, the blocks in use, free_list and available_size
    owned   \* the block each handle points into and what was asked for

vars == <<heap, owned>>

\* rt_memheap_init.
Init ==
    /\ heap = [next |-> [a \in {First, Tailer} |-> IF a = First THEN Tailer ELSE First],
               prev |-> [a \in {First, Tailer} |-> IF a = First THEN Tailer ELSE First],
               used |-> {Tailer}, free |-> <<First>>,
               available |-> PoolSize - 2 * Header]
    /\ owned = [p \in {} |-> First]

-----------------------------------------------------------------------------
(* Blocks.                                                                 *)

SizeOf(h, a) == h.next[a] - a - Header      \* MEMITEM_SIZE

With(f, x, y) == [z \in DOMAIN f \cup {x} |-> IF z = x THEN y ELSE f[z]]

\* A new header at b cuts the block at a in two.
SplitOneWay(h, a, b) ==                                 \* mutant of Split
    [h EXCEPT !.next = With([h.next EXCEPT ![a] = b], b, h.next[a]),
              !.prev = With(h.prev, b, a)]
Split(h, a, b) ==
    [h EXCEPT !.next = With([h.next EXCEPT ![a] = b], b, h.next[a]),
              !.prev = With([h.prev EXCEPT ![h.next[a]] = b], b, a)]

\* The block behind a becomes part of it.
Join(h, a) ==
    LET q == h.next[a]
    IN  [h EXCEPT !.next = Restrict([h.next EXCEPT ![a] = h.next[q]], DOMAIN h.next \ {q}),
                  !.prev = Restrict([h.prev EXCEPT ![h.next[q]] = a], DOMAIN h.prev \ {q})]

Add(h, n)    == [h EXCEPT !.available = @ + n]
Unlist(h, a) == [h EXCEPT !.free = RemoveAt(@, CHOOSE i \in DOMAIN h.free : h.free[i] = a)]
List(h, a)   == [h EXCEPT !.free = <<a>> \o @]
IsFree(h, a) == a \notin h.used

\* RT_ALIGN and the minimum, of a number of words.
Wanted(size) == IF size < MinAlloc THEN MinAlloc ELSE size

-----------------------------------------------------------------------------
(* rt_memheap_alloc.                                                       *)

\* The blocks the search can stop at: the first of the list that is large enough.
Found(h, size) ==
    {h.free[i] : i \in {i \in DOMAIN h.free :
        /\ SizeOf(h, h.free[i]) >= size
        /\ \A j \in 1 .. i - 1 : SizeOf(h, h.free[j]) < size}}

CanAlloc(h, size) == size < h.available /\ Found(h, size) # {}

TakenAsFree(h, a, size) ==                              \* mutant of Taken
    Add(List(Unlist(Split(h, a, a + Header + size), a), a + Header + size), - size - Header)

Taken(h, a, size) ==
    LET rest == a + Header + size
        cut  == List(Unlist(Split(h, a, rest), a), rest)
        left == IF SizeOf(h, a) >= size + Header + MinAlloc
                THEN Add(cut, - size - Header)
                ELSE Add(Unlist(h, a), - SizeOf(h, a))
    IN  [left EXCEPT !.used = @ \cup {a}]

Alloc(p, size) ==
    /\ p \notin DOMAIN owned
    /\ CanAlloc(heap, Wanted(size))
    /\ \E a \in Found(heap, Wanted(size)) :
           /\ heap' = Taken(heap, a, Wanted(size))
           /\ owned' = With(owned, p, [block |-> a, size |-> size])

-----------------------------------------------------------------------------
(* rt_memheap_free: merged with the free block before it, if there is one, *)
(* and then with the one behind.                                           *)

FreedBy(h, a, gain, unlists) ==
    LET marked == Add([h EXCEPT !.used = @ \ {a}], SizeOf(h, a))
        before == h.prev[a]
        onLeft == IsFree(marked, before)
        left   == IF onLeft THEN Add(Join(marked, before), Header) ELSE marked
        at     == IF onLeft THEN before ELSE a
        behind == left.next[at]
        right  == Add(Join(left, at), gain)
        joined == IF ~ IsFree(left, behind) THEN left
                  ELSE IF unlists THEN Unlist(right, behind) ELSE right
    IN  IF onLeft THEN joined ELSE List(joined, at)

FreedForgetsHeader(h, a) == FreedBy(h, a, 0, TRUE)          \* mutant of Freed
FreedStaysListed(h, a)   == FreedBy(h, a, Header, FALSE)    \* mutant of Freed
Freed(h, a)              == FreedBy(h, a, Header, TRUE)

Free(p) ==
    /\ p \in DOMAIN owned
    /\ heap' = Freed(heap, owned[p].block)
    /\ owned' = Restrict(owned, DOMAIN owned \ {p})

-----------------------------------------------------------------------------
(* rt_memheap_realloc.                                                     *)

\* The free block behind a is large enough to give what is missing.
CanGrow(h, a, size) ==
    LET behind == h.next[a]
    IN  IsFree(h, behind) /\ SizeOf(h, behind) + SizeOf(h, a) > size + MinAlloc

Grown(h, a, size) ==
    LET rest == a + Header + size
    IN  Add(List(Split(Unlist(Join(h, a), h.next[a]), a, rest), rest), SizeOf(h, a) - size)

ShrunkAlone(h, a, size) ==                              \* mutant of Shrunk
    LET rest == a + Header + size
        cut  == Split(h, a, rest)
    IN  Add(List(cut, rest), SizeOf(cut, rest))

\* What is cut off is merged with a free block behind it.
Shrunk(h, a, size) ==
    LET rest   == a + Header + size
        cut    == Split(h, a, rest)
        behind == cut.next[rest]
        merged == IF IsFree(cut, behind)
                  THEN Unlist(Join(Add(cut, - SizeOf(cut, behind)), rest), behind)
                  ELSE cut
    IN  Add(List(merged, rest), SizeOf(merged, rest))

KeepsSmall(h, a, size) == size + Header + MinAlloc >= SizeOf(h, a)

\* The block stays where it is: it grows, stays as it is, or shrinks.
ReallocInPlace(p, size) ==
    /\ p \in DOMAIN owned
    /\ LET a == owned[p].block
           n == Wanted(size)
           old == SizeOf(heap, a)
       IN  \/ n > old /\ CanGrow(heap, a, n) /\ heap' = Grown(heap, a, n)
           \/ n <= old /\ KeepsSmall(heap, a, n) /\ UNCHANGED heap
           \/ n <= old /\ ~ KeepsSmall(heap, a, n) /\ heap' = Shrunk(heap, a, n)
    /\ owned' = [owned EXCEPT ![p].size = size]

\* A new block, the data copied, the old block freed.
ReallocMoves(p, size) ==
    /\ p \in DOMAIN owned
    /\ LET a == owned[p].block
           n == Wanted(size)
       IN  /\ n > SizeOf(heap, a) /\ ~ CanGrow(heap, a, n)
           /\ CanAlloc(heap, n)
           /\ \E b \in Found(heap, n) :
                  /\ heap' = Freed(Taken(heap, b, n), a)
                  /\ owned' = [owned EXCEPT ![p] = [block |-> b, size |-> size]]

-----------------------------------------------------------------------------

Next ==
    \E p \in Handles :
        \/ Free(p)
        \/ \E size \in Sizes : Alloc(p, size) \/ ReallocInPlace(p, size) \/ ReallocMoves(p, size)

Spec == Init /\ [][Next]_vars

-----------------------------------------------------------------------------
(* Properties.                                                             *)

Blocks == DOMAIN heap.next

\* The type of the state.
TypeOK ==
    /\ heap.next \in [Blocks -> Blocks] /\ heap.prev \in [Blocks -> Blocks]
    /\ heap.used \subseteq Blocks /\ heap.free \in Seq(Blocks)
    /\ heap.available \in Int
    /\ DOMAIN owned \subseteq Handles
    /\ \A p \in DOMAIN owned : owned[p] \in [block : Blocks, size : Sizes]

\* After every sequence of calls the blocks cover the pool without gap or
\* overlap: next leads from each header to the following one, with room for at
\* least the minimum between them, and prev leads back.
BlocksTile ==
    /\ {First, Tailer} \subseteq Blocks /\ Blocks \subseteq First .. Tailer
    /\ heap.next[Tailer] = First
    /\ \A a \in Blocks :
           /\ heap.prev[heap.next[a]] = a /\ heap.next[heap.prev[a]] = a
           /\ a # Tailer => /\ heap.next[a] >= a + Header + MinAlloc
                            /\ \A b \in Blocks : ~ (a < b /\ b < heap.next[a])

\* A free block is on the free list once and no other is, so that the search of
\* rt_memheap_alloc neither hands out memory in use nor misses any.
FreeListIsTheFree ==
    IsInjective(heap.free) /\ ToSet(heap.free) = Blocks \ heap.used

\* Memory that is freed side by side becomes one block again, whichever of
\* free, grow or shrink made it free.
NoFreeNeighbours == \A a \in Blocks \ heap.used : heap.next[a] \in heap.used

\* available_size, which rt_memheap_alloc trusts before it looks at any block,
\* is what the free blocks hold.
AvailableIsTheFree ==
    heap.available = MapThenSumSet(LAMBDA a : SizeOf(heap, a), Blocks \ heap.used)

\* Every pointer the program holds is to a block of its own that is in use and
\* at least as large as what was asked for last.
PointersAreSafe ==
    /\ heap.used = {Tailer} \cup {owned[p].block : p \in DOMAIN owned}
    /\ \A p \in DOMAIN owned :
           /\ SizeOf(heap, owned[p].block) >= owned[p].size
           /\ \A q \in DOMAIN owned : owned[q].block = owned[p].block => p = q
           /\ owned[p].block # Tailer
=============================================================================
