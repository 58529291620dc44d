------------------------------ MODULE FirstFit ------------------------------
(***************************************************************************)
(* The first-fit heap of src/src/mem/ff_alloc.c, behind kmalloc, krealloc  *)
(* and kfree (mem/kheap.c) and, compiled a second time, behind the user    *)
(* library's malloc (lib/c/src/alloc_firstfit.c).                          *)
(*                                                                         *)
(* The heap is a circular doubly linked list of chunk headers; a header is *)
(* identified by its address and the bytes between a header and the next   *)
(* are its data.  Headers are kept as three functions over the addresses   *)
(* that carry a valid header, so an erased header is one that has left     *)
(* their domain.  The bytes of the blocks are not modelled, only where     *)
(* they are and whether a copy leaves them.                                *)
(***************************************************************************)
EXTENDS Integers, FiniteSets

CONSTANTS
    ALIGN, CHUNK_SIZE, ALLOC_SIZE,  \* 16, 12 and 20 in the code
    WordSize,       \* 2^32 in the code: size_t arithmetic is modulo WordSize
    StartMem,       \* addresses the heap may be created at
    HeapSizes,      \* sizes in bytes it may be given
    MallocSizes,    \* sizes clients ask malloc for
    ReallocSizes    \* sizes clients ask realloc for

ASSUME FirstFitAssumption ==
    /\ ALIGN \in Nat /\ CHUNK_SIZE \in Nat \ {0} /\ ALLOC_SIZE \in Nat
    /\ CHUNK_SIZE < ALIGN
    /\ WordSize \in Nat /\ WordSize >= 4 * ALIGN
    /\ ALLOC_SIZE + CHUNK_SIZE <= WordSize - ALIGN
    /\ StartMem \subseteq {a \in Nat : a % ALIGN = 0}   \* both callers give a page
    /\ HeapSizes \subseteq Nat
    /\ \A startmem \in StartMem, size \in HeapSizes :
         startmem + size <= WordSize - ALIGN
    /\ MallocSizes \subseteq 0 .. WordSize - 1
    /\ ReallocSizes \subseteq 0 .. WordSize - 1

VARIABLES
    initial,    \* the first header
    heap_end,   \* the last header, a sentinel that is always used
    heap,       \* [next, prev, used: the headers; current: this->current]
    live,       \* the clients' view: block pointer -> the size asked for
    balance,    \* n_malloc - n_free
    call,       \* the malloc in progress, or Idle
    smashed     \* headers some memcpy has overwritten

vars == <<initial, heap_end, heap, live, balance, call, smashed>>

Null == 0
INT_MAX == (WordSize \div 2) - 1

-----------------------------------------------------------------------------
(* Headers *)

\* Mutant: rounds down.
aligned_Down(addr) == addr - (addr % ALIGN)

\* The next multiple of ALIGN.  The sum wraps in 32 bits.
aligned(addr) ==
    IF addr % ALIGN = 0 THEN addr
    ELSE (ALIGN + (addr - (addr % ALIGN))) % WordSize

chunk_data(c) == c + CHUNK_SIZE
chunk_of(p) == p - CHUNK_SIZE

Chunks(h) == DOMAIN h.next
get_size(h, c) == h.next[c] - c - CHUNK_SIZE

Put(f, x, v) == [y \in DOMAIN f \union {x} |-> IF y = x THEN v ELSE f[y]]
Without(f, x) == [y \in DOMAIN f \ {x} |-> f[y]]

Heap(n, p, u, cur) == [next |-> n, prev |-> p, used |-> u, current |-> cur]

set_used(h, c) == Heap(h.next, h.prev, Put(h.used, c, TRUE), h.current)
set_free(h, c) == Heap(h.next, h.prev, Put(h.used, c, FALSE), h.current)
set_current(h, c) == Heap(h.next, h.prev, h.used, c)

\* Mutant: the following header keeps its old prev.
LinkFree_NoPrev(h, c, new) ==
    LET nx == h.next[c]
    IN  Heap(Put(Put(h.next, c, new), new, nx), Put(h.prev, new, c),
             Put(h.used, new, FALSE), h.current)

\* The free chunk new is put between c and the chunk that follows it.
LinkFree(h, c, new) ==
    LET nx == h.next[c]
    IN  Heap(Put(Put(h.next, c, new), new, nx),
             Put(Put(h.prev, nx, new), new, c),
             Put(h.used, new, FALSE), h.current)

\* set_next, set_prev and erase: c takes in the chunk that follows it.
MergeNext(h, c) ==
    LET d == h.next[c]
        e == h.next[d]
    IN  Heap(Without(Put(h.next, c, e), d), Without(Put(h.prev, e, c), d),
             Without(h.used, d), h.current)

-----------------------------------------------------------------------------
(* The operations on the headers *)

\* Mutant: counts the header as data.
fits_Header(h, c, size) == ~h.used[c] /\ get_size(h, c) + CHUNK_SIZE >= size

fits(h, c, size) == ~h.used[c] /\ get_size(h, c) >= size

\* firstfit_malloc once it has found chunk c: split off what is left over if
\* a header and 4 more bytes fit in it.
Take(h, c, size) ==
    LET new == chunk_data(c) + (aligned(size + CHUNK_SIZE) - CHUNK_SIZE)
        nx  == h.next[c]
    IN  IF chunk_data(new) + 4 <= nx
        THEN set_current(set_used(set_used(LinkFree(h, c, new), nx), c), new)
        ELSE set_current(set_used(h, c), nx)

\* Mutants: no merge with the successor; no merge with the predecessor;
\* this->current left at the chunk that has been merged away.
MergeFreeNext_Never(h, c) == h
MergeFreePrev_Never(h, c) == set_current(h, c)
MergeFreePrev_Stale(h, c) ==
    LET p == h.prev[c]
    IN  IF h.used[p] THEN set_current(h, c)
                     ELSE set_current(MergeNext(h, p), c)

\* The merge with a free successor and with a free predecessor.
MergeFreeNext(h, c) == IF h.used[h.next[c]] THEN h ELSE MergeNext(h, c)

MergeFreePrev(h, c) ==
    LET p == h.prev[c]
    IN  IF h.used[p] THEN set_current(h, c)
                     ELSE set_current(MergeNext(h, p), p)

\* firstfit_free
Release(h, c) == MergeFreePrev(MergeFreeNext(set_free(h, c), c), c)

\* firstfit_realloc when it stays in place: the block of c becomes asize
\* bytes, and what is left of it and of a free chunk after it becomes one
\* free chunk.  cur is where this->current goes if it pointed to that chunk.
Resize(h, c, asize, cur) ==
    LET nx == h.next[c]
        h1 == IF h.current = nx /\ ~h.used[nx] THEN set_current(h, cur) ELSE h
    IN  LinkFree(MergeFreeNext(h1, c), c, chunk_data(c) + asize)

-----------------------------------------------------------------------------
Idle == [kind |-> "idle"]

\* firstfit_new, for a size it accepts.
firstfit_new ==
    \E startmem \in StartMem, size \in HeapSizes :
        /\ size >= aligned(ALLOC_SIZE + CHUNK_SIZE) + CHUNK_SIZE + 1
        /\ initial = aligned(startmem + ALLOC_SIZE + CHUNK_SIZE) - CHUNK_SIZE
        /\ heap_end = ALIGN * ((startmem + size) \div ALIGN) - CHUNK_SIZE
        /\ LET ends == {initial, heap_end}
               other == [c \in ends |-> IF c = heap_end THEN initial ELSE heap_end]
           IN  heap = Heap(other, other, [c \in ends |-> c = heap_end], initial)

Init ==
    /\ firstfit_new
    /\ live = << >>
    /\ balance = 0
    /\ call = Idle
    /\ smashed = {}

\* A client may call when no call is running and no header is damaged; what
\* the code does with a damaged header is not modelled.
Callable == call = Idle /\ smashed = {}

Return == call' = Idle

\* The loop of firstfit_malloc, for size bytes, has come to chunk c.  old is
\* the block that a relocating realloc will copy.
ScanAt(size, old, c) ==
    call' = [kind |-> "scan", size |-> size, old |-> old, chunk |-> c]

\* The part of firstfit_malloc before its loop.  A size of 0 or above INT_MAX
\* returns null at once.
BeginScan(size, old) == ScanAt(size, old, heap.current)

Refused(size) == size = 0 \/ size > INT_MAX

firstfit_malloc(size) ==
    /\ Callable
    /\ ~Refused(size)
    /\ BeginScan(size, Null)
    /\ UNCHANGED <<initial, heap_end, heap, live, balance, smashed>>

\* Mutant: the free is not counted.
RelocationFailed_NoCount(old) ==
    /\ heap' = Release(heap, chunk_of(old))
    /\ live' = Without(live, old)
    /\ UNCHANGED <<balance, smashed>>

\* The end of a relocating realloc whose malloc gave null: the copy goes to
\* address 0, the old block is freed all the same and null is returned.
RelocationFailed(old) ==
    /\ heap' = Release(heap, chunk_of(old))
    /\ live' = Without(live, old)
    /\ balance' = balance - 1
    /\ UNCHANGED smashed

\* Mutant: the loop does not stop at this->current.
ScanStep_Endless ==
    /\ call # Idle
    /\ ~fits(heap, call.chunk, call.size)
    /\ ScanAt(call.size, call.old, heap.next[call.chunk])
    /\ UNCHANGED <<initial, heap_end, heap, live, balance, smashed>>

\* One turn of the do-while loop: the chunk does not fit, go to the next.
ScanStep ==
    /\ call # Idle
    /\ ~fits(heap, call.chunk, call.size)
    /\ heap.next[call.chunk] # heap.current
    /\ ScanAt(call.size, call.old, heap.next[call.chunk])
    /\ UNCHANGED <<initial, heap_end, heap, live, balance, smashed>>

\* Mutant: the loop ends at the end of the list instead of a full circle.
ScanFails_AtEnd ==
    /\ call # Idle
    /\ ~fits(heap, call.chunk, call.size)
    /\ heap.next[call.chunk] = initial
    /\ IF call.old = Null THEN UNCHANGED <<heap, live, balance, smashed>>
                          ELSE RelocationFailed(call.old)
    /\ Return
    /\ UNCHANGED <<initial, heap_end>>

\* The loop is back at this->current: no memory.
ScanFails ==
    /\ call # Idle
    /\ ~fits(heap, call.chunk, call.size)
    /\ heap.next[call.chunk] = heap.current
    /\ IF call.old = Null THEN UNCHANGED <<heap, live, balance, smashed>>
                          ELSE RelocationFailed(call.old)
    /\ Return
    /\ UNCHANGED <<initial, heap_end>>

\* The chunk fits: take it.
ScanTakes ==
    /\ call # Idle
    /\ call.old = Null
    /\ fits(heap, call.chunk, call.size)
    /\ heap' = Take(heap, call.chunk, call.size)
    /\ live' = Put(live, chunk_data(call.chunk), call.size)
    /\ balance' = balance + 1
    /\ Return
    /\ UNCHANGED <<initial, heap_end, smashed>>

\* The headers a copy of n bytes to the block of c overwrites.
CopySmashes(h, c, n) ==
    {d \in Chunks(h) : d > c /\ d < chunk_data(c) + n}

\* The chunk fits and the call is a relocating realloc: take it, copy the
\* whole old block into it and free the old block.  When the copy runs over
\* headers the model stops right after it.
ScanRelocates ==
    /\ call # Idle
    /\ call.old # Null
    /\ fits(heap, call.chunk, call.size)
    /\ LET old == chunk_of(call.old)
           h   == Take(heap, call.chunk, call.size)
           new == Put(live, chunk_data(call.chunk), call.size)
           hit == CopySmashes(h, call.chunk, get_size(heap, old))
       IN  /\ smashed' = hit
           /\ IF hit = {}
              THEN /\ heap' = Release(h, old)
                   /\ live' = Without(new, call.old)
                   /\ balance' = balance
              ELSE heap' = h /\ live' = new /\ balance' = balance + 1
    /\ Return
    /\ UNCHANGED <<initial, heap_end>>

this_size(p) == get_size(heap, chunk_of(p))
next_chunk(p) == heap.next[chunk_of(p)]

\* The block stays where it is.
InPlace(p, size, h) ==
    /\ heap' = h
    /\ live' = [live EXCEPT ![p] = size]
    /\ UNCHANGED <<initial, heap_end, balance, call, smashed>>

\* No room for a new chunk in what the block would give back.
ReallocKeeps(p, size) ==
    /\ aligned(size) < this_size(p)
    /\ aligned(size) + CHUNK_SIZE >= this_size(p)
    /\ InPlace(p, size, heap)

ReallocShrinks(p, size) ==
    /\ aligned(size) + CHUNK_SIZE < this_size(p)
    /\ InPlace(p, size, Resize(heap, chunk_of(p), aligned(size), p + aligned(size)))

\* Mutant: forgets that a header has to stay between the two.
CanGrow_NoHeader(p, size) ==
    /\ ~heap.used[next_chunk(p)]
    /\ get_size(heap, next_chunk(p)) + CHUNK_SIZE >= aligned(size) - this_size(p)

CanGrow(p, size) ==
    /\ ~heap.used[next_chunk(p)]
    /\ get_size(heap, next_chunk(p)) >= aligned(size) - this_size(p)

ReallocGrows(p, size) ==
    /\ aligned(size) >= this_size(p)
    /\ CanGrow(p, size)
    /\ InPlace(p, size, Resize(heap, chunk_of(p), aligned(size),
                               heap.next[next_chunk(p)]))

\* Relocation: malloc a new block, or get null from it at once.
ReallocRelocates(p, size) ==
    /\ aligned(size) >= this_size(p)
    /\ ~CanGrow(p, size)
    /\ IF Refused(size)
       THEN RelocationFailed(p) /\ UNCHANGED call
       ELSE BeginScan(size, p) /\ UNCHANGED <<heap, live, balance, smashed>>
    /\ UNCHANGED <<initial, heap_end>>

\* firstfit_realloc of a live block.
firstfit_realloc(p, size) ==
    /\ Callable
    /\ \/ ReallocKeeps(p, size)
       \/ ReallocShrinks(p, size)
       \/ ReallocGrows(p, size)
       \/ ReallocRelocates(p, size)

\* firstfit_free of a live block.
firstfit_free(p) ==
    /\ Callable
    /\ heap' = Release(heap, chunk_of(p))
    /\ live' = Without(live, p)
    /\ balance' = balance - 1
    /\ UNCHANGED <<initial, heap_end, call, smashed>>

Scan == ScanStep \/ ScanFails \/ ScanTakes \/ ScanRelocates

Next ==
    \/ \E size \in MallocSizes : firstfit_malloc(size)
    \/ \E p \in DOMAIN live, size \in ReallocSizes : firstfit_realloc(p, size)
    \/ \E p \in DOMAIN live : firstfit_free(p)
    \/ Scan

Spec == Init /\ [][Next]_vars

\* A call, once begun, is executed to its end by the thread that made it.
FairSpec == Spec /\ WF_vars(Scan)
-----------------------------------------------------------------------------
(* Properties *)

Blocks == DOMAIN live

HeadersTyped(h) ==
    /\ Chunks(h) \subseteq Int
    /\ h.next \in [Chunks(h) -> Chunks(h)]
    /\ h.prev \in [Chunks(h) -> Chunks(h)]
    /\ h.used \in [Chunks(h) -> BOOLEAN]

\* The headers form rings of known addresses, this->current is one of them, and
\* a scan holds a header and, for a relocation, a live block.
TypeOK ==
    /\ HeadersTyped(heap) /\ heap.current \in Chunks(heap)
    /\ initial \in Chunks(heap) /\ heap_end \in Chunks(heap)
    /\ live \in [Blocks -> 0 .. WordSize - 1] /\ Blocks \subseteq Int
    /\ balance \in Int
    /\ smashed \subseteq Chunks(heap)
    /\ call # Idle =>
         /\ call = [kind |-> "scan", size |-> call.size,
                    old |-> call.old, chunk |-> call.chunk]
         /\ call.size \in 1 .. INT_MAX
         /\ call.old \in Blocks \union {Null}
         /\ call.chunk \in Chunks(heap)

Ring(h, first, last) ==
    /\ h.next[last] = first /\ h.used[last]
    /\ \A c \in Chunks(h) :
         /\ first <= c /\ c <= last
         /\ h.prev[h.next[c]] = c /\ h.next[h.prev[c]] = c
    /\ \A c \in Chunks(h) \ {last} :
         /\ chunk_data(c) <= h.next[c]
         /\ \A d \in Chunks(h) : d <= c \/ h.next[c] <= d

\* Whatever sequence of malloc, realloc and free is made, the list stays the
\* one the code's pointer arithmetic assumes: next and prev are inverse, the
\* headers follow each other in address order from initial to the sentinel
\* heap_end, every header has room before the next one, and no header of the
\* ring is skipped by a next pointer.
RingOK == Ring(heap, initial, heap_end)

Merged(h) == \A c \in Chunks(h) : h.used[c] \/ h.used[h.next[c]]

\* Free chunks are always merged: two neighbours are never both free.  The
\* splitting malloc relies on it when it marks the following chunk as used
\* without looking (ff_alloc.c:194).
NoAdjacentFree == Merged(heap)

\* Every used chunk is the block of a client and has the bytes asked for.
Held(h, last, blocks) ==
    /\ \A c \in Chunks(h) \ {last} : h.used[c] <=> chunk_data(c) \in DOMAIN blocks
    /\ \A p \in DOMAIN blocks :
         /\ chunk_of(p) \in Chunks(h) \ {last}
         /\ blocks[p] <= WordSize - ALIGN => blocks[p] <= get_size(h, chunk_of(p))

\* The chunks marked as used are exactly the blocks the clients hold, and a
\* block has the bytes its client asked for before the next header.  The
\* size is rounded up in 32 bits, so a realloc to more than WordSize - ALIGN
\* bytes is rounded to 0 and is the exception.
BlocksOK == Held(heap, heap_end, live)

\* When every block has been freed the heap is the single free chunk that
\* firstfit_new made: splitting and merging leave no fragment behind.
EmptyHeapIsOneChunk ==
    Blocks = {} => Chunks(heap) = {initial, heap_end}

\* The statistics agree with the heap: n_malloc - n_free is the number of
\* blocks in use, also after relocations and failed reallocs.
StatsCount == balance = Cardinality(Blocks)

\* No memcpy of a relocating realloc runs over the header after the new block.
HeadersIntact == smashed = {}

\* malloc gives null only when no chunk of the heap could serve the request:
\* the walk from this->current reaches every chunk before it gives up.
NullMeansNoFit ==
    [][ScanFails => \A c \in Chunks(heap) : ~fits(heap, c, call.size)]_vars

\* Every call returns: the walk around the ring ends.
CallReturns == call # Idle ~> call = Idle

\* ff_alloc.c:35 and 69: data are aligned by ALIGN, chunk pointers are always
\* ALIGN * n - CHUNK_SIZE.
ChunksAligned == \A c \in Chunks(heap) : chunk_data(c) % ALIGN = 0

\* ff_alloc.c:45: a heap that firstfit_new accepts can store at least 1 byte.
FreshHeapHoldsAByte ==
    Blocks = {} => \E c \in Chunks(heap) : fits(heap, c, 1)
=============================================================================
