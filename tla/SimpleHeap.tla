----------------------------- MODULE SimpleHeap -----------------------------
(***************************************************************************)
(* The PIM memory heap: SimpleHeap<Allocator> of                           *)
(* runtime/include/manager/simple_heap.hpp, a best-fit allocator that      *)
(* carves whole blocks, obtained from a block allocator, into fragments    *)
(* and merges free neighbours eagerly.  One action per path through        *)
(* alloc(), free() and trim(); a call is one atomic step because the heap  *)
(* has no lock and is only entered by the thread that calls the API.       *)
(*                                                                         *)
(* Units.  Every address and size the heap stores is a multiple of         *)
(* align_size_, so addresses and sizes are counted in units of it; only    *)
(* the bytes argument of alloc() is in bytes, and get_aligned_bytes does   *)
(* the conversion, single-precision rounding included.                     *)
(*                                                                         *)
(* Flattening.  block_list_ is a map of maps.  Its keys are block_list_    *)
(* and its inner maps are the one function frags, whose entries say which  *)
(* inner map (block) they sit in.  free_list_ is a multimap from size to   *)
(* base: a set of pairs here, so that among entries of equal size any one  *)
(* may be taken where the code takes the oldest.                           *)
(***************************************************************************)
EXTENDS Integers, Sequences, FiniteSets

CONSTANTS
  Blocks,      \* base addresses of the blocks the block allocator can supply
  BlockSize,   \* block_size() of the block allocator, in units
  Requests,    \* byte counts clients ask for
  AlignSize,   \* align_size_, in bytes
  FloatDigits  \* significant binary digits of a float

VARIABLES
  free_list_,    \* set of [size, base]: the free fragments by size
  block_list_,   \* bases of the blocks that hold fragments
  frags,         \* base -> [block, size, free]: the inner maps
  block_cache_,  \* sequence of bases of whole free blocks kept for reuse
  in_use_size_,  \* units in the blocks of block_list_
  cache_size_,   \* units in the blocks of block_cache_
  live,          \* history: [ptr, bytes] of what clients hold
  ret            \* history: what the last call returned

heapVars == <<free_list_, block_list_, frags, block_cache_, in_use_size_,
              cache_size_>>
vars == <<heapVars, live, ret>>

Null == 0

Addr == UNION {b .. (b + BlockSize - 1) : b \in Blocks}

-----------------------------------------------------------------------------
(* get_aligned_bytes: align_size_ * ceil((float)bytes / align_size_)       *)

\* The distance between neighbouring floats around n.
Ulp(n) ==
  2 ^ (CHOOSE e \in 0 .. 64 :
         /\ n \div 2 ^ e < 2 ^ FloatDigits
         /\ e = 0 \/ n \div 2 ^ (e - 1) >= 2 ^ FloatDigits)

\* (float)n: the nearest float, ties to the even one.
ToFloat(n) ==
  LET u == Ulp(n)
      q == n \div u
      r == n % u
  IN  u * (IF 2 * r > u \/ (2 * r = u /\ q % 2 = 1) THEN q + 1 ELSE q)

CeilDiv(n, d) == (n + d - 1) \div d

\* Dividing by align_size_, a power of two, is exact.  In units.
get_aligned_bytes(bytes) == CeilDiv(ToFloat(bytes), AlignSize)

\* What a client that asked for bytes may touch, in units.
Need(bytes) == CeilDiv(bytes, AlignSize)

-----------------------------------------------------------------------------
HeapAssumption ==
  /\ BlockSize \in Nat \ {0}
  /\ Blocks \subseteq Nat \ {0}
  /\ \A b, c \in Blocks : b < c => b + BlockSize <= c

RequestAssumption ==
  \A bytes \in Requests : get_aligned_bytes(bytes) \in Nat

ASSUME HeapConstants == HeapAssumption /\ RequestAssumption

\* Requests for which get_aligned_bytes is neither zero (an empty buffer) nor
\* short of the request (the float rounded it down past a unit): the ones the
\* theorems about the heap are for.
SafeRequests ==
  \A bytes \in Requests :
    /\ bytes \in Nat
    /\ Need(bytes) \in Nat \ {0}
    /\ Need(bytes) <= get_aligned_bytes(bytes)

-----------------------------------------------------------------------------
(* Lookups.                                                                *)

\* block_list_.upper_bound(x), then one back: the last block at or below x.
IsContainingBlock(b, x) ==
  /\ b \in block_list_ /\ b <= x
  /\ \A c \in block_list_ : c <= x => c <= b

\* frag_map.find(x) in the containing block.
Found(x) ==
  /\ x \in DOMAIN frags
  /\ IsContainingBlock(frags[x].block, x)

FragMap(b) == {x \in DOMAIN frags : frags[x].block = b}

isFree(x) == frags[x].free

\* free_list_.lower_bound(n): an entry of the least size that is enough.
LowerBound(e, n) ==
  /\ e \in free_list_ /\ e.size >= n
  /\ \A o \in free_list_ : o.size >= n => e.size <= o.size

NoFit(n) == \A e \in free_list_ : e.size < n

makeFragment(b, size, free) == [block |-> b, size |-> size, free |-> free]

\* frag_map[x] = v
SetFrag(f, x, v) ==
  [y \in DOMAIN f \cup {x} |-> IF y = x THEN v ELSE f[y]]

Rest(base, size, n) ==
  IF size > n THEN {[size |-> size - n, base |-> base + n]} ELSE {}

-----------------------------------------------------------------------------
Init ==
  /\ free_list_ = {}
  /\ block_list_ = {}
  /\ frags = [x \in {} |-> [block |-> 0, size |-> 0, free |-> FALSE]]
  /\ block_cache_ = <<>>
  /\ in_use_size_ = 0
  /\ cache_size_ = 0
  /\ live = {}
  /\ ret = [op |-> "init", ok |-> TRUE, ptr |-> Null]

Allocated(bytes, p) ==
  /\ live' = live \cup {[ptr |-> p, bytes |-> bytes]}
  /\ ret' = [op |-> "alloc", ok |-> TRUE, ptr |-> p]

AllocFailed ==
  /\ ret' = [op |-> "alloc", ok |-> FALSE, ptr |-> Null]
  /\ UNCHANGED <<heapVars, live>>

\* Larger than max_alloc().
AllocTooLarge(bytes) ==
  /\ get_aligned_bytes(bytes) > BlockSize
  /\ AllocFailed

\* Best fit: shrink the fragment to the request, publish what remains.
AllocFragment(bytes) ==
  LET n == get_aligned_bytes(bytes) IN
  /\ n <= BlockSize
  /\ \E e \in free_list_ :
       LET base == e.base
           b    == frags[base].block
           used == SetFrag(frags, base, makeFragment(b, n, FALSE))
       IN  /\ LowerBound(e, n)
           /\ Found(base)
           /\ free_list_' = (free_list_ \ {e}) \cup Rest(base, e.size, n)
           /\ frags' = IF e.size > n
                         THEN SetFrag(used, base + n,
                                      makeFragment(b, e.size - n, TRUE))
                         ELSE used
           /\ Allocated(bytes, base)
  /\ UNCHANGED <<block_list_, block_cache_, in_use_size_, cache_size_>>

\* Mutant of CarveBlock: in_use_size_ is not counted.
CarveBlock_uncounted(bytes, b) ==
  LET n == get_aligned_bytes(bytes)
      rest == IF BlockSize > n
                THEN SetFrag(frags, b + n,
                             makeFragment(b, BlockSize - n, TRUE))
                ELSE frags
  IN  /\ free_list_' = free_list_ \cup Rest(b, BlockSize, n)
      /\ frags' = SetFrag(rest, b, makeFragment(b, n, FALSE))
      /\ block_list_' = block_list_ \cup {b}
      /\ Allocated(bytes, b)
      /\ UNCHANGED in_use_size_

\* The tail of alloc(): carve the request from the front of whole block b.
CarveBlock(bytes, b) ==
  LET n == get_aligned_bytes(bytes)
      rest == IF BlockSize > n
                THEN SetFrag(frags, b + n,
                             makeFragment(b, BlockSize - n, TRUE))
                ELSE frags
  IN  /\ in_use_size_' = in_use_size_ + BlockSize
      /\ free_list_' = free_list_ \cup Rest(b, BlockSize, n)
      /\ frags' = SetFrag(rest, b, makeFragment(b, n, FALSE))
      /\ block_list_' = block_list_ \cup {b}
      /\ Allocated(bytes, b)

\* Mutant of AllocCachedBlock: the block is not taken out of the cache.
AllocCachedBlock_kept(bytes) ==
  /\ get_aligned_bytes(bytes) <= BlockSize
  /\ NoFit(get_aligned_bytes(bytes))
  /\ block_cache_ # <<>>
  /\ UNCHANGED <<block_cache_, cache_size_>>
  /\ CarveBlock(bytes, block_cache_[Len(block_cache_)])

\* Mutant of AllocCachedBlock: cache_size_ is not reduced.
AllocCachedBlock_uncounted(bytes) ==
  /\ get_aligned_bytes(bytes) <= BlockSize
  /\ NoFit(get_aligned_bytes(bytes))
  /\ block_cache_ # <<>>
  /\ block_cache_' = SubSeq(block_cache_, 1, Len(block_cache_) - 1)
  /\ UNCHANGED cache_size_
  /\ CarveBlock(bytes, block_cache_[Len(block_cache_)])

\* No fragment fits: take the newest cached block.
AllocCachedBlock(bytes) ==
  /\ get_aligned_bytes(bytes) <= BlockSize
  /\ NoFit(get_aligned_bytes(bytes))
  /\ block_cache_ # <<>>
  /\ block_cache_' = SubSeq(block_cache_, 1, Len(block_cache_) - 1)
  /\ cache_size_' = cache_size_ - BlockSize
  /\ CarveBlock(bytes, block_cache_[Len(block_cache_)])

\* No fragment fits and nothing is cached: ask the block allocator.
AllocNewBlock(bytes) ==
  /\ get_aligned_bytes(bytes) <= BlockSize
  /\ NoFit(get_aligned_bytes(bytes))
  /\ block_cache_ = <<>>
  /\ \E b \in Blocks \ block_list_ : CarveBlock(bytes, b)
  /\ UNCHANGED <<block_cache_, cache_size_>>

\* ... which has none to give or fails.
AllocNoBlock(bytes) ==
  /\ get_aligned_bytes(bytes) <= BlockSize
  /\ NoFit(get_aligned_bytes(bytes))
  /\ block_cache_ = <<>>
  /\ AllocFailed

-----------------------------------------------------------------------------
(* free(): the free neighbours of x in its inner map, at most one on each  *)
(* side.                                                                   *)

\* Mutant of LowerFree: the lower neighbour is never merged.
LowerFree_never(x) == {}

LowerFree(x) ==
  {y \in FragMap(frags[x].block) :
     /\ y < x /\ isFree(y)
     /\ \A z \in FragMap(frags[x].block) : z < x => z <= y}

\* Mutant of UpperFree: the upper neighbour is merged even when in use.
UpperFree_unchecked(x) ==
  {y \in FragMap(frags[x].block) :
     /\ y > x
     /\ \A z \in FragMap(frags[x].block) : z > x => z >= y}

UpperFree(x) ==
  {y \in FragMap(frags[x].block) :
     /\ y > x /\ isFree(y)
     /\ \A z \in FragMap(frags[x].block) : z > x => z >= y}

Merging(x) == {x} \cup LowerFree(x) \cup UpperFree(x)

MergedBase(x) ==
  IF LowerFree(x) = {} THEN x ELSE CHOOSE y \in LowerFree(x) : TRUE

\* Mutant of MergedSize: the upper neighbour's size is not added.
MergedSize_noUpper(x) ==
  (IF LowerFree(x) = {} THEN 0 ELSE frags[CHOOSE y \in LowerFree(x) : TRUE].size)
    + frags[x].size

MergedSize(x) ==
  LET SizeOf(S) == IF S = {} THEN 0 ELSE frags[CHOOSE y \in S : TRUE].size
  IN  SizeOf(LowerFree(x)) + frags[x].size + SizeOf(UpperFree(x))

\* Mutant of Absorbed: the upper neighbour's entry is left in free_list_.
Absorbed_lowerOnly(x) ==
  {[size |-> frags[y].size, base |-> y] : y \in LowerFree(x)}

\* The free-list entries of the absorbed neighbours.
Absorbed(x) ==
  {[size |-> frags[y].size, base |-> y] : y \in LowerFree(x) \cup UpperFree(x)}

\* Mutant of Released: the loop stops one block early.
Released_early(cached, total, inUse) ==
  IF cached <= 2 \/ total <= inUse * 2 THEN 0 ELSE 1

\* How many blocks the cache-limit loop releases from the front.
Released(cached, total, inUse) ==
  CHOOSE k \in 0 .. cached :
    /\ cached - k <= 1 \/ total - k * BlockSize <= inUse * 2
    /\ \A j \in 0 .. cached :
         j < k => ~(cached - j <= 1 \/ total - j * BlockSize <= inUse * 2)

Freed(ptr) ==
  /\ live' = {l \in live : l.ptr # ptr}
  /\ ret' = [op |-> "free", ok |-> TRUE, ptr |-> ptr]

FreeNull ==
  /\ ret' = [op |-> "free", ok |-> TRUE, ptr |-> Null]
  /\ UNCHANGED <<heapVars, live>>

\* Unknown pointers and fragments already free are refused.
FreeRefused(ptr) ==
  /\ ~(Found(ptr) /\ ~isFree(ptr))
  /\ ret' = [op |-> "free", ok |-> FALSE, ptr |-> ptr]
  /\ UNCHANGED <<heapVars, live>>

\* Mutant of FreeFragment: a fragment already free is freed again.
FreeFragment_twice(ptr) ==
  /\ Found(ptr)
  /\ FragMap(frags[ptr].block) # Merging(ptr)
  /\ LET base == MergedBase(ptr)
         size == MergedSize(ptr)
         left == [y \in DOMAIN frags \ Merging(ptr) |-> frags[y]]
     IN  /\ frags' = SetFrag(left, base,
                             makeFragment(frags[ptr].block, size, TRUE))
         /\ free_list_' = (free_list_ \ Absorbed(ptr))
                            \cup {[size |-> size, base |-> base]}
  /\ Freed(ptr)
  /\ UNCHANGED <<block_list_, block_cache_, in_use_size_, cache_size_>>

\* The block keeps other fragments: publish the merged one.
FreeFragment(ptr) ==
  /\ Found(ptr) /\ ~isFree(ptr)
  /\ FragMap(frags[ptr].block) # Merging(ptr)
  /\ LET base == MergedBase(ptr)
         size == MergedSize(ptr)
         left == [y \in DOMAIN frags \ Merging(ptr) |-> frags[y]]
     IN  /\ frags' = SetFrag(left, base,
                             makeFragment(frags[ptr].block, size, TRUE))
         /\ free_list_' = (free_list_ \ Absorbed(ptr))
                            \cup {[size |-> size, base |-> base]}
  /\ Freed(ptr)
  /\ UNCHANGED <<block_list_, block_cache_, in_use_size_, cache_size_>>

\* Mutant of FreeBlock: the freed block's size stays in in_use_size_.
FreeBlock_uncounted(ptr) ==
  /\ Found(ptr) /\ ~isFree(ptr)
  /\ FragMap(frags[ptr].block) = Merging(ptr)
  /\ LET cache == Append(block_cache_, MergedBase(ptr))
         total == cache_size_ + MergedSize(ptr)
         k     == Released(Len(cache), total, in_use_size_)
     IN  /\ block_cache_' = SubSeq(cache, k + 1, Len(cache))
         /\ cache_size_' = total - k * BlockSize
  /\ frags' = [y \in DOMAIN frags \ Merging(ptr) |-> frags[y]]
  /\ free_list_' = free_list_ \ Absorbed(ptr)
  /\ block_list_' = block_list_ \ {frags[ptr].block}
  /\ Freed(ptr)
  /\ UNCHANGED in_use_size_

\* One fragment is left: the block moves to the cache, and the oldest cached
\* blocks go back to the block allocator while the cache is over its limit.
FreeBlock(ptr) ==
  /\ Found(ptr) /\ ~isFree(ptr)
  /\ FragMap(frags[ptr].block) = Merging(ptr)
  /\ LET size  == MergedSize(ptr)
         cache == Append(block_cache_, MergedBase(ptr))
         total == cache_size_ + size
         k     == Released(Len(cache), total, in_use_size_ - size)
     IN  /\ in_use_size_' = in_use_size_ - size
         /\ block_cache_' = SubSeq(cache, k + 1, Len(cache))
         /\ cache_size_' = total - k * BlockSize
  /\ frags' = [y \in DOMAIN frags \ Merging(ptr) |-> frags[y]]
  /\ free_list_' = free_list_ \ Absorbed(ptr)
  /\ block_list_' = block_list_ \ {frags[ptr].block}
  /\ Freed(ptr)

\* Give every cached block back; the destructor calls it.
trim ==
  /\ block_cache_ # <<>>
  /\ block_cache_' = <<>>
  /\ cache_size_' = 0
  /\ ret' = [op |-> "trim", ok |-> TRUE, ptr |-> Null]
  /\ UNCHANGED <<free_list_, block_list_, frags, in_use_size_, live>>

-----------------------------------------------------------------------------
alloc(bytes) ==
  \/ AllocTooLarge(bytes)
  \/ AllocFragment(bytes)
  \/ AllocCachedBlock(bytes)
  \/ AllocNewBlock(bytes)
  \/ AllocNoBlock(bytes)

free(ptr) ==
  \/ FreeRefused(ptr)
  \/ FreeFragment(ptr)
  \/ FreeBlock(ptr)

Next ==
  \/ \E bytes \in Requests : alloc(bytes)
  \/ \E ptr \in Addr : free(ptr)
  \/ FreeNull
  \/ trim

Spec == Init /\ [][Next]_vars

-----------------------------------------------------------------------------
(* Properties.                                                             *)

Fragment == [block : Blocks, size : Nat, free : BOOLEAN]

\* The heap's maps, lists and counters have the shapes alloc() and free()
\* build: fragments of known blocks, non-negative counters (size_t).
TypeOK ==
  /\ free_list_ \subseteq [size : Nat, base : Addr]
  /\ block_list_ \subseteq Blocks
  /\ DOMAIN frags \subseteq Addr
  /\ frags \in [DOMAIN frags -> Fragment]
  /\ block_cache_ \in Seq(Blocks)
  /\ in_use_size_ \in Nat
  /\ cache_size_ \in Nat
  /\ live \subseteq [ptr : Addr, bytes : Requests]
  /\ ret \in [op : {"init", "alloc", "free", "trim"}, ok : BOOLEAN,
              ptr : Addr \cup {Null}]

\* Fragments exactly tile every listed block: each lies in its block, starts
\* where the block starts or where another fragment of the block ends, ends
\* where the block ends or another begins, and covers no other's base.  So
\* carving and merging neither lose memory nor hand it out twice.
Tiled ==
  /\ block_list_ \subseteq DOMAIN frags
  /\ \A x \in DOMAIN frags :
       LET b == frags[x].block
           e == x + frags[x].size
       IN  /\ b \in block_list_
           /\ frags[x].size > 0
           /\ b <= x /\ e <= b + BlockSize
           /\ x = b \/ \E y \in FragMap(b) : y + frags[y].size = x
           /\ e = b + BlockSize \/ e \in FragMap(b)
           /\ \A y \in DOMAIN frags : y <= x \/ e <= y

\* free_list_ holds exactly the free fragments, with their sizes: what the
\* "Inconsistency in SimpleHeap." assertions of alloc() rely on.
FreeListExact ==
  free_list_ = {[size |-> frags[x].size, base |-> x] :
                  x \in {y \in DOMAIN frags : isFree(y)}}

\* Eager compaction: free() never leaves two free fragments side by side in
\* a block, nor a block that is one free fragment outside the cache.
Compacted ==
  \A x \in DOMAIN frags :
    isFree(x) =>
      /\ \A y \in FragMap(frags[x].block) : isFree(y) => y # x + frags[x].size
      /\ frags[x].size < BlockSize

\* What clients hold is exactly the fragments in use, sized for the request.
LiveExact ==
  /\ \A l \in live :
       /\ l.ptr \in DOMAIN frags
       /\ ~isFree(l.ptr)
       /\ frags[l.ptr].size = get_aligned_bytes(l.bytes)
  /\ \A x \in DOMAIN frags : ~isFree(x) => \E l \in live : l.ptr = x
  /\ \A l, m \in live : l.ptr = m.ptr => l = m

\* A block is listed, cached or with the block allocator, never two of them.
CacheApart ==
  /\ \A i \in DOMAIN block_cache_ : block_cache_[i] \notin block_list_
  /\ \A i, j \in DOMAIN block_cache_ :
       i # j => block_cache_[i] # block_cache_[j]

\* The memory of two allocations a client holds never overlaps: the range
\* each asked for in bytes ends before the other begins.
NoOverlap ==
  \A l, m \in live :
    l # m => \/ l.ptr + Need(l.bytes) <= m.ptr
             \/ m.ptr + Need(m.bytes) <= l.ptr

\* in_use_size_ and cache_size_ count exactly the blocks in use and cached.
Accounting ==
  /\ in_use_size_ = BlockSize * Cardinality(block_list_)
  /\ cache_size_ = BlockSize * Len(block_cache_)

\* The release loop of free() keeps the cache within twice what is in use,
\* one block excepted, whatever is allocated afterwards.
CacheBounded ==
  Len(block_cache_) > 1 => cache_size_ <= in_use_size_ * 2

\* When clients have freed everything, every block has left block_list_: the
\* "Leak in SimpleHeap." check of the destructor could be enabled.
NoLeak == live = {} => block_list_ = {} /\ in_use_size_ = 0

\* alloc() returns memory nobody holds or null, and free() succeeds exactly
\* for a pointer alloc() handed out and that was not freed since: the heap
\* implements the abstract allocator its callers rely on.
Allocator ==
  INSTANCE PimAllocator
    WITH Blocks <- Blocks, BlockSize <- BlockSize, Requests <- Requests, Need <- Need,
         live <- live, ret <- ret
AllocatorSpec == Allocator!Spec

\* An allocation has the required size: every byte the client asked for lies
\* in the fragment it was given.
RequiredSize == \A l \in live : frags[l.ptr].size >= Need(l.bytes)
=============================================================================
