-------------------------- MODULE SimpleHeapProofs --------------------------
(***************************************************************************)
(* Theorems about SimpleHeap, for every set of blocks, every block size    *)
(* and every set of requests the heap serves in full (SafeRequests).       *)
(***************************************************************************)
EXTENDS SimpleHeap, FiniteSetTheorems, SequenceTheorems,
        WellFoundedInduction, TLAPS

-----------------------------------------------------------------------------
(* The structural half of the inductive invariant: the three views of      *)
(* memory (fragments, free list, what clients hold) agree.                 *)

MapsOK ==
  /\ block_list_ \subseteq Blocks
  /\ IsFiniteSet(block_list_)
  /\ frags \in [DOMAIN frags -> [block : Blocks, size : Nat, free : BOOLEAN]]
  /\ DOMAIN frags \subseteq Addr
  /\ block_cache_ \in Seq(Blocks)
  /\ live \subseteq [ptr : Addr, bytes : Requests]
  /\ ret \in [op : {"init", "alloc", "free", "trim"}, ok : BOOLEAN,
              ptr : Addr \cup {Null}]

HeapInv ==
  /\ MapsOK
  /\ Tiled
  /\ FreeListExact
  /\ Compacted
  /\ LiveExact
  /\ CacheApart
  /\ Accounting

-----------------------------------------------------------------------------
(* Facts about the constants.                                              *)

LEMMA BlockFacts ==
  /\ BlockSize \in Nat /\ BlockSize > 0
  /\ \A b \in Blocks : b \in Nat /\ b > 0
  /\ \A b, c \in Blocks : b # c => b + BlockSize <= c \/ c + BlockSize <= b
BY HeapConstants DEF HeapAssumption

\* Addresses are natural numbers, and a block's interior consists of
\* addresses.
LEMMA AddrFacts ==
  /\ \A x \in Addr : x \in Nat
  /\ \A b \in Blocks : \A x \in Nat : b <= x /\ x < b + BlockSize => x \in Addr
<1>1. \A x \in Addr : x \in Nat
  BY BlockFacts DEF Addr
<1>2. ASSUME NEW b \in Blocks, NEW x \in Nat, b <= x, x < b + BlockSize
      PROVE  x \in Addr
  <2>1. x \in b .. (b + BlockSize - 1)
    BY <1>2, BlockFacts
  <2> QED BY <2>1 DEF Addr
<1> QED BY <1>1, <1>2

\* A safe request is aligned to a positive size that covers it.
LEMMA RequestFacts ==
  ASSUME SafeRequests, NEW bytes \in Requests
  PROVE  /\ get_aligned_bytes(bytes) \in Nat
         /\ get_aligned_bytes(bytes) > 0
         /\ Need(bytes) \in Nat
         /\ Need(bytes) <= get_aligned_bytes(bytes)
BY HeapConstants DEF RequestAssumption, SafeRequests

-----------------------------------------------------------------------------
(* Facts about a tiled heap.                                               *)

\* A fragment in terms of its parts.
LEMMA FragFacts ==
  ASSUME MapsOK, Tiled, NEW x \in DOMAIN frags
  PROVE  /\ x \in Nat
         /\ frags[x].block \in Blocks /\ frags[x].block \in Nat
         /\ frags[x].size \in Nat /\ frags[x].size > 0
         /\ frags[x].free \in BOOLEAN
         /\ frags[x] = [block |-> frags[x].block, size |-> frags[x].size,
                        free |-> frags[x].free]
         /\ frags[x].block \in block_list_
         /\ frags[x].block <= x
         /\ x + frags[x].size <= frags[x].block + BlockSize
<1>1. frags[x] \in [block : Blocks, size : Nat, free : BOOLEAN]
  BY DEF MapsOK
<1>2. x \in Nat
  BY AddrFacts DEF MapsOK
<1> QED
  BY <1>1, <1>2, BlockFacts DEF Tiled

\* Fragments of different blocks are apart, and two fragments never overlap.
LEMMA Apart ==
  ASSUME MapsOK, Tiled,
         NEW x \in DOMAIN frags, NEW y \in DOMAIN frags, x # y
  PROVE  x + frags[x].size <= y \/ y + frags[y].size <= x
BY FragFacts DEF Tiled

\* Nothing lies in the range of a block that is not listed.
LEMMA BlockUnused ==
  ASSUME MapsOK, Tiled, NEW b \in Blocks, b \notin block_list_,
         NEW x \in DOMAIN frags
  PROVE  x + frags[x].size <= b \/ b + BlockSize <= x
<1>1. frags[x].block # b
  BY FragFacts
<1> QED
  BY <1>1, FragFacts, BlockFacts

\* Looking a fragment up finds it in the block it was put in.
LEMMA FoundFacts ==
  ASSUME MapsOK, Tiled, NEW x \in DOMAIN frags
  PROVE  Found(x)
<1>1. ASSUME NEW c \in block_list_, c <= x
      PROVE  c <= frags[x].block
  <2>1. c \in Blocks
    BY DEF MapsOK
  <2> QED BY <1>1, <2>1, FragFacts, BlockFacts
<1> QED BY <1>1, FragFacts DEF Found, IsContainingBlock

-----------------------------------------------------------------------------
(* alloc() preserves the invariant.                                        *)

LEMMA InitInv == Init => HeapInv
<1> SUFFICES ASSUME Init PROVE HeapInv
  OBVIOUS
<1>1. DOMAIN frags = {} /\ free_list_ = {} /\ live = {} /\ block_list_ = {}
  BY DEF Init
<1>2. MapsOK
  <2>1. frags \in [DOMAIN frags -> [block : Blocks, size : Nat, free : BOOLEAN]]
    BY DEF Init
  <2>2. block_cache_ \in Seq(Blocks)
    BY DEF Init
  <2> QED BY <1>1, <2>1, <2>2, FS_EmptySet DEF MapsOK, Init
<1>3. Tiled /\ Compacted /\ LiveExact /\ FreeListExact
  BY <1>1 DEF Tiled, Compacted, LiveExact, FreeListExact, FragMap
<1>4. CacheApart
  BY DEF CacheApart, Init
<1>5. Accounting
  BY <1>1, FS_EmptySet, BlockFacts DEF Accounting, Init
<1> QED BY <1>2, <1>3, <1>4, <1>5 DEF HeapInv

\* Splitting the free fragment x into n units in use and a free rest, if any.
LEMMA AllocFragmentInv ==
  ASSUME SafeRequests, HeapInv, NEW bytes \in Requests, AllocFragment(bytes)
  PROVE  HeapInv'
<1> DEFINE n == get_aligned_bytes(bytes)
<1>1. n \in Nat /\ n > 0
  BY RequestFacts
<1>2. PICK e \in free_list_ :
        /\ LowerBound(e, n)
        /\ free_list_' = (free_list_ \ {e}) \cup Rest(e.base, e.size, n)
        /\ frags' = IF e.size > n
                      THEN SetFrag(SetFrag(frags, e.base,
                                      makeFragment(frags[e.base].block, n, FALSE)),
                                   e.base + n,
                                   makeFragment(frags[e.base].block,
                                                e.size - n, TRUE))
                      ELSE SetFrag(frags, e.base,
                              makeFragment(frags[e.base].block, n, FALSE))
        /\ Allocated(bytes, e.base)
  BY DEF AllocFragment
<1> DEFINE x == e.base
           s == e.size
           b == frags[x].block
           D == DOMAIN frags
<1>3. /\ x \in D /\ frags[x].free /\ frags[x].size = s
      /\ e = [size |-> s, base |-> x]
  BY DEF HeapInv, FreeListExact, isFree
<1>4. /\ x \in Nat /\ s \in Nat /\ b \in Blocks /\ b \in Nat
      /\ n <= s /\ b \in block_list_ /\ b <= x /\ x + s <= b + BlockSize
  BY <1>1, <1>2, <1>3, FragFacts DEF LowerBound, HeapInv
<1>5. UNCHANGED <<block_list_, block_cache_, in_use_size_, cache_size_>>
  BY DEF AllocFragment
<1>6. ASSUME NEW y \in D, y # x PROVE y + frags[y].size <= x \/ x + s <= y
  BY <1>3, <1>6, Apart DEF HeapInv
<1>7. \A y \in D : /\ y \in Nat /\ frags[y].size \in Nat /\ frags[y].size > 0
                   /\ frags[y] \in [block : Blocks, size : Nat, free : BOOLEAN]
  BY FragFacts DEF HeapInv, MapsOK
<1>8. live' = live \cup {[ptr |-> x, bytes |-> bytes]}
  BY <1>2 DEF Allocated
<1>9. /\ DOMAIN frags' = IF s > n THEN D \cup {x + n} ELSE D
      /\ frags' = [y \in DOMAIN frags' |-> frags'[y]]
      /\ frags'[x] = [block |-> b, size |-> n, free |-> FALSE]
      /\ \A y \in D \ {x} : frags'[y] = frags[y]
      /\ s > n => /\ x + n \notin D
                 /\ frags'[x + n] = [block |-> b, size |-> s - n, free |-> TRUE]
  <2>1. s > n => x + n \notin D
    BY <1>1, <1>3, <1>4, <1>6, <1>7
  <2>2. x + n # x
    BY <1>1, <1>4
  <2> QED BY <1>2, <1>3, <2>1, <2>2 DEF SetFrag, makeFragment
<1> HIDE DEF n, x, s, b, D
<1>10. MapsOK'
  <2>1. ret' \in [op : {"init", "alloc", "free", "trim"}, ok : BOOLEAN,
                  ptr : Addr \cup {Null}]
    BY <1>2, <1>3 DEF Allocated, HeapInv, MapsOK, x, D
  <2>2. live' \subseteq [ptr : Addr, bytes : Requests]
    BY <1>8, <1>3 DEF HeapInv, MapsOK, D
  <2>3. \A y \in DOMAIN frags' :
           frags'[y] \in [block : Blocks, size : Nat, free : BOOLEAN]
    <3>1. frags'[x] \in [block : Blocks, size : Nat, free : BOOLEAN]
      BY <1>9, <1>4, <1>1
    <3>2. s > n => s - n \in Nat
      BY <1>4, <1>1
    <3>3. ASSUME s > n
          PROVE  frags'[x + n] \in [block : Blocks, size : Nat, free : BOOLEAN]
      <4> DEFINE r == s - n
      <4>1. r \in Nat
        BY <3>2, <3>3
      <4>2. frags'[x + n] = [block |-> b, size |-> r, free |-> TRUE]
        BY <1>9, <3>3
      <4> HIDE DEF r
      <4> QED BY <4>1, <4>2, <1>4
    <3> QED BY <3>1, <3>3, <1>9, <1>7
  <2>4. DOMAIN frags' \subseteq Addr
    <3>1. s > n => x + n \in Addr
      BY <1>1, <1>4, AddrFacts, BlockFacts
    <3> QED BY <3>1, <1>9 DEF HeapInv, MapsOK, D
  <2> QED BY <1>5, <1>9, <2>1, <2>2, <2>3, <2>4 DEF HeapInv, MapsOK
<1>11. Tiled'
  <2>1. block_list_' \subseteq DOMAIN frags'
    BY <1>5, <1>9 DEF HeapInv, Tiled, D
  <2>2. ASSUME NEW y \in DOMAIN frags'
        PROVE  /\ frags'[y].block \in block_list_'
               /\ frags'[y].size > 0
               /\ frags'[y].block <= y
               /\ y + frags'[y].size <= frags'[y].block + BlockSize
    <3>1. CASE y = x
      BY <3>1, <1>1, <1>4, <1>5, <1>9, BlockFacts
    <3>2. CASE y # x /\ y \in D
      BY <3>2, <1>5, <1>9, FragFacts DEF D, HeapInv
    <3>3. CASE s > n /\ y = x + n
      BY <3>3, <1>1, <1>4, <1>5, <1>9, BlockFacts
    <3> QED BY <3>1, <3>2, <3>3, <1>9
  <2>3. ASSUME NEW y \in DOMAIN frags'
        PROVE  \A z \in DOMAIN frags' : z <= y \/ y + frags'[y].size <= z
    BY <1>1, <1>3, <1>4, <1>6, <1>7, <1>9, Apart DEF HeapInv, D
  <2>4. ASSUME NEW y \in DOMAIN frags'
        PROVE  \/ y = frags'[y].block
               \/ \E z \in DOMAIN frags' : /\ frags'[z].block = frags'[y].block
                                          /\ z + frags'[z].size = y
    <3>1. ASSUME NEW w \in D, w # frags[w].block, w = y
          PROVE  \E z \in DOMAIN frags' : /\ frags'[z].block = frags[w].block
                                         /\ z + frags'[z].size = w
      <4>1. PICK z \in D : frags[z].block = frags[w].block /\ z + frags[z].size = w
        BY <3>1 DEF HeapInv, Tiled, FragMap, D
      <4>2. CASE z # x
        BY <4>1, <4>2, <1>9
      <4>3. CASE z = x /\ s > n
        <5>1. x + n \in DOMAIN frags' /\ frags'[x + n].block = b
              /\ (x + n) + frags'[x + n].size = x + s
          BY <4>3, <1>9, <1>1, <1>4
        <5> QED BY <4>1, <4>3, <5>1, <1>3 DEF b
      <4>4. CASE z = x /\ ~(s > n)
        BY <4>1, <4>4, <1>9, <1>1, <1>3, <1>4 DEF b
      <4> QED BY <4>2, <4>3, <4>4
    <3>2. CASE y \in D
      <4>1. frags'[y].block = frags[y].block
        BY <3>2, <1>9 DEF b
      <4> QED BY <3>1, <3>2, <4>1
    <3>3. CASE s > n /\ y = x + n
      BY <3>3, <1>3, <1>9 DEF D
    <3> QED BY <3>2, <3>3, <1>9
  <2>5. ASSUME NEW y \in DOMAIN frags'
        PROVE  \/ y + frags'[y].size = frags'[y].block + BlockSize
               \/ /\ y + frags'[y].size \in DOMAIN frags'
                  /\ frags'[y + frags'[y].size].block = frags'[y].block
    <3>1. \A w \in D : w \in DOMAIN frags' /\ frags'[w].block = frags[w].block
      BY <1>9 DEF b
    <3>2. \A w \in D : \/ w + frags[w].size = frags[w].block + BlockSize
                       \/ /\ w + frags[w].size \in D
                          /\ frags[w + frags[w].size].block = frags[w].block
      BY DEF HeapInv, Tiled, FragMap, D
    <3>3. CASE y = x /\ s > n
      BY <3>3, <1>9, <1>1, <1>4
    <3>4. CASE y = x /\ ~(s > n)
      BY <3>1, <3>2, <3>4, <1>9, <1>1, <1>3, <1>4 DEF b
    <3>5. CASE y # x /\ y \in D
      BY <3>1, <3>2, <3>5, <1>9
    <3>6. CASE s > n /\ y = x + n
      <4>1. y + frags'[y].size = x + s
        BY <3>6, <1>1, <1>4, <1>9
      <4> QED BY <4>1, <3>1, <3>2, <3>6, <1>3, <1>9 DEF b
    <3> QED BY <3>3, <3>4, <3>5, <3>6, <1>9
  <2> QED BY <2>1, <2>2, <2>3, <2>4, <2>5 DEF Tiled, FragMap
<1>12. FreeListExact'
  <2> DEFINE E(f) == {[size |-> f[y].size, base |-> y] :
                        y \in {z \in DOMAIN f : f[z].free}}
  <2>1. free_list_ = E(frags)
    BY DEF HeapInv, FreeListExact, isFree
  <2>2. E(frags') = (E(frags) \ {e}) \cup Rest(x, s, n)
    <3>1. CASE s > n
      BY <3>1, <1>1, <1>3, <1>4, <1>9 DEF Rest, D
    <3>2. CASE ~(s > n)
      BY <3>2, <1>1, <1>3, <1>4, <1>9 DEF Rest, D
    <3> QED BY <3>1, <3>2
  <2>3. free_list_' = (free_list_ \ {e}) \cup Rest(x, s, n)
    BY <1>2 DEF x, s, n
  <2> QED BY <2>1, <2>2, <2>3 DEF FreeListExact, isFree
<1>13. Compacted'
  <2>1. ASSUME NEW y \in DOMAIN frags', frags'[y].free,
               NEW z \in DOMAIN frags', frags'[z].free,
               frags'[z].block = frags'[y].block
        PROVE  z # y + frags'[y].size
    <3>1. CASE y \in D /\ z \in D
      BY <2>1, <3>1, <1>9 DEF HeapInv, Compacted, FragMap, isFree, D
    <3>2. CASE s > n /\ y = x + n /\ z \in D
      BY <2>1, <3>2, <1>1, <1>3, <1>4, <1>9
         DEF HeapInv, Compacted, FragMap, isFree, D, b
    <3>3. CASE s > n /\ z = x + n
      BY <2>1, <3>3, <1>1, <1>3, <1>4, <1>6, <1>7, <1>9
    <3> QED BY <3>1, <3>2, <3>3, <1>9
  <2>2. ASSUME NEW y \in DOMAIN frags', frags'[y].free
        PROVE  frags'[y].size < BlockSize
    <3>1. s < BlockSize
      BY <1>3 DEF HeapInv, Compacted, isFree, D
    <3> QED BY <2>2, <3>1, <1>1, <1>4, <1>9, BlockFacts
               DEF HeapInv, Compacted, isFree, D
  <2> QED BY <2>1, <2>2 DEF Compacted, FragMap, isFree
<1>14. LiveExact'
  <2>1. \A l \in live : l.ptr # x
    BY <1>3 DEF HeapInv, LiveExact, isFree
  <2>2. \A l \in live' : /\ l.ptr \in DOMAIN frags'
                        /\ ~frags'[l.ptr].free
                        /\ frags'[l.ptr].size = get_aligned_bytes(l.bytes)
    <3>1. ASSUME NEW l \in live
          PROVE  l.ptr \in D \ {x} /\ ~frags[l.ptr].free
                 /\ frags[l.ptr].size = get_aligned_bytes(l.bytes)
      BY <2>1 DEF HeapInv, LiveExact, isFree, D
    <3> QED BY <3>1, <1>3, <1>8, <1>9 DEF n
  <2>3. \A y \in DOMAIN frags' : ~frags'[y].free => \E l \in live' : l.ptr = y
    <3>1. ASSUME NEW y \in DOMAIN frags', ~frags'[y].free
          PROVE  y = x \/ (y \in D /\ ~frags[y].free)
      BY <3>1, <1>9
    <3>2. ASSUME NEW y \in D, ~frags[y].free
          PROVE  \E l \in live : l.ptr = y
      BY <3>2 DEF HeapInv, LiveExact, isFree, D
    <3>3. \E l \in live' : l.ptr = x
      <4>1. [ptr |-> x, bytes |-> bytes].ptr = x
        OBVIOUS
      <4> QED BY <4>1, <1>8
    <3> QED BY <3>1, <3>2, <3>3, <1>8
  <2>4. \A l, m \in live' : l.ptr = m.ptr => l = m
    BY <1>8, <2>1 DEF HeapInv, LiveExact
  <2> QED BY <2>2, <2>3, <2>4 DEF LiveExact, isFree
<1>15. CacheApart' /\ Accounting'
  BY <1>5 DEF HeapInv, CacheApart, Accounting
<1> QED BY <1>10, <1>11, <1>12, <1>13, <1>14, <1>15 DEF HeapInv

\* Carving a request from the front of a whole block nothing lies in.
LEMMA CarveBlockInv ==
  ASSUME SafeRequests, HeapInv, NEW bytes \in Requests,
         get_aligned_bytes(bytes) <= BlockSize,
         NEW b \in Blocks, b \notin block_list_,
         block_cache_' \in Seq(Blocks),
         CarveBlock(bytes, b)
  PROVE  /\ MapsOK' /\ Tiled' /\ FreeListExact' /\ Compacted' /\ LiveExact'
         /\ in_use_size_' = BlockSize * Cardinality(block_list_')
<1> DEFINE n == get_aligned_bytes(bytes)
           D == DOMAIN frags
<1>1. n \in Nat /\ n > 0 /\ n <= BlockSize
  BY RequestFacts
<1>2. BlockSize \in Nat /\ BlockSize > 0 /\ b \in Nat /\ b > 0
  BY BlockFacts
<1>3. \A y \in D : y + frags[y].size <= b \/ b + BlockSize <= y
  BY BlockUnused DEF HeapInv
<1>4. \A y \in D : /\ y \in Nat /\ frags[y].size \in Nat /\ frags[y].size > 0
                   /\ frags[y] \in [block : Blocks, size : Nat, free : BOOLEAN]
                   /\ frags[y].block # b
  BY FragFacts DEF HeapInv, MapsOK
<1>5. b \notin D /\ b + n # b /\ (BlockSize > n => b + n \notin D)
  BY <1>1, <1>2, <1>3, <1>4
<1>6. /\ live' = live \cup {[ptr |-> b, bytes |-> bytes]}
      /\ block_list_' = block_list_ \cup {b}
      /\ in_use_size_' = in_use_size_ + BlockSize
      /\ free_list_' = free_list_ \cup Rest(b, BlockSize, n)
      /\ ret' = [op |-> "alloc", ok |-> TRUE, ptr |-> b]
  BY DEF Allocated, CarveBlock
<1>7. /\ DOMAIN frags' = IF BlockSize > n THEN D \cup {b, b + n} ELSE D \cup {b}
      /\ frags' = [y \in DOMAIN frags' |-> frags'[y]]
      /\ frags'[b] = [block |-> b, size |-> n, free |-> FALSE]
      /\ \A y \in D : frags'[y] = frags[y]
      /\ BlockSize > n =>
           frags'[b + n] = [block |-> b, size |-> BlockSize - n, free |-> TRUE]
  BY <1>5 DEF CarveBlock, SetFrag, makeFragment
<1>8. BlockSize > n => BlockSize - n \in Nat /\ BlockSize - n > 0
  BY <1>1, <1>2
<1> DEFINE r == BlockSize - n
<1> HIDE DEF n, D
<1>9. MapsOK'
  <2>1. b \in Addr
    BY <1>1, <1>2, AddrFacts
  <2>2. BlockSize > n => b + n \in Addr
    BY <1>1, <1>2, AddrFacts
  <2>3. ret' \in [op : {"init", "alloc", "free", "trim"}, ok : BOOLEAN,
                  ptr : Addr \cup {Null}]
    BY <1>6, <2>1
  <2>4. live' \subseteq [ptr : Addr, bytes : Requests]
    BY <1>6, <2>1 DEF HeapInv, MapsOK
  <2>5. DOMAIN frags' \subseteq Addr
    BY <1>7, <2>1, <2>2 DEF HeapInv, MapsOK, D
  <2>6. ASSUME NEW y \in DOMAIN frags'
        PROVE  frags'[y] \in [block : Blocks, size : Nat, free : BOOLEAN]
    <3>1. frags'[b] \in [block : Blocks, size : Nat, free : BOOLEAN]
      BY <1>7, <1>1
    <3>2. ASSUME BlockSize > n
          PROVE  frags'[b + n] \in [block : Blocks, size : Nat, free : BOOLEAN]
      <4>1. r \in Nat
        BY <1>8, <3>2
      <4>2. frags'[b + n] = [block |-> b, size |-> r, free |-> TRUE]
        BY <1>7, <3>2
      <4> HIDE DEF r
      <4> QED BY <4>1, <4>2
    <3>3. CASE y \in D
      BY <3>3, <1>4, <1>7
    <3>4. CASE y = b \/ (BlockSize > n /\ y = b + n)
      BY <3>1, <3>2, <3>4
    <3> QED BY <3>3, <3>4, <1>7
  <2>7. IsFiniteSet(block_list_')
    BY <1>6, FS_AddElement DEF HeapInv, MapsOK
  <2>8. block_list_' \subseteq Blocks
    BY <1>6 DEF HeapInv, MapsOK
  <2> QED BY <1>7, <2>3, <2>4, <2>5, <2>6, <2>7, <2>8 DEF MapsOK
<1>10. Tiled'
  <2>1. block_list_' \subseteq DOMAIN frags'
    BY <1>6, <1>7 DEF HeapInv, Tiled, D
  <2>2. ASSUME NEW y \in DOMAIN frags'
        PROVE  /\ frags'[y].block \in block_list_'
               /\ frags'[y].size > 0
               /\ frags'[y].block <= y
               /\ y + frags'[y].size <= frags'[y].block + BlockSize
    <3>1. CASE y \in D
      BY <3>1, <1>6, <1>7, FragFacts DEF HeapInv, D
    <3>2. CASE y = b
      BY <3>2, <1>1, <1>2, <1>6, <1>7
    <3>3. CASE BlockSize > n /\ y = b + n
      BY <3>3, <1>1, <1>2, <1>6, <1>7
    <3> QED BY <3>1, <3>2, <3>3, <1>7
  <2>3. ASSUME NEW y \in DOMAIN frags'
        PROVE  \A z \in DOMAIN frags' : z <= y \/ y + frags'[y].size <= z
    <3>1. \A v, w \in D : v <= w \/ w + frags[w].size <= v
      BY DEF HeapInv, Tiled, D
    <3> QED BY <3>1, <1>1, <1>2, <1>3, <1>4, <1>7, SMTT(30)
  <2>4. ASSUME NEW y \in DOMAIN frags'
        PROVE  \/ y = frags'[y].block
               \/ \E z \in DOMAIN frags' : /\ frags'[z].block = frags'[y].block
                                          /\ z + frags'[z].size = y
    <3>1. CASE y \in D
      <4>1. \/ y = frags[y].block
            \/ \E z \in D : frags[z].block = frags[y].block /\ z + frags[z].size = y
        BY <3>1 DEF HeapInv, Tiled, FragMap, D
      <4> QED BY <3>1, <4>1, <1>7
    <3>2. CASE y = b
      BY <3>2, <1>7
    <3>3. CASE BlockSize > n /\ y = b + n
      BY <3>3, <1>7
    <3> QED BY <3>1, <3>2, <3>3, <1>7
  <2>5. ASSUME NEW y \in DOMAIN frags'
        PROVE  \/ y + frags'[y].size = frags'[y].block + BlockSize
               \/ /\ y + frags'[y].size \in DOMAIN frags'
                  /\ frags'[y + frags'[y].size].block = frags'[y].block
    <3>1. CASE y \in D
      <4>1. \/ y + frags[y].size = frags[y].block + BlockSize
            \/ /\ y + frags[y].size \in D
               /\ frags[y + frags[y].size].block = frags[y].block
        BY <3>1 DEF HeapInv, Tiled, FragMap, D
      <4> QED BY <3>1, <4>1, <1>7
    <3>2. CASE y = b
      BY <3>2, <1>1, <1>2, <1>7
    <3>3. CASE BlockSize > n /\ y = b + n
      BY <3>3, <1>1, <1>2, <1>7
    <3> QED BY <3>1, <3>2, <3>3, <1>7
  <2> QED BY <2>1, <2>2, <2>3, <2>4, <2>5 DEF Tiled, FragMap
<1>11. FreeListExact'
  <2> DEFINE E(f) == {[size |-> f[y].size, base |-> y] :
                        y \in {z \in DOMAIN f : f[z].free}}
  <2>1. free_list_ = E(frags)
    BY DEF HeapInv, FreeListExact, isFree
  <2>2. E(frags') = E(frags) \cup Rest(b, BlockSize, n)
    <3>1. CASE BlockSize > n
      BY <3>1, <1>1, <1>2, <1>5, <1>7 DEF Rest, D
    <3>2. CASE ~(BlockSize > n)
      BY <3>2, <1>1, <1>2, <1>5, <1>7 DEF Rest, D
    <3> QED BY <3>1, <3>2
  <2> QED BY <2>1, <2>2, <1>6 DEF FreeListExact, isFree
<1>12. Compacted'
  <2>1. ASSUME NEW y \in DOMAIN frags', frags'[y].free,
               NEW z \in DOMAIN frags', frags'[z].free,
               frags'[z].block = frags'[y].block
        PROVE  z # y + frags'[y].size
    <3>1. CASE y \in D /\ z \in D
      BY <2>1, <3>1, <1>7 DEF HeapInv, Compacted, FragMap, isFree, D
    <3>2. CASE BlockSize > n /\ y = b + n
      BY <2>1, <3>2, <1>1, <1>2, <1>4, <1>7, <1>8
    <3>3. CASE BlockSize > n /\ z = b + n
      BY <2>1, <3>3, <1>1, <1>2, <1>4, <1>7, <1>8
    <3> QED BY <2>1, <3>1, <3>2, <3>3, <1>7
  <2>2. ASSUME NEW y \in DOMAIN frags', frags'[y].free
        PROVE  frags'[y].size < BlockSize
    <3>1. CASE y \in D
      BY <2>2, <3>1, <1>7 DEF HeapInv, Compacted, isFree, D
    <3>2. CASE y \notin D
      BY <2>2, <3>2, <1>1, <1>2, <1>7
    <3> QED BY <3>1, <3>2
  <2> QED BY <2>1, <2>2 DEF Compacted, FragMap, isFree
<1>13. LiveExact'
  <2>1. \A l \in live : /\ l.ptr \in D
                       /\ ~frags[l.ptr].free
                       /\ frags[l.ptr].size = get_aligned_bytes(l.bytes)
    BY DEF HeapInv, LiveExact, isFree, D
  <2>2. \A l \in live' : /\ l.ptr \in DOMAIN frags'
                        /\ ~frags'[l.ptr].free
                        /\ frags'[l.ptr].size = get_aligned_bytes(l.bytes)
    BY <2>1, <1>6, <1>7 DEF n
  <2>3. ASSUME NEW y \in DOMAIN frags', ~frags'[y].free
        PROVE  \E l \in live' : l.ptr = y
    <3>1. CASE y \in D
      <4>1. \E l \in live : l.ptr = y
        BY <2>3, <3>1, <1>7 DEF HeapInv, LiveExact, isFree, D
      <4> QED BY <4>1, <1>6
    <3>2. CASE y \notin D
      <4>1. y = b
        BY <2>3, <3>2, <1>7
      <4>2. [ptr |-> b, bytes |-> bytes].ptr = b
        OBVIOUS
      <4> QED BY <4>1, <4>2, <1>6
    <3> QED BY <3>1, <3>2
  <2>4. \A l, m \in live' : l.ptr = m.ptr => l = m
    BY <1>5, <1>6, <2>1 DEF HeapInv, LiveExact
  <2> QED BY <2>2, <2>3, <2>4 DEF LiveExact, isFree
<1>14. in_use_size_' = BlockSize * Cardinality(block_list_')
  <2>1. /\ Cardinality(block_list_') = Cardinality(block_list_) + 1
        /\ Cardinality(block_list_) \in Nat
    BY <1>6, FS_AddElement, FS_CardinalityType DEF HeapInv, MapsOK
  <2>2. in_use_size_ = BlockSize * Cardinality(block_list_)
    BY DEF HeapInv, Accounting
  <2> QED BY <1>2, <1>6, <2>1, <2>2
<1> QED BY <1>9, <1>10, <1>11, <1>12, <1>13, <1>14

\* alloc from a cached block keeps HeapInv.
LEMMA AllocCachedBlockInv ==
  ASSUME SafeRequests, HeapInv, NEW bytes \in Requests,
         AllocCachedBlock(bytes)
  PROVE  HeapInv'
<1> DEFINE len == Len(block_cache_)
<1>1. /\ block_cache_ \in Seq(Blocks) /\ len \in Nat /\ len > 0
      /\ DOMAIN block_cache_ = 1 .. len
  BY EmptySeq, LenProperties DEF HeapInv, MapsOK, AllocCachedBlock
<1>2. /\ block_cache_' \in Seq(Blocks) /\ Len(block_cache_') = len - 1
      /\ \A i \in 1 .. len - 1 : block_cache_'[i] = block_cache_[i]
  <2>1. \A i \in 1 .. len - 1 : block_cache_[i] \in Blocks
    BY <1>1, ElementOfSeq
  <2> QED BY <1>1, <2>1, SubSeqProperties DEF AllocCachedBlock
<1>3. /\ block_cache_[len] \in Blocks /\ block_cache_[len] \notin block_list_
      /\ get_aligned_bytes(bytes) <= BlockSize
      /\ CarveBlock(bytes, block_cache_[len])
  BY <1>1, ElementOfSeq DEF HeapInv, CacheApart, AllocCachedBlock
<1>4. /\ MapsOK' /\ Tiled' /\ FreeListExact' /\ Compacted' /\ LiveExact'
      /\ in_use_size_' = BlockSize * Cardinality(block_list_')
  BY <1>2, <1>3, CarveBlockInv
<1>5. CacheApart'
  <2>1. DOMAIN block_cache_' = 1 .. len - 1
    BY <1>2, LenProperties
  <2>2. block_list_' = block_list_ \cup {block_cache_[len]}
    BY <1>3 DEF CarveBlock
  <2>3. \A i, j \in 1 .. len : i # j => block_cache_[i] # block_cache_[j]
    BY <1>1 DEF HeapInv, CacheApart
  <2>4. \A i \in 1 .. len : block_cache_[i] \notin block_list_
    BY <1>1 DEF HeapInv, CacheApart
  <2> HIDE DEF len
  <2>5. \A i \in 1 .. len - 1 : i \in 1 .. len /\ i # len
    BY <1>1
  <2>6. len \in 1 .. len
    BY <1>1
  <2> QED BY <1>2, <2>1, <2>2, <2>3, <2>4, <2>5, <2>6 DEF CacheApart
<1>6. cache_size_' = BlockSize * Len(block_cache_')
  <2>1. cache_size_ = BlockSize * len /\ cache_size_' = cache_size_ - BlockSize
    BY DEF HeapInv, Accounting, AllocCachedBlock
  <2> QED BY <1>1, <1>2, <2>1, BlockFacts
<1> QED BY <1>4, <1>5, <1>6 DEF HeapInv, Accounting

\* alloc from a new block keeps HeapInv.
LEMMA AllocNewBlockInv ==
  ASSUME SafeRequests, HeapInv, NEW bytes \in Requests, AllocNewBlock(bytes)
  PROVE  HeapInv'
<1>1. PICK b \in Blocks \ block_list_ : CarveBlock(bytes, b)
  BY DEF AllocNewBlock
<1>2. /\ get_aligned_bytes(bytes) <= BlockSize
      /\ block_cache_ = <<>>
      /\ UNCHANGED <<block_cache_, cache_size_>>
  BY DEF AllocNewBlock
<1>3. block_cache_' \in Seq(Blocks)
  BY <1>2, EmptySeq
<1>4. /\ MapsOK' /\ Tiled' /\ FreeListExact' /\ Compacted' /\ LiveExact'
      /\ in_use_size_' = BlockSize * Cardinality(block_list_')
  BY <1>1, <1>2, <1>3, CarveBlockInv
<1>5. CacheApart'
  BY <1>2 DEF CacheApart
<1>6. cache_size_' = BlockSize * Len(block_cache_')
  BY <1>2 DEF HeapInv, Accounting
<1> QED BY <1>4, <1>5, <1>6 DEF HeapInv, Accounting

\* Calls that change nothing but what they return.
LEMMA UnchangedInv ==
  ASSUME HeapInv, UNCHANGED <<heapVars, live>>,
         ret' \in [op : {"init", "alloc", "free", "trim"}, ok : BOOLEAN,
                   ptr : Addr \cup {Null}]
  PROVE  HeapInv'
<1>1. MapsOK'
  BY DEF HeapInv, MapsOK, heapVars
<1>2. Tiled' /\ FreeListExact' /\ Compacted' /\ LiveExact'
  BY DEF HeapInv, Tiled, FreeListExact, Compacted, LiveExact, heapVars,
         FragMap, isFree
<1>3. CacheApart' /\ Accounting'
  BY DEF HeapInv, CacheApart, Accounting, heapVars
<1> QED BY <1>1, <1>2, <1>3 DEF HeapInv

\* trim keeps HeapInv.
LEMMA TrimInv == ASSUME HeapInv, trim PROVE HeapInv'
<1>1. MapsOK'
  <2>1. block_cache_' \in Seq(Blocks)
    BY EmptySeq DEF trim
  <2> QED BY <2>1 DEF HeapInv, MapsOK, trim
<1>2. Tiled' /\ FreeListExact' /\ Compacted' /\ LiveExact'
  BY DEF HeapInv, Tiled, FreeListExact, Compacted, LiveExact, trim,
         FragMap, isFree
<1>3. CacheApart'
  BY DEF HeapInv, CacheApart, trim
<1>4. Accounting'
  BY BlockFacts, EmptySeq DEF HeapInv, Accounting, trim
<1> QED BY <1>1, <1>2, <1>3, <1>4 DEF HeapInv

-----------------------------------------------------------------------------
(* free() preserves the invariant.  First what it merges: x with the free  *)
(* fragment that ends at x and the free one that starts at its end.        *)

LEMMA LowerFacts ==
  ASSUME MapsOK, Tiled, NEW x \in DOMAIN frags
  PROVE  \A y : y \in LowerFree(x) <=>
                 /\ y \in DOMAIN frags /\ frags[y].free
                 /\ frags[y].block = frags[x].block
                 /\ y + frags[y].size = x
<1>1. ASSUME NEW y \in LowerFree(x)
      PROVE  y + frags[y].size = x
  <2>1. /\ y \in DOMAIN frags /\ y < x /\ frags[y].block = frags[x].block
        /\ \A z \in FragMap(frags[x].block) : z < x => z <= y
    BY DEF LowerFree, FragMap, isFree
  <2>2. x # frags[x].block
    BY <2>1, FragFacts
  <2>3. PICK z \in FragMap(frags[x].block) : z + frags[z].size = x
    BY <2>2 DEF Tiled
  <2>4. z \in DOMAIN frags /\ z < x
    BY <2>3, FragFacts DEF FragMap
  <2>5. z <= y
    BY <2>1, <2>3, <2>4
  <2> QED BY <2>1, <2>3, <2>4, <2>5, Apart, FragFacts
<1>2. ASSUME NEW y \in DOMAIN frags, frags[y].free,
             frags[y].block = frags[x].block, y + frags[y].size = x
      PROVE  y \in LowerFree(x)
  <2>1. y < x
    BY <1>2, FragFacts
  <2>2. ASSUME NEW z \in FragMap(frags[x].block), z < x PROVE z <= y
    BY <1>2, <2>2, FragFacts DEF Tiled, FragMap
  <2> QED BY <1>2, <2>1, <2>2 DEF LowerFree, FragMap, isFree
<1> QED BY <1>1, <1>2 DEF LowerFree, FragMap, isFree

\* The fragment above that a free one is merged with is the adjacent free one
\* of its block.
LEMMA UpperFacts ==
  ASSUME MapsOK, Tiled, NEW x \in DOMAIN frags
  PROVE  \A y : y \in UpperFree(x) <=>
                 /\ y \in DOMAIN frags /\ frags[y].free
                 /\ frags[y].block = frags[x].block
                 /\ y = x + frags[x].size
<1>1. ASSUME NEW y \in UpperFree(x)
      PROVE  y = x + frags[x].size
  <2>1. /\ y \in DOMAIN frags /\ y > x /\ frags[y].block = frags[x].block
        /\ \A z \in FragMap(frags[x].block) : z > x => z >= y
    BY DEF UpperFree, FragMap, isFree
  <2>2. x + frags[x].size <= y
    BY <2>1, FragFacts DEF Tiled
  <2>3. x + frags[x].size # frags[x].block + BlockSize
    BY <2>1, <2>2, FragFacts, BlockFacts
  <2>4. x + frags[x].size \in FragMap(frags[x].block)
    BY <2>3 DEF Tiled
  <2>5. x + frags[x].size > x
    BY FragFacts
  <2>6. x + frags[x].size >= y
    BY <2>1, <2>4, <2>5
  <2> QED BY <2>1, <2>2, <2>6, FragFacts
<1>2. ASSUME NEW y \in DOMAIN frags, frags[y].free,
             frags[y].block = frags[x].block, y = x + frags[x].size
      PROVE  y \in UpperFree(x)
  <2>1. y > x
    BY <1>2, FragFacts
  <2>2. ASSUME NEW z \in FragMap(frags[x].block), z > x PROVE z >= y
    BY <1>2, <2>2, FragFacts DEF Tiled, FragMap
  <2> QED BY <1>2, <2>1, <2>2 DEF UpperFree, FragMap, isFree
<1> QED BY <1>1, <1>2 DEF UpperFree, FragMap, isFree

\* The merged range [MergedBase, MergedBase + MergedSize) is covered exactly
\* by the merged fragments, and its neighbours, if any, stay.
LEMMA MergeFacts ==
  ASSUME MapsOK, Tiled, NEW x \in DOMAIN frags
  PROVE  LET b  == frags[x].block
             mb == MergedBase(x)
             me == MergedBase(x) + MergedSize(x)
             M  == Merging(x)
         IN  /\ x \in M /\ mb \in M /\ M \subseteq FragMap(b)
             /\ mb \in Nat /\ MergedSize(x) \in Nat /\ MergedSize(x) > 0
             /\ b <= mb /\ me <= b + BlockSize
             /\ \A y \in M : mb <= y /\ y + frags[y].size <= me
             /\ \A y \in DOMAIN frags \ M : y + frags[y].size <= mb \/ me <= y
             /\ mb = b \/ \E z \in FragMap(b) \ M : z + frags[z].size = mb
             /\ me = b + BlockSize \/ me \in FragMap(b) \ M
             /\ \A y \in M \ {x} : frags[y].free
<1> DEFINE L  == LowerFree(x)
           U  == UpperFree(x)
           b  == frags[x].block
           mb == MergedBase(x)
           e  == x + frags[x].size
           us == IF U = {} THEN 0 ELSE frags[e].size
           D  == DOMAIN frags
           M  == Merging(x)
           me == mb + MergedSize(x)
<1>1. \A y \in L : /\ y \in D /\ frags[y].free /\ frags[y].block = b
                  /\ y + frags[y].size = x
  BY LowerFacts
<1>2. \A y \in U : y \in D /\ frags[y].free /\ frags[y].block = b /\ y = e
  BY UpperFacts
<1>3. \A y, z \in L : y = z
  BY <1>1, Apart, FragFacts
<1>4. \/ L = {} /\ mb = x
      \/ L = {mb} /\ mb \in D /\ mb + frags[mb].size = x
  <2>1. CASE L = {}
    BY <2>1 DEF MergedBase
  <2>2. CASE L # {}
    <3>1. mb \in L
      BY <2>2 DEF MergedBase
    <3> QED BY <3>1, <1>1, <1>3
  <2> QED BY <2>1, <2>2
<1>5. U = {} \/ U = {e}
  BY <1>2
<1>6. MergedSize(x) = (x - mb) + frags[x].size + us
  <2>1. (IF L = {} THEN 0 ELSE frags[CHOOSE y \in L : TRUE].size) = x - mb
    <3>1. CASE L = {} /\ mb = x
      BY <3>1, FragFacts
    <3>2. CASE L = {mb} /\ mb \in D /\ mb + frags[mb].size = x
      <4>1. (CHOOSE y \in L : TRUE) = mb
        BY <3>2
      <4> HIDE DEF mb, L
      <4> QED BY <3>2, <4>1, FragFacts
    <3> QED BY <3>1, <3>2, <1>4
  <2>2. (IF U = {} THEN 0 ELSE frags[CHOOSE y \in U : TRUE].size) = us
    <3>1. CASE U = {e}
      <4>1. (CHOOSE y \in U : TRUE) = e
        BY <3>1
      <4> QED BY <3>1, <4>1
    <3> QED BY <3>1, <1>5
  <2> QED BY <2>1, <2>2 DEF MergedSize
<1>7. M = {x} \cup L \cup U
  BY DEF Merging
<1>8. x \in Nat /\ frags[x].size \in Nat /\ frags[x].size > 0 /\ e \in Nat /\ e > x
      /\ b \in Nat /\ b <= x /\ e <= b + BlockSize
  BY FragFacts
<1>9. /\ mb \in Nat /\ mb <= x /\ b <= mb /\ us \in Nat
      /\ U = {} => us = 0
      /\ U # {} => us = frags[e].size /\ e \in D /\ us > 0
      /\ e + us <= b + BlockSize
  <2>1. mb \in Nat /\ mb <= x /\ b <= mb
    BY <1>1, <1>4, <1>8, FragFacts
  <2>2. CASE U = {}
    BY <2>1, <2>2, <1>8
  <2>3. CASE U = {e}
    BY <2>1, <2>3, <1>2, FragFacts
  <2> QED BY <2>2, <2>3, <1>5
<1>10. MergedSize(x) \in Nat /\ MergedSize(x) > 0 /\ me = e + us
  BY <1>6, <1>8, <1>9
<1> HIDE DEF mb, me, us
<1>11. \A y \in M : mb <= y /\ y + frags[y].size <= me
  <2>1. \A y \in L : y = mb /\ y + frags[y].size <= me
    BY <1>1, <1>4, <1>8, <1>9, <1>10
  <2>2. \A y \in U : mb <= y /\ y + frags[y].size <= me
    BY <1>2, <1>8, <1>9, <1>10
  <2>3. mb <= x /\ x + frags[x].size <= me
    BY <1>8, <1>9, <1>10
  <2> QED BY <1>7, <1>9, <2>1, <2>2, <2>3
<1>12. ASSUME NEW y \in D \ M PROVE y + frags[y].size <= mb \/ me <= y
  <2>1. y + frags[y].size <= x \/ e <= y
    BY <1>7, Apart
  <2>2. y + frags[y].size <= x => y + frags[y].size <= mb
    BY <1>4, <1>7, <1>8, Apart, FragFacts
  <2>3. e <= y => me <= y
    BY <1>5, <1>7, <1>8, <1>9, <1>10, Apart, FragFacts
  <2> QED BY <2>1, <2>2, <2>3
<1>13. mb \in D /\ frags[mb].block = b /\ mb \in M
  BY <1>1, <1>4, <1>7
<1>14. mb = b \/ \E z \in FragMap(b) \ M : z + frags[z].size = mb
  <2>1. mb = b \/ \E z \in FragMap(b) : z + frags[z].size = mb
    BY <1>13 DEF Tiled
  <2>2. ASSUME NEW z \in FragMap(b), z + frags[z].size = mb PROVE z \notin M
    BY <2>2, <1>9, <1>11, FragFacts DEF FragMap
  <2> QED BY <2>1, <2>2
<1>15. me = b + BlockSize \/ me \in FragMap(b) \ M
  <2>1. me = b + BlockSize \/ me \in FragMap(b)
    <3>1. CASE U = {}
      BY <3>1, <1>8, <1>9, <1>10 DEF Tiled
    <3>2. CASE U = {e}
      <4>1. e \in D /\ frags[e].block = b /\ me = e + frags[e].size
        BY <3>2, <1>2, <1>9, <1>10
      <4> QED BY <4>1 DEF Tiled
    <3> QED BY <3>1, <3>2, <1>5
  <2>2. me \in FragMap(b) => me \notin M
    BY <1>11, FragFacts DEF FragMap
  <2> QED BY <2>1, <2>2
<1>16. M \subseteq FragMap(b) /\ \A y \in M \ {x} : frags[y].free
  BY <1>1, <1>2, <1>7 DEF FragMap
<1>17. x \in M /\ me <= b + BlockSize
  BY <1>7, <1>9, <1>10
<1> QED BY <1>9, <1>10, <1>11, <1>12, <1>13, <1>14, <1>15, <1>16, <1>17 DEF mb, me

\* In a compacted heap the fragments next to the merged range are in use.
LEMMA MergeCompacts ==
  ASSUME MapsOK, Tiled, Compacted, NEW x \in DOMAIN frags,
         NEW y \in FragMap(frags[x].block) \ Merging(x), frags[y].free
  PROVE  /\ y + frags[y].size # MergedBase(x)
         /\ y # MergedBase(x) + MergedSize(x)
<1> DEFINE mb == MergedBase(x)
           me == MergedBase(x) + MergedSize(x)
           e  == x + frags[x].size
<1>1. y \in DOMAIN frags /\ frags[y].block = frags[x].block
  BY DEF FragMap
<1>2. \A v, w \in DOMAIN frags :
         frags[v].block = frags[w].block /\ frags[v].free /\ frags[w].free
           => w # v + frags[v].size
  BY DEF Compacted, FragMap, isFree
<1>3. y + frags[y].size # mb
  <2>1. mb \in Merging(x) /\ mb \in FragMap(frags[x].block)
    BY MergeFacts
  <2>2. CASE mb = x
    BY <2>2, <1>1, LowerFacts DEF Merging
  <2>3. CASE mb # x
    BY <2>1, <2>3, <1>1, <1>2, MergeFacts DEF FragMap
  <2> QED BY <2>2, <2>3
<1>4. y # me
  <2>1. CASE UpperFree(x) = {}
    <3>1. y # e
      BY <2>1, <1>1, UpperFacts
    <3>2. me \in DOMAIN frags \ Merging(x) => me = e
      <4>1. x \in Merging(x) /\ e <= me
        BY MergeFacts
      <4>2. \A z \in Merging(x) : z <= x
        BY <2>1, LowerFacts, FragFacts DEF Merging
      <4>3. e = frags[x].block + BlockSize \/ e \in FragMap(frags[x].block)
        BY DEF Tiled
      <4>4. me <= frags[x].block + BlockSize
        BY MergeFacts
      <4>5. e \in FragMap(frags[x].block) => me <= e
        <5>1. ASSUME e \in DOMAIN frags PROVE e \notin Merging(x)
          BY <4>2, FragFacts
        <5>2. \A z \in DOMAIN frags \ Merging(x) :
                  z + frags[z].size <= mb \/ me <= z
          BY MergeFacts
        <5>3. mb <= x
          BY MergeFacts
        <5>4. mb \in Nat
          BY MergeFacts
        <5> QED BY <5>1, <5>2, <5>3, <5>4, FragFacts DEF FragMap
      <4>6. me \in Nat /\ e \in Nat
        BY MergeFacts, FragFacts
      <4> QED BY <4>1, <4>3, <4>4, <4>5, <4>6, FragFacts, BlockFacts
    <3> QED BY <3>1, <3>2, <1>1
  <2>2. CASE UpperFree(x) # {}
    <3>1. /\ e \in DOMAIN frags /\ frags[e].free
          /\ frags[e].block = frags[x].block /\ e \in Merging(x)
      BY <2>2, UpperFacts DEF Merging
    <3>2. e + frags[e].size <= me
      BY <3>1, MergeFacts
    <3>3. ASSUME y = me PROVE e + frags[e].size = me
      <4>1. \/ e + frags[e].size = frags[x].block + BlockSize
            \/ e + frags[e].size \in FragMap(frags[x].block)
        BY <3>1 DEF Tiled
      <4>2. me < frags[x].block + BlockSize
        BY <3>3, <1>1, FragFacts, BlockFacts
      <4>3. e + frags[e].size \in DOMAIN frags
        BY <4>1, <4>2, <3>1, <3>2, FragFacts, BlockFacts, MergeFacts DEF FragMap
      <4>4. e + frags[e].size \notin Merging(x)
        <5>1. \A z \in Merging(x) : z <= e
          BY <3>1, LowerFacts, UpperFacts, FragFacts DEF Merging
        <5> QED BY <5>1, <3>1, FragFacts
      <4>5. me <= e + frags[e].size
        <5>1. \A z \in DOMAIN frags \ Merging(x) :
                  z + frags[z].size <= mb \/ me <= z
          BY MergeFacts
        <5>2. mb <= e /\ mb \in Nat
          BY <3>1, MergeFacts
        <5> QED BY <4>3, <4>4, <5>1, <5>2, <3>1, FragFacts
      <4> QED BY <3>2, <4>5, <3>1, FragFacts, MergeFacts
    <3> QED BY <3>1, <3>3, <1>1, <1>2
  <2> QED BY <2>1, <2>2
<1> QED BY <1>3, <1>4

\* The free-list entries free() erases are those of the merged neighbours.
LEMMA AbsorbedFacts ==
  ASSUME MapsOK, Tiled, NEW x \in DOMAIN frags, ~frags[x].free
  PROVE  Absorbed(x) = {[size |-> frags[y].size, base |-> y] :
                          y \in Merging(x) \ {x}}
<1>1. LowerFree(x) \cup UpperFree(x) = Merging(x) \ {x}
  BY LowerFacts, UpperFacts DEF Merging
<1> QED BY <1>1 DEF Absorbed

\* The live entries a successful free() leaves.
LEMMA FreedLive ==
  ASSUME HeapInv, NEW x \in DOMAIN frags, ~frags[x].free, Freed(x),
         \A y \in DOMAIN frags : ~frags[y].free /\ y # x =>
            y \in DOMAIN frags' /\ frags'[y] = frags[y],
         \A y \in DOMAIN frags' : ~frags'[y].free =>
            y \in DOMAIN frags /\ ~frags[y].free /\ y # x
  PROVE  LiveExact' /\ live' \subseteq [ptr : Addr, bytes : Requests]
<1>1. live' = {l \in live : l.ptr # x}
  BY DEF Freed
<1>2. \A l \in live : /\ l.ptr \in DOMAIN frags /\ ~frags[l.ptr].free
                     /\ frags[l.ptr].size = get_aligned_bytes(l.bytes)
  BY DEF HeapInv, LiveExact, isFree
<1>3. \A l \in live' : /\ l.ptr \in DOMAIN frags' /\ ~frags'[l.ptr].free
                      /\ frags'[l.ptr].size = get_aligned_bytes(l.bytes)
  BY <1>1, <1>2
<1>4. ASSUME NEW y \in DOMAIN frags', ~frags'[y].free
      PROVE  \E l \in live' : l.ptr = y
  <2>1. y \in DOMAIN frags /\ ~frags[y].free /\ y # x
    BY <1>4
  <2>2. \E l \in live : l.ptr = y
    BY <2>1 DEF HeapInv, LiveExact, isFree
  <2> QED BY <1>1, <2>1, <2>2
<1>5. \A l, m \in live' : l.ptr = m.ptr => l = m
  BY <1>1 DEF HeapInv, LiveExact
<1> QED BY <1>1, <1>3, <1>4, <1>5 DEF LiveExact, isFree, HeapInv, MapsOK

\* free inside a block keeps HeapInv, whichever neighbours it merges.
LEMMA FreeFragmentInv ==
  ASSUME HeapInv, NEW x \in Addr, FreeFragment(x)
  PROVE  HeapInv'
<1> DEFINE D  == DOMAIN frags
           M  == Merging(x)
           b  == frags[x].block
           mb == MergedBase(x)
           ms == MergedSize(x)
<1>1. x \in D /\ ~frags[x].free /\ Freed(x) /\ FragMap(b) # M
      /\ UNCHANGED <<block_list_, block_cache_, in_use_size_, cache_size_>>
  BY DEF FreeFragment, Found, isFree
<1>2. MapsOK /\ Tiled /\ Compacted
  BY DEF HeapInv
<1>3. /\ x \in M /\ mb \in M /\ M \subseteq FragMap(b)
      /\ mb \in Nat /\ ms \in Nat /\ ms > 0
      /\ b <= mb /\ mb + ms <= b + BlockSize
      /\ \A y \in M : mb <= y /\ y + frags[y].size <= mb + ms
      /\ \A y \in D \ M : y + frags[y].size <= mb \/ mb + ms <= y
      /\ mb = b \/ \E z \in FragMap(b) \ M : z + frags[z].size = mb
      /\ mb + ms = b + BlockSize \/ mb + ms \in FragMap(b) \ M
      /\ \A y \in M \ {x} : frags[y].free
  BY <1>1, <1>2, MergeFacts
<1>4. /\ b \in Blocks /\ b \in Nat /\ b \in block_list_
      /\ \A y \in D : y \in Nat /\ frags[y].size \in Nat /\ frags[y].size > 0
      /\ \A y \in M : y \in D /\ frags[y].block = b
  BY <1>1, <1>2, <1>3, FragFacts DEF FragMap
<1>5. /\ DOMAIN frags' = (D \ M) \cup {mb}
      /\ frags' = [y \in DOMAIN frags' |-> frags'[y]]
      /\ frags'[mb] = [block |-> b, size |-> ms, free |-> TRUE]
      /\ \A y \in D \ M : frags'[y] = frags[y]
  <2> HIDE DEF M, mb, ms, b
  <2> QED BY <1>3 DEF FreeFragment, SetFrag, makeFragment, M, mb, ms, b
<1>6. \A y \in D \ M : y # mb
  BY <1>3
<1>7. LiveExact' /\ live' \subseteq [ptr : Addr, bytes : Requests]
  <2>1. ASSUME NEW y \in D, ~frags[y].free, y # x
        PROVE  y \in DOMAIN frags' /\ frags'[y] = frags[y]
    BY <2>1, <1>3, <1>5
  <2>2. ASSUME NEW y \in DOMAIN frags', ~frags'[y].free
        PROVE  y \in D /\ ~frags[y].free /\ y # x
    BY <2>2, <1>3, <1>5
  <2> QED BY <1>1, <2>1, <2>2, FreedLive
<1> HIDE DEF D, M, mb, ms
<1>8. MapsOK'
  <2>1. \A y \in DOMAIN frags' :
          frags'[y] \in [block : Blocks, size : Nat, free : BOOLEAN]
    <3>1. frags'[mb] \in [block : Blocks, size : Nat, free : BOOLEAN]
      BY <1>3, <1>4, <1>5
    <3>2. \A y \in D \ M :
            frags'[y] \in [block : Blocks, size : Nat, free : BOOLEAN]
      BY <1>2, <1>5 DEF MapsOK, D
    <3> QED BY <3>1, <3>2, <1>5
  <2>2. DOMAIN frags' \subseteq Addr
    BY <1>2, <1>3, <1>4, <1>5 DEF MapsOK, D
  <2>3. ret' \in [op : {"init", "alloc", "free", "trim"}, ok : BOOLEAN,
                  ptr : Addr \cup {Null}]
    BY <1>1 DEF Freed
  <2> QED BY <1>1, <1>2, <1>5, <1>7, <2>1, <2>2, <2>3 DEF MapsOK
<1>9. Tiled'
  <2>1. block_list_' \subseteq DOMAIN frags'
    <3>1. ASSUME NEW c \in block_list_ PROVE c \in DOMAIN frags'
      <4>1. c \in D /\ c \in Blocks
        BY <1>2 DEF Tiled, MapsOK, D
      <4>2. CASE c \in M
        <5>1. frags[c].block = b
          BY <4>2, <1>4
        <5>2. frags[c].block = c
          BY <4>1, <1>2, FragFacts, BlockFacts DEF D
        <5> QED BY <4>2, <5>1, <5>2, <1>3, <1>4, <1>5, BlockFacts
      <4>3. CASE c \notin M
        BY <4>1, <4>3, <1>5
      <4> QED BY <4>2, <4>3
    <3> QED BY <3>1, <1>1
  <2>2. ASSUME NEW y \in DOMAIN frags'
        PROVE  /\ frags'[y].block \in block_list_'
               /\ frags'[y].size > 0
               /\ frags'[y].block <= y
               /\ y + frags'[y].size <= frags'[y].block + BlockSize
    <3>1. CASE y = mb
      BY <3>1, <1>1, <1>3, <1>4, <1>5
    <3>2. CASE y \in D \ M
      BY <3>2, <1>1, <1>2, <1>5, FragFacts DEF D
    <3> QED BY <3>1, <3>2, <1>5
  <2>3. ASSUME NEW y \in DOMAIN frags'
        PROVE  \A z \in DOMAIN frags' : z <= y \/ y + frags'[y].size <= z
    <3>1. \A v, w \in D : v <= w \/ w + frags[w].size <= v
      BY <1>2 DEF Tiled, D
    <3> QED BY <3>1, <1>3, <1>4, <1>5
  <2>4. ASSUME NEW y \in DOMAIN frags'
        PROVE  \/ y = frags'[y].block
               \/ \E z \in DOMAIN frags' : /\ frags'[z].block = frags'[y].block
                                          /\ z + frags'[z].size = y
    <3>1. CASE y = mb
      BY <3>1, <1>3, <1>5 DEF FragMap, D
    <3>2. CASE y \in D \ M
      <4>1. \/ y = frags[y].block
            \/ \E z \in D : frags[z].block = frags[y].block /\ z + frags[z].size = y
        BY <3>2, <1>2 DEF Tiled, FragMap, D
      <4>2. ASSUME NEW z \in M, z + frags[z].size = y
            PROVE  mb + ms = y /\ frags[z].block = b
        BY <3>2, <4>2, <1>3, <1>4
      <4> QED BY <3>2, <4>1, <4>2, <1>5
    <3> QED BY <3>1, <3>2, <1>5
  <2>5. ASSUME NEW y \in DOMAIN frags'
        PROVE  \/ y + frags'[y].size = frags'[y].block + BlockSize
               \/ /\ y + frags'[y].size \in DOMAIN frags'
                  /\ frags'[y + frags'[y].size].block = frags'[y].block
    <3>1. CASE y = mb
      BY <3>1, <1>3, <1>5 DEF FragMap, D
    <3>2. CASE y \in D \ M
      <4>1. \/ y + frags[y].size = frags[y].block + BlockSize
            \/ /\ y + frags[y].size \in D
               /\ frags[y + frags[y].size].block = frags[y].block
        BY <3>2, <1>2 DEF Tiled, FragMap, D
      <4>2. ASSUME y + frags[y].size \in M
            PROVE  y + frags[y].size = mb
        BY <3>2, <4>2, <1>3, <1>4
      <4> QED BY <3>2, <4>1, <4>2, <1>4, <1>5
    <3> QED BY <3>1, <3>2, <1>5
  <2> QED BY <2>1, <2>2, <2>3, <2>4, <2>5 DEF Tiled, FragMap
<1>10. FreeListExact'
  <2> DEFINE E(f) == {[size |-> f[y].size, base |-> y] :
                        y \in {z \in DOMAIN f : f[z].free}}
             A == {[size |-> frags[y].size, base |-> y] : y \in M \ {x}}
  <2>1. free_list_ = E(frags)
    BY DEF HeapInv, FreeListExact, isFree
  <2>2. free_list_' = (free_list_ \ A) \cup {[size |-> ms, base |-> mb]}
    BY <1>1, <1>2, AbsorbedFacts DEF FreeFragment, M, D, mb, ms
  <2>3. E(frags') = (E(frags) \ A) \cup {[size |-> ms, base |-> mb]}
    <3>1. ASSUME NEW r \in E(frags')
          PROVE  r \in (E(frags) \ A) \cup {[size |-> ms, base |-> mb]}
      BY <1>5 DEF D
    <3>2. ASSUME NEW r \in (E(frags) \ A) \cup {[size |-> ms, base |-> mb]}
          PROVE  r \in E(frags')
      <4>1. CASE r = [size |-> ms, base |-> mb]
        BY <4>1, <1>5
      <4>2. CASE r \in E(frags) /\ r \notin A
        <5>1. PICK y \in D : frags[y].free /\ r = [size |-> frags[y].size, base |-> y]
          BY <4>2 DEF D
        <5>2. y \notin M
          BY <4>2, <5>1, <1>1
        <5> QED BY <5>1, <5>2, <1>5
      <4> QED BY <3>2, <4>1, <4>2
    <3> QED BY <3>1, <3>2
  <2> QED BY <2>1, <2>2, <2>3 DEF FreeListExact, isFree
<1>11. Compacted'
  <2>1. ASSUME NEW y \in DOMAIN frags', frags'[y].free,
               NEW z \in DOMAIN frags', frags'[z].free,
               frags'[z].block = frags'[y].block
        PROVE  z # y + frags'[y].size
    <3>1. CASE y \in D \ M /\ z \in D \ M
      BY <2>1, <3>1, <1>2, <1>5 DEF Compacted, FragMap, isFree, D
    <3>2. CASE y = mb /\ z \in D \ M
      BY <2>1, <3>2, <1>1, <1>2, <1>5, MergeCompacts DEF FragMap, D, M, mb, ms
    <3>3. CASE z = mb /\ y \in D \ M
      BY <2>1, <3>3, <1>1, <1>2, <1>5, MergeCompacts DEF FragMap, D, M, mb, ms
    <3>4. CASE y = mb /\ z = mb
      BY <3>4, <1>3, <1>5
    <3> QED BY <3>1, <3>2, <3>3, <3>4, <1>5
  <2>2. ms < BlockSize
    <3>1. PICK y \in FragMap(b) \ M : TRUE
      BY <1>1, <1>3
    <3>2. y \in D \ M /\ b <= y /\ y + frags[y].size <= b + BlockSize
      BY <3>1, <1>2, FragFacts DEF FragMap, D
    <3> QED BY <3>2, <1>3, <1>4, BlockFacts
  <2>3. ASSUME NEW y \in DOMAIN frags', frags'[y].free
        PROVE  frags'[y].size < BlockSize
    BY <2>2, <2>3, <1>2, <1>5 DEF Compacted, isFree, D
  <2> QED BY <2>1, <2>3 DEF Compacted, FragMap, isFree
<1>12. CacheApart' /\ Accounting'
  BY <1>1 DEF HeapInv, CacheApart, Accounting
<1> QED BY <1>7, <1>8, <1>9, <1>10, <1>11, <1>12 DEF HeapInv

\* The cache-limit loop ends: after at most cached - 1 rounds one block is left.
LEMMA ReleasedFacts ==
  ASSUME NEW cached \in Nat, NEW total \in Int, NEW inUse \in Int, cached > 0
  PROVE  LET k == Released(cached, total, inUse)
         IN  /\ k \in 0 .. cached
             /\ cached - k <= 1 \/ total - k * BlockSize <= inUse * 2
<1> DEFINE Done(k) == cached - k <= 1 \/ total - k * BlockSize <= inUse * 2
           T == {k \in 0 .. cached : Done(k)}
<1>1. T \subseteq Nat /\ T # {}
  <2>1. cached - 1 \in 0 .. cached /\ Done(cached - 1)
    OBVIOUS
  <2>2. cached - 1 \in T
    BY ONLY <2>1
  <2>3. T \subseteq Nat
    OBVIOUS
  <2> QED BY <2>2, <2>3
<1>2. \E k \in T : \A j \in T : ~(<<j, k>> \in OpToRel(<, Nat))
  <2> HIDE DEF T
  <2> QED BY <1>1, NatLessThanWellFounded, WFMin
<1>3. PICK k \in T : \A j \in T : ~(j < k)
  BY <1>1, <1>2 DEF OpToRel
<1>4. \E m \in 0 .. cached :
        /\ cached - m <= 1 \/ total - m * BlockSize <= inUse * 2
        /\ \A j \in 0 .. cached :
             j < m => ~(cached - j <= 1 \/ total - j * BlockSize <= inUse * 2)
  BY <1>3
<1> QED BY <1>4 DEF Released

\* free() of the last fragment in use: the merged range is the whole block.
LEMMA WholeBlock ==
  ASSUME MapsOK, Tiled, NEW x \in DOMAIN frags,
         FragMap(frags[x].block) = Merging(x)
  PROVE  MergedBase(x) = frags[x].block /\ MergedSize(x) = BlockSize
<1> DEFINE b  == frags[x].block
           mb == MergedBase(x)
           ms == MergedSize(x)
<1>1. /\ mb \in Nat /\ ms \in Nat
      /\ mb = b \/ \E z \in FragMap(b) \ Merging(x) : z + frags[z].size = mb
      /\ mb + ms = b + BlockSize \/ mb + ms \in FragMap(b) \ Merging(x)
  BY MergeFacts
<1>2. mb = b /\ mb + ms = b + BlockSize
  BY <1>1
<1> QED BY <1>1, <1>2, FragFacts, BlockFacts

\* free that empties a block keeps HeapInv, and the cache within its bound.
LEMMA FreeBlockInv ==
  ASSUME HeapInv, NEW x \in Addr, FreeBlock(x)
  PROVE  HeapInv' /\ CacheBounded'
<1> DEFINE D == DOMAIN frags
           M == Merging(x)
           b == frags[x].block
           cache == Append(block_cache_, b)
           k == Released(Len(cache), cache_size_ + BlockSize,
                         in_use_size_ - BlockSize)
<1>1. x \in D /\ ~frags[x].free /\ Freed(x) /\ FragMap(b) = M
  BY DEF FreeBlock, Found, isFree
<1>2. MapsOK /\ Tiled /\ Compacted
  BY DEF HeapInv
<1>3. MergedBase(x) = b /\ MergedSize(x) = BlockSize
  BY <1>1, <1>2, WholeBlock
<1>4. /\ in_use_size_' = in_use_size_ - BlockSize
      /\ block_cache_' = SubSeq(cache, k + 1, Len(cache))
      /\ cache_size_' = (cache_size_ + BlockSize) - k * BlockSize
      /\ frags' = [y \in D \ M |-> frags[y]]
      /\ free_list_' = free_list_ \ Absorbed(x)
      /\ block_list_' = block_list_ \ {b}
  BY <1>3 DEF FreeBlock
<1>5. /\ b \in Blocks /\ b \in Nat /\ b \in block_list_
      /\ \A y \in D : y \in M <=> frags[y].block = b
      /\ M \subseteq D /\ x \in M
      /\ \A y \in M \ {x} : frags[y].free
  BY <1>1, <1>2, FragFacts, MergeFacts DEF FragMap
<1>6. DOMAIN frags' = D \ M /\ \A y \in D \ M : frags'[y] = frags[y]
  BY <1>4
<1>7. LiveExact' /\ live' \subseteq [ptr : Addr, bytes : Requests]
  <2>1. ASSUME NEW y \in D, ~frags[y].free, y # x
        PROVE  y \in DOMAIN frags' /\ frags'[y] = frags[y]
    BY <2>1, <1>5, <1>6
  <2>2. ASSUME NEW y \in DOMAIN frags', ~frags'[y].free
        PROVE  y \in D /\ ~frags[y].free /\ y # x
    BY <2>2, <1>5, <1>6
  <2> QED BY <1>1, <2>1, <2>2, FreedLive
<1>8. /\ cache \in Seq(Blocks) /\ Len(cache) = Len(block_cache_) + 1
      /\ Len(block_cache_) \in Nat
      /\ \A i \in 1 .. Len(block_cache_) : cache[i] = block_cache_[i]
      /\ cache[Len(cache)] = b
  BY <1>2, <1>5, LenProperties, AppendProperties DEF MapsOK
<1>9. /\ Cardinality(block_list_) \in Nat
      /\ Cardinality(block_list_') = Cardinality(block_list_) - 1
      /\ IsFiniteSet(block_list_')
  <2>1. IsFiniteSet(block_list_) /\ b \in block_list_ /\ block_list_' = block_list_ \ {b}
    BY <1>2, <1>4, <1>5 DEF MapsOK
  <2> HIDE DEF b
  <2> QED BY <2>1, FS_RemoveElement, FS_CardinalityType
<1>10. in_use_size_ \in Int /\ cache_size_ \in Int
       /\ in_use_size_ = BlockSize * Cardinality(block_list_)
       /\ cache_size_ = BlockSize * Len(block_cache_)
  BY <1>8, <1>9, BlockFacts DEF HeapInv, Accounting
<1> DEFINE len == Len(cache)
<1>11. /\ k \in 0 .. len
       /\ \/ len - k <= 1
          \/ (cache_size_ + BlockSize) - k * BlockSize
                <= (in_use_size_ - BlockSize) * 2
  <2>1. len \in Nat /\ len > 0
    BY <1>8
  <2>2. cache_size_ + BlockSize \in Int /\ in_use_size_ - BlockSize \in Int
    BY <1>10, BlockFacts
  <2> HIDE DEF len
  <2> QED BY <2>1, <2>2, ReleasedFacts DEF len
<1>12. len \in Nat
  BY <1>8
<1> HIDE DEF D, M, k, cache
<1>13. /\ block_cache_' \in Seq(Blocks) /\ Len(block_cache_') = len - k
       /\ \A i \in 1 .. len - k : block_cache_'[i] = cache[k + i]
  <2>1. \A i \in k + 1 .. len : cache[i] \in Blocks
    BY <1>8, <1>11, <1>12, ElementOfSeq
  <2>2. k + 1 \in Int
    BY <1>11, <1>12
  <2>3. /\ SubSeq(cache, k + 1, len) \in Seq(Blocks)
        /\ Len(SubSeq(cache, k + 1, len)) =
              (IF k + 1 <= len THEN len - (k + 1) + 1 ELSE 0)
        /\ \A i \in 1 .. len - (k + 1) + 1 :
               SubSeq(cache, k + 1, len)[i] = cache[(k + 1) + i - 1]
    <3> HIDE DEF len
    <3> QED BY <2>1, <2>2, <1>12, SubSeqProperties
  <2>4. len - (k + 1) + 1 = len - k
    BY <1>11, <1>12
  <2>5. \A i \in 1 .. len - k : (k + 1) + i - 1 = k + i
    BY <1>11, <1>12
  <2>6. (IF k + 1 <= len THEN len - (k + 1) + 1 ELSE 0) = len - k
    BY <1>11, <1>12
  <2> QED BY <1>4, <2>3, <2>4, <2>5, <2>6
<1>14. MapsOK'
  <2>1. frags' \in [DOMAIN frags' -> [block : Blocks, size : Nat, free : BOOLEAN]]
    BY <1>2, <1>4, <1>6 DEF MapsOK, D
  <2>2. DOMAIN frags' \subseteq Addr
    BY <1>2, <1>6 DEF MapsOK, D
  <2>3. ret' \in [op : {"init", "alloc", "free", "trim"}, ok : BOOLEAN,
                  ptr : Addr \cup {Null}]
    BY <1>1 DEF Freed
  <2>4. block_list_' \subseteq Blocks
    BY <1>2, <1>4 DEF MapsOK
  <2> QED BY <1>7, <1>9, <1>13, <2>1, <2>2, <2>3, <2>4 DEF MapsOK
<1>15. Tiled'
  <2>1. \A y \in D \ M : FragMap(frags[y].block)
                          = {z \in D \ M : frags[z].block = frags[y].block}
    BY <1>5 DEF FragMap, D
  <2>2. \A y \in D \ M : {z \in DOMAIN frags' : frags'[z].block = frags'[y].block}
                          = FragMap(frags[y].block)
    BY <1>6, <2>1
  <2>3. block_list_' \subseteq DOMAIN frags'
    <3>1. \A c \in block_list_ : c \in D /\ frags[c].block = c
      <4>1. ASSUME NEW c \in block_list_ PROVE c \in D /\ frags[c].block = c
        <5>1. c \in D /\ c \in Blocks
          BY <1>2 DEF Tiled, MapsOK, D
        <5> QED BY <5>1, <1>2, FragFacts, BlockFacts DEF D
      <4> QED BY <4>1
    <3> QED BY <3>1, <1>4, <1>5, <1>6
  <2>4. ASSUME NEW y \in DOMAIN frags'
        PROVE  LET c == frags'[y].block
                   e == y + frags'[y].size
                   F == {z \in DOMAIN frags' : frags'[z].block = c}
               IN  /\ c \in block_list_'
                   /\ frags'[y].size > 0
                   /\ c <= y /\ e <= c + BlockSize
                   /\ y = c \/ \E z \in F : z + frags'[z].size = y
                   /\ e = c + BlockSize \/ e \in F
                   /\ \A z \in DOMAIN frags' : z <= y \/ e <= z
    <3>1. y \in D /\ y \notin M /\ frags'[y] = frags[y]
      BY <1>6
    <3>2. {z \in DOMAIN frags' : frags'[z].block = frags'[y].block}
            = FragMap(frags[y].block)
      BY <2>2, <3>1
    <3>3. \A z \in FragMap(frags[y].block) : frags'[z] = frags[z]
      BY <2>1, <1>6, <3>1
    <3>4. frags[y].block \in block_list_'
      BY <3>1, <1>2, <1>4, <1>5, FragFacts DEF D
    <3>5. /\ frags[y].size > 0
          /\ frags[y].block <= y
          /\ y + frags[y].size <= frags[y].block + BlockSize
          /\ \/ y = frags[y].block
             \/ \E z \in FragMap(frags[y].block) : z + frags[z].size = y
          /\ \/ y + frags[y].size = frags[y].block + BlockSize
             \/ y + frags[y].size \in FragMap(frags[y].block)
          /\ \A z \in D : z <= y \/ y + frags[y].size <= z
      BY <3>1, <1>2 DEF Tiled, D
    <3> QED BY <3>1, <3>2, <3>3, <3>4, <3>5, <1>6
  <2> QED BY <2>3, <2>4 DEF Tiled, FragMap
<1>16. FreeListExact'
  <2> DEFINE E(f) == {[size |-> f[y].size, base |-> y] :
                        y \in {z \in DOMAIN f : f[z].free}}
             A == {[size |-> frags[y].size, base |-> y] : y \in M \ {x}}
  <2>1. free_list_ = E(frags)
    BY DEF HeapInv, FreeListExact, isFree
  <2>2. free_list_' = free_list_ \ A
    BY <1>1, <1>2, <1>4, AbsorbedFacts DEF M, D
  <2>3. E(frags') = E(frags) \ A
    <3>1. ASSUME NEW r \in E(frags') PROVE r \in E(frags) \ A
      BY <1>6 DEF D
    <3>2. ASSUME NEW r \in E(frags) \ A PROVE r \in E(frags')
      <4>1. PICK y \in D : frags[y].free /\ r = [size |-> frags[y].size, base |-> y]
        BY <3>2 DEF D
      <4>2. y \notin M
        BY <3>2, <4>1, <1>1
      <4> QED BY <4>1, <4>2, <1>6
    <3> QED BY <3>1, <3>2
  <2> QED BY <2>1, <2>2, <2>3 DEF FreeListExact, isFree
<1>17. Compacted'
  BY <1>2, <1>6 DEF Compacted, FragMap, isFree, D
<1>18. CacheApart'
  <2>1. DOMAIN block_cache_' = 1 .. len - k /\ DOMAIN block_cache_ = 1 .. len - 1
    BY <1>2, <1>8, <1>13, LenProperties DEF MapsOK
  <2>2. \A i \in 1 .. len : cache[i] \notin block_list_'
    <3>1. \A i \in 1 .. len - 1 : cache[i] \notin block_list_
      BY <1>8, <2>1 DEF HeapInv, CacheApart
    <3>2. \A i \in 1 .. len : i \in 1 .. len - 1 \/ i = len
      BY <1>12
    <3> QED BY <3>1, <3>2, <1>4, <1>8
  <2>3. \A i, j \in 1 .. len : i # j => cache[i] # cache[j]
    <3>1. \A i \in 1 .. len - 1 : cache[i] = block_cache_[i]
      BY <1>8
    <3>2. \A i, j \in 1 .. len - 1 : i # j => block_cache_[i] # block_cache_[j]
      BY <2>1 DEF HeapInv, CacheApart
    <3>3. \A i \in 1 .. len - 1 : block_cache_[i] # b
      BY <2>1, <1>5 DEF HeapInv, CacheApart
    <3>4. \A i \in 1 .. len : i \in 1 .. len - 1 \/ i = len
      BY <1>12
    <3> QED BY <3>1, <3>2, <3>3, <3>4, <1>8
  <2> HIDE DEF len
  <2>4. \A i \in 1 .. len - k : k + i \in 1 .. len
    BY <1>11, <1>12
  <2>5. \A i, j \in 1 .. len - k : i # j => k + i # k + j
    BY <1>11, <1>12
  <2> QED BY <1>13, <2>1, <2>2, <2>3, <2>4, <2>5 DEF CacheApart
<1>19. Accounting'
  <2>1. in_use_size_' = BlockSize * Cardinality(block_list_')
    BY <1>4, <1>9, <1>10, BlockFacts
  <2>2. cache_size_' = BlockSize * Len(block_cache_')
    <3>1. len = Len(block_cache_) + 1
      BY <1>8
    <3>2. cache_size_' = (BlockSize * Len(block_cache_) + BlockSize) - k * BlockSize
      BY <1>4, <1>10
    <3>3. Len(block_cache_') = len - k
      BY <1>13
    <3> HIDE DEF len
    <3> QED BY <3>1, <3>2, <3>3, <1>8, <1>11, <1>12, BlockFacts
  <2> QED BY <2>1, <2>2 DEF Accounting
<1>20. CacheBounded'
  BY <1>4, <1>11, <1>13 DEF CacheBounded
<1> QED BY <1>7, <1>14, <1>15, <1>16, <1>17, <1>18, <1>19, <1>20 DEF HeapInv

-----------------------------------------------------------------------------
(* The theorems.                                                           *)

LEMMA StepInv ==
  ASSUME SafeRequests, HeapInv, CacheBounded, [Next]_vars
  PROVE  HeapInv' /\ CacheBounded'
<1>1. ASSUME NEW bytes \in Requests, AllocTooLarge(bytes) \/ AllocNoBlock(bytes)
      PROVE  HeapInv' /\ CacheBounded'
  <2>1. AllocFailed
    BY <1>1 DEF AllocTooLarge, AllocNoBlock
  <2>2. HeapInv'
    BY <2>1, UnchangedInv DEF AllocFailed
  <2> QED BY <2>1, <2>2 DEF AllocFailed, heapVars, CacheBounded
<1>2. ASSUME NEW bytes \in Requests, AllocFragment(bytes)
      PROVE  HeapInv' /\ CacheBounded'
  BY <1>2, AllocFragmentInv DEF AllocFragment, CacheBounded
<1>3. ASSUME NEW bytes \in Requests, AllocCachedBlock(bytes)
      PROVE  HeapInv' /\ CacheBounded'
  <2>1. HeapInv'
    BY <1>3, AllocCachedBlockInv
  <2>2. CacheBounded'
    <3> DEFINE c == Cardinality(block_list_)
    <3>1. /\ cache_size_' = cache_size_ - BlockSize
          /\ in_use_size_' = in_use_size_ + BlockSize
      BY <1>3 DEF AllocCachedBlock, CarveBlock
    <3>2. /\ cache_size_ = BlockSize * Len(block_cache_)
          /\ cache_size_' = BlockSize * Len(block_cache_')
          /\ in_use_size_ = BlockSize * c
      BY <2>1 DEF HeapInv, Accounting
    <3>3. Len(block_cache_) \in Nat /\ Len(block_cache_') \in Nat /\ c \in Nat
      BY <2>1, LenProperties, FS_CardinalityType DEF HeapInv, MapsOK
    <3> HIDE DEF c
    <3>4. in_use_size_ \in Nat /\ cache_size_ \in Nat /\ BlockSize \in Nat
          /\ BlockSize > 0
      BY <3>2, <3>3, BlockFacts
    <3>5. Len(block_cache_') > 1 => Len(block_cache_) > 1
      <4>1. block_cache_ \in Seq(Blocks) /\ block_cache_ # <<>>
            /\ block_cache_' = SubSeq(block_cache_, 1, Len(block_cache_) - 1)
        BY <1>3 DEF AllocCachedBlock, HeapInv, MapsOK
      <4>2. \A i \in 1 .. Len(block_cache_) - 1 : block_cache_[i] \in Blocks
        BY <4>1, <3>3, ElementOfSeq
      <4>3. Len(block_cache_') <= Len(block_cache_)
        BY <4>1, <4>2, <3>3, SubSeqProperties
      <4> QED BY <4>3, <3>3
    <3> QED BY <3>1, <3>4, <3>5 DEF CacheBounded
  <2> QED BY <2>1, <2>2
<1>4. ASSUME NEW bytes \in Requests, AllocNewBlock(bytes)
      PROVE  HeapInv' /\ CacheBounded'
  <2>1. HeapInv'
    BY <1>4, AllocNewBlockInv
  <2>2. Len(block_cache_') = 0
    BY <1>4, EmptySeq DEF AllocNewBlock
  <2> QED BY <2>1, <2>2 DEF CacheBounded
<1>5. ASSUME NEW ptr \in Addr, FreeRefused(ptr)
      PROVE  HeapInv' /\ CacheBounded'
  <2>1. HeapInv'
    BY <1>5, UnchangedInv DEF FreeRefused
  <2> QED BY <1>5, <2>1 DEF FreeRefused, heapVars, CacheBounded
<1>6. ASSUME NEW ptr \in Addr, FreeFragment(ptr)
      PROVE  HeapInv' /\ CacheBounded'
  BY <1>6, FreeFragmentInv DEF FreeFragment, CacheBounded
<1>7. ASSUME NEW ptr \in Addr, FreeBlock(ptr)
      PROVE  HeapInv' /\ CacheBounded'
  BY <1>7, FreeBlockInv
<1>8. CASE FreeNull
  <2>1. HeapInv'
    BY <1>8, UnchangedInv DEF FreeNull
  <2> QED BY <1>8, <2>1 DEF FreeNull, heapVars, CacheBounded
<1>9. CASE trim
  <2>1. HeapInv'
    BY <1>9, TrimInv
  <2>2. Len(block_cache_') = 0
    BY <1>9, EmptySeq DEF trim
  <2> QED BY <2>1, <2>2 DEF CacheBounded
<1>10. CASE UNCHANGED vars
  <2>1. ret' \in [op : {"init", "alloc", "free", "trim"}, ok : BOOLEAN,
                  ptr : Addr \cup {Null}]
    BY <1>10 DEF vars, HeapInv, MapsOK
  <2>2. HeapInv'
    BY <1>10, <2>1, UnchangedInv DEF vars
  <2> QED BY <1>10, <2>2 DEF vars, heapVars, CacheBounded
<1> QED BY <1>1, <1>2, <1>3, <1>4, <1>5, <1>6, <1>7, <1>8, <1>9, <1>10
       DEF Next, alloc, free

\* The inductive invariant: fragments tile the listed blocks, the free list,
\* the client's view and the counters agree with them, and the block cache is
\* apart and bounded, after every sequence of alloc(), free() and trim().
THEOREM HeapInvariant ==
  ASSUME SafeRequests PROVE Spec => [](HeapInv /\ CacheBounded)
<1>1. Init => HeapInv /\ CacheBounded
  BY InitInv, EmptySeq DEF Init, CacheBounded
<1>2. HeapInv /\ CacheBounded /\ [Next]_vars => (HeapInv /\ CacheBounded)'
  BY StepInv
<1> QED BY <1>1, <1>2, PTL DEF Spec

\* Carving in alloc() and merging in free() neither lose memory nor hand it
\* out twice: the fragments tile every listed block.
THEOREM AlwaysTiled ==
  ASSUME SafeRequests PROVE Spec => []Tiled
BY HeapInvariant, PTL DEF HeapInv

\* free_list_ holds exactly the free fragments: the assertions of alloc() never
\* fail.
THEOREM FreeListIsExact ==
  ASSUME SafeRequests PROVE Spec => []FreeListExact
BY HeapInvariant, PTL DEF HeapInv

\* free() never leaves two free fragments side by side, nor a free block listed.
THEOREM AlwaysCompacted ==
  ASSUME SafeRequests PROVE Spec => []Compacted
BY HeapInvariant, PTL DEF HeapInv

\* What alloc() gave out and free() has not taken back is exactly the fragments in
\* use.
THEOREM LiveIsExact ==
  ASSUME SafeRequests PROVE Spec => []LiveExact
BY HeapInvariant, PTL DEF HeapInv

\* A block is listed, cached or with the block allocator, never two of them.
THEOREM BlocksApart ==
  ASSUME SafeRequests PROVE Spec => []CacheApart
BY HeapInvariant, PTL DEF HeapInv

\* in_use_size_ and cache_size_ count the blocks in use and cached.
THEOREM CountersRight ==
  ASSUME SafeRequests PROVE Spec => []Accounting
BY HeapInvariant, PTL DEF HeapInv

\* The state keeps the shapes of the code's types; in particular the size_t
\* counters never go below zero.
THEOREM TypeCorrect ==
  ASSUME SafeRequests PROVE Spec => []TypeOK
<1>1. HeapInv => TypeOK
  <2> SUFFICES ASSUME HeapInv PROVE TypeOK
    OBVIOUS
  <2>1. in_use_size_ \in Nat /\ cache_size_ \in Nat
    BY FS_CardinalityType, LenProperties, BlockFacts
       DEF HeapInv, Accounting, MapsOK
  <2>2. free_list_ \subseteq [size : Nat, base : Addr]
    BY FragFacts DEF HeapInv, FreeListExact, MapsOK
  <2> QED BY <2>1, <2>2 DEF HeapInv, MapsOK, TypeOK, Fragment
<1> QED BY <1>1, HeapInvariant, PTL

\* Two allocations clients hold never share memory.
THEOREM NeverOverlap ==
  ASSUME SafeRequests PROVE Spec => []NoOverlap
<1>1. HeapInv => NoOverlap
  <2> SUFFICES ASSUME HeapInv, NEW l \in live, NEW m \in live, l # m
               PROVE  \/ l.ptr + Need(l.bytes) <= m.ptr
                      \/ m.ptr + Need(m.bytes) <= l.ptr
    BY DEF NoOverlap
  <2>1. /\ l.ptr \in DOMAIN frags /\ m.ptr \in DOMAIN frags /\ l.ptr # m.ptr
        /\ frags[l.ptr].size = get_aligned_bytes(l.bytes)
        /\ frags[m.ptr].size = get_aligned_bytes(m.bytes)
    BY DEF HeapInv, LiveExact
  <2>2. l.bytes \in Requests /\ m.bytes \in Requests
    BY DEF HeapInv, MapsOK
  <2>3. /\ Need(l.bytes) \in Nat /\ Need(l.bytes) <= frags[l.ptr].size
        /\ Need(m.bytes) \in Nat /\ Need(m.bytes) <= frags[m.ptr].size
    BY <2>1, <2>2, RequestFacts
  <2>4. \/ l.ptr + frags[l.ptr].size <= m.ptr
        \/ m.ptr + frags[m.ptr].size <= l.ptr
    BY <2>1, Apart DEF HeapInv
  <2> QED BY <2>1, <2>3, <2>4, FragFacts DEF HeapInv
<1> QED BY <1>1, HeapInvariant, PTL

\* When clients hold nothing, every block has left the heap's lists: the
\* leak check in the destructor could be enabled.
THEOREM NeverLeaks ==
  ASSUME SafeRequests PROVE Spec => []NoLeak
<1>1. HeapInv => NoLeak
  <2> SUFFICES ASSUME HeapInv, live = {} PROVE block_list_ = {} /\ in_use_size_ = 0
    BY DEF NoLeak
  <2>1. \A y \in DOMAIN frags : frags[y].free
    BY FragFacts DEF HeapInv, LiveExact, isFree
  <2>2. ASSUME NEW b \in block_list_ PROVE FALSE
    <3>1. b \in DOMAIN frags /\ b \in Blocks
      BY DEF HeapInv, Tiled, MapsOK
    <3>2. frags[b].block = b
      BY <3>1, FragFacts, BlockFacts DEF HeapInv
    <3>3. frags[b].size < BlockSize
      BY <2>1, <3>1 DEF HeapInv, Compacted, isFree
    <3>4. b + frags[b].size \in FragMap(b)
      BY <3>1, <3>2, <3>3, FragFacts, BlockFacts DEF HeapInv, Tiled
    <3>5. frags[b + frags[b].size].free
      BY <2>1, <3>4 DEF FragMap
    <3> QED BY <2>1, <3>1, <3>2, <3>4, <3>5 DEF HeapInv, Compacted, isFree
  <2>3. in_use_size_ = 0
    BY <2>2, FS_EmptySet, BlockFacts DEF HeapInv, Accounting
  <2> QED BY <2>2, <2>3
<1> QED BY <1>1, HeapInvariant, PTL

-----------------------------------------------------------------------------
(* The heap implements the abstract allocator.                             *)

\* Memory apart from every fragment in use is available.
LEMMA AvailableFacts ==
  ASSUME SafeRequests, HeapInv, NEW bytes \in Requests, NEW b \in Blocks,
         NEW p \in Nat, NEW n \in Nat, Need(bytes) <= n,
         b <= p, p + n <= b + BlockSize,
         \A y \in DOMAIN frags : ~frags[y].free =>
            y + frags[y].size <= p \/ p + n <= y
  PROVE  Allocator!Available(p, Need(bytes))
<1>1. ASSUME NEW l \in live
      PROVE  p + Need(bytes) <= l.ptr \/ l.ptr + Need(l.bytes) <= p
  <2>1. /\ l.ptr \in DOMAIN frags /\ ~frags[l.ptr].free
        /\ frags[l.ptr].size = get_aligned_bytes(l.bytes)
        /\ l.bytes \in Requests
    BY DEF HeapInv, LiveExact, MapsOK, isFree
  <2>2. Need(l.bytes) <= frags[l.ptr].size /\ Need(l.bytes) \in Nat
    BY <2>1, RequestFacts
  <2> QED BY <2>1, <2>2, RequestFacts, FragFacts DEF HeapInv
<1>2. b <= p /\ p + Need(bytes) <= b + BlockSize
  BY RequestFacts, BlockFacts
<1> QED BY <1>1, <1>2 DEF Allocator!Available

\* alloc is a step of the abstract allocator.
LEMMA AllocRefines ==
  ASSUME SafeRequests, HeapInv, NEW bytes \in Requests, alloc(bytes)
  PROVE  Allocator!Alloc(bytes)
<1> DEFINE n == get_aligned_bytes(bytes)
<1>1. /\ n \in Nat /\ n > 0 /\ Need(bytes) \in Nat /\ Need(bytes) <= n
  BY RequestFacts
<1>2. ASSUME NEW p \in Addr, Allocator!Available(p, Need(bytes)), Allocated(bytes, p)
      PROVE  Allocator!Alloc(bytes)
  BY <1>2 DEF Allocated, Allocator!Alloc, Allocator!Addr, Addr
<1>3. CASE AllocTooLarge(bytes) \/ AllocNoBlock(bytes)
  BY <1>3 DEF AllocTooLarge, AllocNoBlock, AllocFailed, Allocator!Alloc,
              Allocator!Null, Null
<1>4. CASE AllocFragment(bytes)
  <2>1. PICK e \in free_list_ : LowerBound(e, n) /\ Allocated(bytes, e.base)
    BY <1>4 DEF AllocFragment
  <2>2. e.base \in DOMAIN frags /\ frags[e.base].free /\ frags[e.base].size = e.size
    BY DEF HeapInv, FreeListExact, isFree
  <2>3. e.base \in Addr /\ e.base \in Nat /\ n <= frags[e.base].size
    BY <2>1, <2>2, FragFacts DEF HeapInv, MapsOK, LowerBound
  <2>4. \A y \in DOMAIN frags : ~frags[y].free =>
          y + frags[y].size <= e.base \/ e.base + n <= y
    BY <1>1, <2>2, <2>3, Apart, FragFacts DEF HeapInv
  <2>5. e.base + n <= frags[e.base].block + BlockSize
    BY <1>1, <2>2, <2>3, FragFacts, BlockFacts DEF HeapInv
  <2>6. frags[e.base].block \in Blocks /\ frags[e.base].block <= e.base
    BY <2>2, FragFacts DEF HeapInv
  <2> HIDE DEF n
  <2>7. Allocator!Available(e.base, Need(bytes))
    BY <1>1, <2>3, <2>4, <2>5, <2>6, AvailableFacts
  <2> QED BY <1>2, <2>1, <2>3, <2>7
<1>5. ASSUME NEW b \in Blocks, b \notin block_list_, n <= BlockSize,
             CarveBlock(bytes, b)
      PROVE  Allocator!Alloc(bytes)
  <2>1. b \in Addr /\ b \in Nat /\ b + n <= b + BlockSize
    BY <1>1, <1>5, AddrFacts, BlockFacts
  <2>2. \A y \in DOMAIN frags : ~frags[y].free =>
          y + frags[y].size <= b \/ b + n <= y
    BY <1>1, <1>5, <2>1, BlockUnused, FragFacts, BlockFacts DEF HeapInv
  <2> HIDE DEF n
  <2>3. Allocator!Available(b, Need(bytes))
    BY <1>1, <2>1, <2>2, AvailableFacts
  <2> QED BY <1>2, <1>5, <2>1, <2>3 DEF CarveBlock
<1>6. CASE AllocCachedBlock(bytes)
  <2>1. Len(block_cache_) \in DOMAIN block_cache_
        /\ block_cache_[Len(block_cache_)] \in Blocks
    BY <1>6, EmptySeq, LenProperties, ElementOfSeq
       DEF HeapInv, MapsOK, AllocCachedBlock
  <2>2. block_cache_[Len(block_cache_)] \notin block_list_
    BY <2>1 DEF HeapInv, CacheApart
  <2> QED BY <1>5, <1>6, <2>1, <2>2 DEF AllocCachedBlock
<1>7. CASE AllocNewBlock(bytes)
  BY <1>5, <1>7 DEF AllocNewBlock
<1> QED BY <1>3, <1>4, <1>6, <1>7 DEF alloc

\* So is free.
LEMMA FreeRefines ==
  ASSUME HeapInv, NEW ptr \in Addr, free(ptr)
  PROVE  Allocator!Free(ptr)
<1>1. (\E l \in live : l.ptr = ptr) <=> (ptr \in DOMAIN frags /\ ~frags[ptr].free)
  BY DEF HeapInv, LiveExact, isFree
<1>2. Found(ptr) <=> ptr \in DOMAIN frags
  BY FoundFacts DEF HeapInv, Found
<1>3. CASE FreeRefused(ptr)
  <2>1. ~ \E l \in live : l.ptr = ptr
    BY <1>1, <1>2, <1>3 DEF FreeRefused, isFree
  <2>2. live' = live /\ ret' = [op |-> "free", ok |-> FALSE, ptr |-> ptr]
    BY <1>3 DEF FreeRefused
  <2>3. live' = {l \in live : l.ptr # ptr}
    BY <2>1, <2>2
  <2>4. (\E l \in live : l.ptr = ptr) = FALSE
    BY <2>1
  <2> QED BY <2>2, <2>3, <2>4 DEF Allocator!Free
<1>4. CASE FreeFragment(ptr) \/ FreeBlock(ptr)
  <2>1. (\E l \in live : l.ptr = ptr) = TRUE
    BY <1>1, <1>4 DEF FreeFragment, FreeBlock, Found, isFree
  <2>2. Freed(ptr)
    BY <1>4 DEF FreeFragment, FreeBlock
  <2> QED BY <2>1, <2>2 DEF Freed, Allocator!Free
<1> QED BY <1>3, <1>4 DEF free

\* Every alloc(), free() and trim() is a step of PimAllocator: memory handed
\* out is held by nobody else, and free() succeeds exactly for what is held.
THEOREM Refinement ==
  ASSUME SafeRequests PROVE Spec => AllocatorSpec
<1>1. Init => Allocator!Init
  BY DEF Init, Allocator!Init, Null, Allocator!Null
<1>2. HeapInv /\ [Next]_vars => [Allocator!Next]_(Allocator!vars)
  <2> SUFFICES ASSUME HeapInv, [Next]_vars
               PROVE  [Allocator!Next]_(Allocator!vars)
    OBVIOUS
  <2>1. ASSUME NEW bytes \in Requests, alloc(bytes) PROVE Allocator!Next
    BY <2>1, AllocRefines DEF Allocator!Next
  <2>2. ASSUME NEW ptr \in Addr, free(ptr) PROVE Allocator!Next
    BY <2>2, FreeRefines DEF Allocator!Next, Addr, Allocator!Addr
  <2>3. CASE FreeNull
    BY <2>3 DEF FreeNull, Allocator!Next, Allocator!FreeNull, Null, Allocator!Null
  <2>4. CASE trim
    BY <2>4 DEF trim, Allocator!Next, Allocator!Trim, Null, Allocator!Null
  <2>5. CASE UNCHANGED vars
    BY <2>5 DEF vars, Allocator!vars
  <2> QED BY <2>1, <2>2, <2>3, <2>4, <2>5 DEF Next
<1> QED BY <1>1, <1>2, HeapInvariant, PTL DEF Spec, AllocatorSpec, Allocator!Spec
=============================================================================
