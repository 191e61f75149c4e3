------------------------- MODULE PimOclMemoryProofs -------------------------
(***************************************************************************)
(* Theorems about PimOclMemory, for every area, every set of handles and   *)
(* every number of buffers, programs and weights.                          *)
(***************************************************************************)
EXTENDS PimOclMemory, TLAPS

-----------------------------------------------------------------------------
(* The invariant.                                                          *)

\* A piece of the PIM area.
Piece == {o \in OclBufferObj : /\ HostBase <= o.host_addr
                               /\ o.host_addr + o.size <= HostBase + Units}

Extent(o) == [base |-> o.host_addr, size |-> o.size]
Handles(O) == {o.dev_addr : o \in O}

IsMemory(m) ==
  m = [pim_alloc_done |-> m.pim_alloc_done, heap |-> m.heap, sub |-> m.sub,
       store |-> m.store, pim |-> m.pim, data |-> m.data]

\* Memory m serves the pieces O, apart from each other and each seen at one
\* place by host and kernels, and the pointers G.
Serves(m, O, G) ==
  /\ IsMemory(m)
  /\ O \subseteq Piece
  /\ \A o, p \in O :
       o # p => o.dev_addr # p.dev_addr /\ HostView(o) \cap HostView(p) = {}
  /\ m.sub = [p \in Handles(O) |-> m.sub[p]]
  /\ \A o \in O : m.sub[o.dev_addr] = SubBufferRegion(o.host_addr, o.size)
  /\ m.heap = {Extent(o) : o \in O}
  /\ m.heap # {} => m.pim_alloc_done
  /\ m.store = [p \in G |-> m.store[p]]
  /\ G \subseteq Ptrs /\ G \cap Handles(O) = {}
  /\ m.pim = [v \in 0..(Units - 1) |-> m.pim[v]]

\* Who has what: the client, the weights kept, the executor, its programs.
Owns(b) == bo[b] # NoBo /\ bo[b].kind # "user"
OwnsPim(b) == Owns(b) /\ bo[b].mem_type = "PIM"
OwnsOther(b) == Owns(b) /\ bo[b].mem_type # "PIM"

ClientPim == {bo[b].data : b \in {c \in Bos : OwnsPim(c)}}
ExecPim == IF pim_initialized THEN {exec.tmp} ELSE {}
Pieces == ClientPim \cup weight_map_ \cup ExecPim

ClientPtrs == {PtrOf(b) : b \in {c \in Bos : OwnsOther(c)}}
CrfPtrs == {crf_lut_[k] : k \in DOMAIN crf_lut_}
ExecPtrs == IF pim_initialized THEN {exec.srf.dev_addr, exec.zero.dev_addr} ELSE {}
Pointers == ClientPtrs \cup CrfPtrs \cup ExecPtrs

\* Memory that is wrapped is owned by another object; nothing outlives the
\* executor but what the client has.
OwnersOK ==
  /\ pim_initialized \in BOOLEAN /\ exited \in BOOLEAN
  /\ bo \in [Bos -> Object \cup {NoBo}]
  /\ \A b \in Bos : bo[b] # NoBo /\ bo[b].kind = "user" =>
       \E r \in Bos : /\ Owns(r) /\ bo[r].mem_type = bo[b].mem_type
                      /\ bo[r].data = bo[b].data
  /\ pim_initialized => /\ exec.tmp \in OclBufferObj /\ exec.srf \in OclBufferObj
                        /\ exec.zero \in OclBufferObj
  /\ ~pim_initialized => exec = NoExec /\ crf_lut_ = << >> /\ weight_map_ = {}
  /\ crf_lut_ = [k \in DOMAIN crf_lut_ |-> crf_lut_[k]]

\* No memory has two owners.
PimApart ==
  /\ \A b, c \in Bos : OwnsPim(b) /\ OwnsPim(c) /\ bo[b].data = bo[c].data => b = c
  /\ ClientPim \cap weight_map_ = {}
  /\ ExecPim \cap (ClientPim \cup weight_map_) = {}

PointersApart ==
  /\ \A b, c \in Bos : OwnsOther(b) /\ OwnsOther(c) /\ PtrOf(b) = PtrOf(c) => b = c
  /\ \A j, k \in DOMAIN crf_lut_ : crf_lut_[j] = crf_lut_[k] => j = k
  /\ pim_initialized => exec.srf.dev_addr # exec.zero.dev_addr
  /\ ClientPtrs \cap CrfPtrs = {}
  /\ ExecPtrs \cap (ClientPtrs \cup CrfPtrs) = {}

\* The inductive invariant behind TypeOK and HandlesExact.
HandleInv == OwnersOK /\ PimApart /\ PointersApart /\ Serves(Memory, Pieces, Pointers)

\* Buffers hold what was written to them; programs are what they are kept for.
PimKept(o) == \A v \in HostView(o) : pim[v] = wrote[o.dev_addr]

\* The inductive invariant behind ReadsBack.
ContentsInv ==
  /\ wrote \in [Ptrs -> Data \cup {Unknown}]
  /\ \A o \in ClientPim : wrote[o.dev_addr] # Unknown => PimKept(o)
  /\ \A p \in ClientPtrs : wrote[p] # Unknown => store[p] = wrote[p]
  /\ \A w \in weight_map_ : wrote[w.dev_addr] \in Data /\ PimKept(w)
  /\ \A k \in DOMAIN crf_lut_ : store[crf_lut_[k]] = k

-----------------------------------------------------------------------------
(* Memory.                                                                 *)

\* What memory n has in common with m, if only contents differ.
SameShape(m, n) ==
  /\ IsMemory(n)
  /\ n.pim_alloc_done = m.pim_alloc_done /\ n.heap = m.heap /\ n.sub = m.sub
  /\ n.store = [p \in DOMAIN m.store |-> n.store[p]]
  /\ n.pim = [v \in DOMAIN m.pim |-> n.pim[v]]

\* Serves is about the shape of memory, not about its contents.
LEMMA ServesShape ==
  ASSUME NEW m, NEW n, NEW O, NEW G, Serves(m, O, G), SameShape(m, n)
  PROVE  Serves(n, O, G)
<1>1. DOMAIN m.store = G /\ DOMAIN m.pim = 0..(Units - 1)
  BY DEF Serves
<1> QED BY <1>1 DEF Serves, SameShape

\* Fill changes the contents of the units it fills, and no shape.
LEMMA FillShape ==
  ASSUME NEW m, NEW O, NEW G, Serves(m, O, G), NEW units, NEW d
  PROVE  /\ SameShape(m, Fill(m, units, d))
         /\ Fill(m, units, d).store = m.store
         /\ Fill(m, units, d).data = m.data
         /\ \A v \in 0..(Units - 1) :
              Fill(m, units, d).pim[v] = IF v \in units THEN d ELSE m.pim[v]
<1> DEFINE n == Fill(m, units, d)
<1>0. IsMemory(m)
  BY DEF Serves
<1>1. /\ n.data = m.data /\ n.heap = m.heap /\ n.sub = m.sub /\ n.store = m.store
      /\ n.pim_alloc_done = m.pim_alloc_done
      /\ n.pim = [v \in DOMAIN m.pim |-> IF v \in units THEN d ELSE m.pim[v]]
      /\ n = [pim_alloc_done |-> n.pim_alloc_done, heap |-> n.heap, sub |-> n.sub,
              store |-> n.store, pim |-> n.pim, data |-> n.data]
  BY <1>0 DEF IsMemory, Fill
<1> HIDE DEF n
<1>2. /\ DOMAIN m.pim = 0..(Units - 1)
      /\ m.store = [p \in DOMAIN m.store |-> m.store[p]]
  BY DEF Serves
<1>3. n.pim = [v \in DOMAIN m.pim |-> n.pim[v]]
  BY <1>1
<1>4. SameShape(m, n)
  BY <1>1, <1>2, <1>3 DEF SameShape, IsMemory
<1> QED BY <1>1, <1>2, <1>4 DEF n

\* So does a write of a buffer.
LEMMA StoreShape ==
  ASSUME NEW m, NEW O, NEW G, Serves(m, O, G), NEW p \in G, NEW d
  PROVE  LET n == [m EXCEPT !.store[p] = d] IN
         /\ SameShape(m, n) /\ n.pim = m.pim /\ n.data = m.data
         /\ \A q \in G : n.store[q] = IF q = p THEN d ELSE m.store[q]
<1> DEFINE n == [m EXCEPT !.store[p] = d]
<1>1. /\ n.pim = m.pim /\ n.data = m.data /\ n.heap = m.heap /\ n.sub = m.sub
      /\ n.pim_alloc_done = m.pim_alloc_done
      /\ n.store = [m.store EXCEPT ![p] = d]
      /\ n = [pim_alloc_done |-> n.pim_alloc_done, heap |-> n.heap, sub |-> n.sub,
              store |-> n.store, pim |-> n.pim, data |-> n.data]
  BY DEF Serves, IsMemory
<1> HIDE DEF n
<1>2. DOMAIN m.store = G /\ m.store = [q \in G |-> m.store[q]]
      /\ m.pim = [v \in DOMAIN m.pim |-> m.pim[v]]
  BY DEF Serves
<1>3. n.store = [q \in G |-> n.store[q]]
      /\ \A q \in G : n.store[q] = IF q = p THEN d ELSE m.store[q]
  BY <1>1, <1>2
<1>4. SameShape(m, n)
  BY <1>1, <1>2, <1>3 DEF SameShape, IsMemory
<1> QED BY <1>1, <1>3, <1>4 DEF n

\* The host's view of a piece is within the area and is not empty.
LEMMA PieceView ==
  ASSUME NEW o \in Piece
  PROVE  /\ HostView(o) \subseteq 0..(Units - 1)
         /\ o.host_addr - HostBase \in HostView(o)
         /\ o.dev_addr \in Ptrs /\ o.host_addr \in Nat /\ o.size \in 1..Units
  BY OclAssumption DEF Piece, OclBufferObj, HostView, Region

\* A kernel sees a piece where the host does.
LEMMA SameView ==
  ASSUME NEW m, NEW O, NEW G, Serves(m, O, G), NEW o \in O
  PROVE  DevView(m, o) = HostView(o)
<1>1. m.sub[o.dev_addr] = [origin |-> o.host_addr - HostBase, size |-> o.size]
  BY DEF Serves, SubBufferRegion
<1>2. m.sub[o.dev_addr].origin = o.host_addr - HostBase /\ m.sub[o.dev_addr].size = o.size
  BY <1>1
<1> QED BY <1>2 DEF DevView, HostView

\* A new piece of PIM memory.
LEMMA AllocPim ==
  ASSUME NEW m, NEW O, NEW G, Serves(m, O, G), NEW size \in 1..Units,
         NEW n \in alloc_memory(m, "PIM", size)
  PROVE  /\ Serves(n, O \cup {n.data}, G)
         /\ n.data \in Piece /\ n.data.size = size
         /\ n.data.dev_addr \notin Handles(O) \cup G
         /\ n.pim = m.pim /\ n.store = m.store
<1>1. DOMAIN m.sub = Handles(O) /\ DOMAIN m.store = G /\ IsMemory(m)
  BY DEF Serves
<1> DEFINE used == DOMAIN m.sub \cup DOMAIN m.store
<1>2. PICK a \in HeapAlloc(m.heap, size), p \in Fresh(used) : n = PimAllocated(m, a, p, size)
  BY DEF alloc_memory
<1>3. /\ n.pim_alloc_done = TRUE
      /\ n.heap = m.heap \cup {[base |-> a, size |-> size]}
      /\ n.sub = With(m.sub, p, SubBufferRegion(a, size))
      /\ n.data = [host_addr |-> a, dev_addr |-> p, size |-> size]
      /\ n.store = m.store /\ n.pim = m.pim
      /\ IsMemory(n)
  BY <1>1, <1>2 DEF IsMemory, PimAllocated
<1>d. PICK d : d = n.data
  OBVIOUS
<1>4. d.host_addr = a /\ d.dev_addr = p /\ d.size = size
  BY <1>3, <1>d
<1>5. p \in Ptrs /\ p \notin Handles(O) \cup G
  BY <1>1 DEF Fresh
<1>6. PICK x \in 0..(Units - size) :
        /\ a = HostBase + x
        /\ \A e \in m.heap : Region(HostBase + x, size) \cap Region(e.base, e.size) = {}
  BY DEF HeapAlloc
<1>7. d \in Piece
  <2>1. /\ a \in Nat /\ HostBase <= a /\ a + size <= HostBase + Units
    BY <1>6, OclAssumption
  <2> QED BY <1>3, <1>d, <1>4, <1>5, <2>1 DEF Piece, OclBufferObj
<1>8. ASSUME NEW o \in O PROVE HostView(o) \cap HostView(d) = {} /\ o.dev_addr # d.dev_addr
  <2>1. Extent(o) \in m.heap
    BY DEF Serves
  <2>2. Region(a, size) \cap Region(o.host_addr, o.size) = {}
    BY <1>6, <2>1 DEF Extent
  <2>3. o \in Piece
    BY DEF Serves
  <2>4. HostView(o) \cap HostView(d) = {}
    <3> SUFFICES ASSUME NEW v \in HostView(o), v \in HostView(d) PROVE FALSE
      OBVIOUS
    <3>1. o.host_addr \in Nat /\ o.size \in 1..Units /\ a \in Nat /\ HostBase \in Nat
      BY <2>3, <1>4, <1>7, PieceView, OclAssumption
    <3>2. v + HostBase \in Region(o.host_addr, o.size)
      BY <3>1 DEF HostView, Region
    <3>3. v + HostBase \in Region(a, size)
      BY <1>4, <3>1 DEF HostView, Region
    <3> QED BY <2>2, <3>2, <3>3
  <2> QED BY <1>4, <1>5, <2>4 DEF Handles
<1>9. Handles(O \cup {d}) = Handles(O) \cup {p}
  BY <1>4 DEF Handles
<1>10. /\ n.sub = [q \in Handles(O \cup {d}) |-> n.sub[q]]
       /\ \A q \in Handles(O) : n.sub[q] = m.sub[q]
       /\ n.sub[p] = SubBufferRegion(a, size)
  BY <1>1, <1>3, <1>5, <1>9, ZenonT(30) DEF With
<1>11. \A o \in O \cup {d} : n.sub[o.dev_addr] = SubBufferRegion(o.host_addr, o.size)
  BY <1>4, <1>10 DEF Serves, Handles
<1>12. n.heap = {Extent(o) : o \in O \cup {d}}
  BY <1>3, <1>4 DEF Serves, Extent
<1>13. \A o, q \in O \cup {d} :
         o # q => o.dev_addr # q.dev_addr /\ HostView(o) \cap HostView(q) = {}
  BY <1>8 DEF Serves
<1>14. Serves(n, O \cup {d}, G)
  <2>1. O \cup {d} \subseteq Piece /\ (n.heap # {} => n.pim_alloc_done)
    BY <1>3, <1>7 DEF Serves
  <2>2. n.store = [q \in G |-> n.store[q]] /\ n.pim = [v \in 0..(Units - 1) |-> n.pim[v]]
    BY <1>3 DEF Serves
  <2>3. G \subseteq Ptrs /\ G \cap Handles(O \cup {d}) = {}
    BY <1>5, <1>9 DEF Serves
  <2> QED BY <1>3, <1>10, <1>11, <1>12, <1>13, <2>1, <2>2, <2>3 DEF Serves
<1> QED BY <1>3, <1>d, <1>4, <1>5, <1>7, <1>14

\* A new DEVICE or HOST buffer.
LEMMA AllocOther ==
  ASSUME NEW m, NEW O, NEW G, Serves(m, O, G), NEW mem \in {"DEVICE", "HOST"},
         NEW size \in 1..Units, NEW n \in alloc_memory(m, mem, size)
  PROVE  LET p == n.data.dev_addr IN
         /\ Serves(n, O, G \cup {p})
         /\ n.data \in OclBufferObj /\ n.data.size = size
         /\ p \notin Handles(O) \cup G
         /\ n.pim = m.pim
         /\ \A q \in G : n.store[q] = m.store[q]
<1>1. DOMAIN m.sub = Handles(O) /\ DOMAIN m.store = G /\ IsMemory(m)
  BY DEF Serves
<1> DEFINE used == DOMAIN m.sub \cup DOMAIN m.store
<1>a. alloc_memory(m, mem, size) = {Allocated(m, p, size) : p \in Fresh(used)}
  BY DEF alloc_memory
<1>2. PICK p \in Fresh(used) : n = Allocated(m, p, size)
  BY <1>a
<1>3. /\ n.pim_alloc_done = m.pim_alloc_done /\ n.heap = m.heap /\ n.sub = m.sub
      /\ n.store = With(m.store, p, Unknown)
      /\ n.data = [host_addr |-> 0, dev_addr |-> p, size |-> size]
      /\ n.pim = m.pim /\ IsMemory(n)
  BY <1>1, <1>2 DEF IsMemory, Allocated
<1>4. p \in Ptrs /\ p \notin Handles(O) \cup G
  BY <1>1 DEF Fresh
<1>5. n.data.dev_addr = p /\ n.data.size = size /\ n.data \in OclBufferObj
  BY <1>3, <1>4 DEF OclBufferObj
<1>6. /\ n.store = [q \in G \cup {p} |-> n.store[q]]
      /\ \A q \in G : n.store[q] = m.store[q]
  BY <1>1, <1>3, <1>4 DEF With
<1>7. Serves(n, O, G \cup {p})
  BY <1>3, <1>4, <1>6 DEF Serves
<1> QED BY <1>3, <1>4, <1>5, <1>6, <1>7

\* n is m without the pieces F and the pointers P.
Without(m, n, F, P) ==
  /\ IsMemory(n) /\ n.pim_alloc_done = m.pim_alloc_done
  /\ n.heap = {e \in m.heap : e.base \notin {o.host_addr : o \in F}}
  /\ n.sub = Restrict(m.sub, DOMAIN m.sub \ Handles(F))
  /\ n.store = Restrict(m.store, DOMAIN m.store \ P)
  /\ n.pim = [v \in DOMAIN m.pim |-> n.pim[v]]

\* Memory without some of its buffers serves the others, with their contents.
LEMMA FreeServes ==
  ASSUME NEW m, NEW n, NEW O, NEW G, Serves(m, O, G), NEW F \in SUBSET O, NEW P,
         Without(m, n, F, P)
  PROVE  /\ Serves(n, O \ F, G \ P)
         /\ \A q \in G \ P : n.store[q] = m.store[q]
<1>1. DOMAIN m.sub = Handles(O) /\ DOMAIN m.store = G /\ DOMAIN m.pim = 0..(Units - 1)
  BY DEF Serves
<1>2. \A o, p \in O : o.host_addr = p.host_addr => o = p
  <2> SUFFICES ASSUME NEW o \in O, NEW p \in O, o.host_addr = p.host_addr, o # p
               PROVE  FALSE
    OBVIOUS
  <2>1. o \in Piece /\ p \in Piece /\ HostView(o) \cap HostView(p) = {}
    BY DEF Serves
  <2>2. o.host_addr - HostBase \in HostView(o) /\ p.host_addr - HostBase \in HostView(p)
    BY <2>1, PieceView
  <2> QED BY <2>1, <2>2
<1>3. \A o, p \in O : o.dev_addr = p.dev_addr => o = p
  BY DEF Serves
<1>4. Handles(O) \ Handles(F) = Handles(O \ F)
  BY <1>3 DEF Handles
<1>5. n.heap = {Extent(o) : o \in O \ F}
  <2>1. n.heap = {e \in {Extent(o) : o \in O} : e.base \notin {o.host_addr : o \in F}}
    BY DEF Without, Serves
  <2>2. \A o \in O : Extent(o).base \notin {p.host_addr : p \in F} <=> o \notin F
    BY <1>2 DEF Extent
  <2> QED BY <2>1, <2>2
<1>6. /\ n.sub = [q \in Handles(O \ F) |-> n.sub[q]]
      /\ \A q \in Handles(O \ F) : n.sub[q] = m.sub[q]
  BY <1>1, <1>4 DEF Without, Restrict
<1>7. /\ n.store = [q \in G \ P |-> n.store[q]]
      /\ \A q \in G \ P : n.store[q] = m.store[q]
  BY <1>1 DEF Without, Restrict
<1>8. \A o \in O \ F : n.sub[o.dev_addr] = SubBufferRegion(o.host_addr, o.size)
  BY <1>6 DEF Serves, Handles
<1>9. n.heap # {} => n.pim_alloc_done
  BY DEF Without, Serves
<1>10. G \ P \subseteq Ptrs /\ (G \ P) \cap Handles(O \ F) = {}
  BY DEF Serves, Handles
<1>11. IsMemory(n) /\ n.pim = [v \in 0..(Units - 1) |-> n.pim[v]]
  BY <1>1 DEF Without
<1>12. \A o, p \in O \ F :
         o # p => o.dev_addr # p.dev_addr /\ HostView(o) \cap HostView(p) = {}
  BY DEF Serves
<1>13. O \ F \subseteq Piece
  BY DEF Serves
<1>14. Serves(n, O \ F, G \ P)
  BY <1>5, <1>6, <1>7, <1>8, <1>9, <1>10, <1>11, <1>12, <1>13 DEF Serves
<1> QED BY <1>7, <1>14

\* What is given back, of either kind.
LEMMA FreePim ==
  ASSUME NEW m, NEW O, NEW G, Serves(m, O, G), NEW d \in O
  PROVE  LET n == free_memory(m, d, "PIM") IN
         /\ Serves(n, O \ {d}, G)
         /\ n.store = m.store
         /\ \A v \in 0..(Units - 1) : v \notin HostView(d) => n.pim[v] = m.pim[v]
<1> DEFINE n == free_memory(m, d, "PIM")
           f == Fill(m, HostView(d), Unknown)
<1>1. /\ SameShape(m, f) /\ f.store = m.store
      /\ \A v \in 0..(Units - 1) : v \notin HostView(d) => f.pim[v] = m.pim[v]
  BY FillShape
<1> HIDE DEF f
<1>2. /\ n = [f EXCEPT !.heap = {e \in @ : e.base # d.host_addr},
                       !.sub = Restrict(@, DOMAIN @ \ {d.dev_addr})]
      /\ IsMemory(f)
  BY <1>1 DEF free_memory, f, SameShape
<1> HIDE DEF n
<1>3. /\ IsMemory(n) /\ n.pim_alloc_done = f.pim_alloc_done
      /\ n.heap = {e \in f.heap : e.base # d.host_addr}
      /\ n.sub = Restrict(f.sub, DOMAIN f.sub \ {d.dev_addr})
      /\ n.store = f.store /\ n.pim = f.pim
  BY <1>2 DEF IsMemory
<1>4. Without(m, n, {d}, {})
  <2>1. n.store = Restrict(m.store, DOMAIN m.store \ {})
    BY <1>1, <1>3 DEF Restrict, Serves
  <2>2. n.pim = [v \in DOMAIN m.pim |-> n.pim[v]]
    BY <1>1, <1>3 DEF SameShape
  <2> QED BY <1>1, <1>3, <2>1, <2>2, ZenonT(30) DEF Without, SameShape, Handles
<1>5. Serves(n, O \ {d}, G)
  <2>1. G \ {} = G
    OBVIOUS
  <2> QED BY <1>4, <2>1, FreeServes
<1> QED BY <1>1, <1>3, <1>5 DEF n

\* free_memory of a device or host buffer takes that buffer and leaves PIM
\* memory alone.
LEMMA FreeOther ==
  ASSUME NEW m, NEW O, NEW G, Serves(m, O, G), NEW d, NEW mem \in {"DEVICE", "HOST"}
  PROVE  LET n == free_memory(m, d, mem) IN
         /\ Serves(n, O, G \ {d.dev_addr})
         /\ n.pim = m.pim
         /\ \A q \in G \ {d.dev_addr} : n.store[q] = m.store[q]
<1> DEFINE n == free_memory(m, d, mem)
<1>1. /\ n = [m EXCEPT !.store = Restrict(@, DOMAIN @ \ {d.dev_addr})]
      /\ IsMemory(m)
  BY DEF free_memory, Serves
<1> HIDE DEF n
<1>2. /\ IsMemory(n) /\ n.pim_alloc_done = m.pim_alloc_done
      /\ n.heap = m.heap /\ n.sub = m.sub /\ n.pim = m.pim
      /\ n.store = Restrict(m.store, DOMAIN m.store \ {d.dev_addr})
  BY <1>1 DEF IsMemory
<1>3. Without(m, n, {}, {d.dev_addr})
  <2>1. n.sub = Restrict(m.sub, DOMAIN m.sub \ {})
    BY <1>2 DEF Restrict, Serves
  <2>2. n.pim = [v \in DOMAIN m.pim |-> n.pim[v]]
    BY <1>2 DEF Serves
  <2> QED BY <1>2, <2>1, <2>2 DEF Without, Handles
<1>4. PICK F, P : F = {} /\ P = {d.dev_addr}
  OBVIOUS
<1>5. Serves(n, O \ F, G \ P) /\ \A q \in G \ P : n.store[q] = m.store[q]
  <2>1. PICK k : k = n
    OBVIOUS
  <2>2. Without(m, k, F, P)
    BY <1>3, <1>4, <2>1
  <2>3. Serves(k, O \ F, G \ P)
    BY <1>4, <2>2, FreeServes
  <2>4. DOMAIN m.store = G
    BY DEF Serves
  <2>5. \A q \in G \ P : k.store[q] = m.store[q]
    BY <2>2, <2>4 DEF Without, Restrict
  <2> QED BY <2>1, <2>3, <2>5
<1>6. O \ F = O
  BY <1>4
<1> QED BY <1>2, <1>4, <1>5, <1>6 DEF n

-----------------------------------------------------------------------------
(* Owners.                                                                 *)

LEMMA SetServes ==
  ASSUME NEW m, NEW O, NEW G, Serves(m, O, G), SetMemory(m)
  PROVE  /\ Serves(Memory, O, G)'
         /\ Memory'.store = m.store /\ Memory'.pim = m.pim
<1>1. /\ Memory' = [pim_alloc_done |-> m.pim_alloc_done, heap |-> m.heap, sub |-> m.sub,
                    store |-> m.store, pim |-> m.pim, data |-> Null]
  BY DEF Memory, SetMemory
<1>2. /\ Memory'.pim_alloc_done = m.pim_alloc_done /\ Memory'.heap = m.heap
      /\ Memory'.sub = m.sub /\ Memory'.store = m.store /\ Memory'.pim = m.pim
      /\ IsMemory(Memory)'
  BY <1>1 DEF IsMemory
<1>3. Serves(Memory, O, G)'
  BY <1>2 DEF Serves
<1> QED BY <1>2, <1>3

\* The fields of Memory are the variables.
LEMMA MemoryFields ==
  Memory.pim_alloc_done = pim_alloc_done /\ Memory.heap = heap /\ Memory.sub = sub
    /\ Memory.store = store /\ Memory.pim = pim
  BY DEF Memory

\* The objects of the client: what it wraps is owned, and in memory.
LEMMA ObjectServed ==
  ASSUME HandleInv, NEW b \in Bos, bo[b] # NoBo
  PROVE  /\ bo[b] \in Object /\ bo[b].data \in OclBufferObj /\ PtrOf(b) \in Ptrs
         /\ bo[b].mem_type = "PIM" => bo[b].data \in ClientPim
         /\ bo[b].mem_type # "PIM" => PtrOf(b) \in ClientPtrs
         /\ bo[b].mem_type \in MemType
<1>1. bo[b] \in Object
  BY DEF HandleInv, OwnersOK
<1>2. bo[b].data \in OclBufferObj /\ PtrOf(b) \in Ptrs /\ bo[b].mem_type \in MemType
  BY <1>1 DEF Object, OclBufferObj, PtrOf
<1>3. PICK r \in Bos : /\ Owns(r) /\ bo[r].mem_type = bo[b].mem_type
                       /\ bo[r].data = bo[b].data
  BY DEF HandleInv, OwnersOK, Owns
<1>4. bo[b].mem_type = "PIM" => bo[b].data \in ClientPim
  BY <1>3 DEF ClientPim, OwnsPim
<1>5. bo[b].mem_type # "PIM" => PtrOf(b) \in ClientPtrs
  BY <1>3 DEF ClientPtrs, OwnsOther, PtrOf
<1> QED BY <1>1, <1>2, <1>4, <1>5

\* Init establishes HandleInv.
LEMMA InitHandles == Init => HandleInv
<1> SUFFICES ASSUME Init PROVE HandleInv
  OBVIOUS
<1>1. \A b \in Bos : bo[b] = NoBo
  BY DEF Init
<1>2. ClientPim = {} /\ ExecPim = {} /\ weight_map_ = {} /\ Pieces = {}
  BY <1>1 DEF Init, ClientPim, ExecPim, Pieces, OwnsPim, Owns
<1>3. ClientPtrs = {} /\ ExecPtrs = {} /\ CrfPtrs = {} /\ Pointers = {}
  BY <1>1 DEF Init, ClientPtrs, ExecPtrs, CrfPtrs, Pointers, OwnsOther, Owns
<1>4. OwnersOK
  <2>1. crf_lut_ = [k \in DOMAIN crf_lut_ |-> crf_lut_[k]]
    BY DEF Init
  <2>2. bo \in [Bos -> Object \cup {NoBo}]
    BY DEF Init
  <2> QED BY <1>1, <2>1, <2>2 DEF Init, OwnersOK
<1>5. PimApart /\ PointersApart
  BY <1>1, <1>2, <1>3 DEF PimApart, PointersApart, Init, OwnsPim, OwnsOther, Owns
<1>6. Serves(Memory, {}, {})
  BY DEF Init, Serves, IsMemory, Memory, Handles
<1> QED BY <1>2, <1>3, <1>4, <1>5, <1>6 DEF HandleInv

\* Steps that change who has what in one way at most: a program or a weight
\* more.
LEMMA OperationHandles ==
  ASSUME HandleInv, NEW n, NEW O, NEW G, Serves(n, O, G), SetMemory(n),
         bo' = bo, exec' = exec, pim_initialized' = pim_initialized, exited' \in BOOLEAN,
         \/ crf_lut_' = crf_lut_ /\ G = Pointers
         \/ /\ pim_initialized
            /\ \E k, q : /\ k \notin DOMAIN crf_lut_ /\ q \notin Pointers
                         /\ crf_lut_' = With(crf_lut_, k, q) /\ G = Pointers \cup {q},
         \/ weight_map_' = weight_map_ /\ O = Pieces
         \/ /\ pim_initialized
            /\ \E w : w \notin Pieces /\ weight_map_' = weight_map_ \cup {w}
                      /\ O = Pieces \cup {w}
  PROVE  HandleInv'
<1>1. /\ ClientPim' = ClientPim /\ ExecPim' = ExecPim /\ ClientPtrs' = ClientPtrs
      /\ ExecPtrs' = ExecPtrs
      /\ \A b \in Bos : /\ Owns(b)' <=> Owns(b)
                        /\ OwnsPim(b)' <=> OwnsPim(b)
                        /\ OwnsOther(b)' <=> OwnsOther(b)
                        /\ PtrOf(b)' = PtrOf(b)
  BY DEF ClientPim, ExecPim, ClientPtrs, ExecPtrs, Owns, OwnsPim, OwnsOther, PtrOf
<1>2. Pieces' = O /\ PimApart'
  <2>1. CASE weight_map_' = weight_map_ /\ O = Pieces
    BY <1>1, <2>1 DEF Pieces, PimApart, HandleInv
  <2>2. ASSUME NEW w, w \notin Pieces, weight_map_' = weight_map_ \cup {w},
               O = Pieces \cup {w}
        PROVE  Pieces' = O /\ PimApart'
    BY <1>1, <2>2 DEF Pieces, PimApart, HandleInv
  <2> QED BY <2>1, <2>2
<1>3. Pointers' = G /\ PointersApart' /\ crf_lut_' = [k \in DOMAIN crf_lut_' |-> crf_lut_'[k]]
  <2>1. CASE crf_lut_' = crf_lut_ /\ G = Pointers
    <3>1. CrfPtrs' = CrfPtrs
      BY <2>1 DEF CrfPtrs
    <3> QED BY <1>1, <2>1, <3>1 DEF Pointers, PointersApart, HandleInv, OwnersOK
  <2>2. ASSUME NEW k, NEW q, k \notin DOMAIN crf_lut_, q \notin Pointers,
               crf_lut_' = With(crf_lut_, k, q), G = Pointers \cup {q}
        PROVE  Pointers' = G /\ PointersApart'
               /\ crf_lut_' = [j \in DOMAIN crf_lut_' |-> crf_lut_'[j]]
    <3>1. /\ DOMAIN crf_lut_' = DOMAIN crf_lut_ \cup {k} /\ crf_lut_'[k] = q
          /\ \A j \in DOMAIN crf_lut_ : crf_lut_'[j] = crf_lut_[j]
          /\ crf_lut_' = [j \in DOMAIN crf_lut_' |-> crf_lut_'[j]]
      BY <2>2 DEF With
    <3>2. CrfPtrs' = CrfPtrs \cup {q}
      BY <3>1 DEF CrfPtrs
    <3>3. Pointers' = G
      BY <1>1, <2>2, <3>2 DEF Pointers
    <3>4. \A i, j \in DOMAIN crf_lut_' : crf_lut_'[i] = crf_lut_'[j] => i = j
      <4>1. \A i \in DOMAIN crf_lut_ : crf_lut_[i] # q
        BY <2>2 DEF Pointers, CrfPtrs
      <4> QED BY <3>1, <4>1 DEF HandleInv, PointersApart
    <3>5. PointersApart'
      BY <1>1, <2>2, <3>2, <3>4 DEF PointersApart, HandleInv, Pointers
    <3> QED BY <3>1, <3>3, <3>5
  <2> QED BY <2>1, <2>2
<1>4. OwnersOK'
  BY <1>1, <1>3 DEF HandleInv, OwnersOK
<1>5. Serves(Memory, O, G)'
  BY SetServes
<1> QED BY <1>2, <1>3, <1>4, <1>5 DEF HandleInv

\* Steps that leave memory and owners alone.
LEMMA SameHandles ==
  ASSUME HandleInv, UNCHANGED <<pim_initialized, memory, handles>>, exited' \in BOOLEAN
  PROVE  HandleInv'
<1>1. /\ pim_initialized' = pim_initialized /\ bo' = bo /\ exec' = exec
      /\ crf_lut_' = crf_lut_ /\ weight_map_' = weight_map_
  BY DEF handles
<1>2. Serves(Memory, Pieces, Pointers) /\ SetMemory(Memory)
  BY MemoryFields DEF HandleInv, SetMemory, memory
<1>3. PICK m, O, G : m = Memory /\ O = Pieces /\ G = Pointers
  OBVIOUS
<1>4. Serves(m, O, G) /\ SetMemory(m)
  BY <1>2, <1>3
<1> QED BY <1>1, <1>3, <1>4, OperationHandles

\* Steps of the client: only its objects change.
LEMMA ClientHandles ==
  ASSUME HandleInv, NEW n, NEW O, NEW G, Serves(n, O, G), SetMemory(n),
         exec' = exec, crf_lut_' = crf_lut_, weight_map_' = weight_map_,
         pim_initialized' = pim_initialized, exited' = exited,
         bo' \in [Bos -> Object \cup {NoBo}],
         \A b \in Bos : bo'[b] # NoBo /\ bo'[b].kind = "user" =>
           \E r \in Bos : /\ Owns(r)' /\ bo'[r].mem_type = bo'[b].mem_type
                          /\ bo'[r].data = bo'[b].data,
         \A b, c \in Bos : OwnsPim(b)' /\ OwnsPim(c)' /\ bo'[b].data = bo'[c].data => b = c,
         \A b, c \in Bos : OwnsOther(b)' /\ OwnsOther(c)' /\ PtrOf(b)' = PtrOf(c)' => b = c,
         O = ClientPim' \cup weight_map_ \cup ExecPim,
         ClientPim' \cap (weight_map_ \cup ExecPim) = {},
         G = ClientPtrs' \cup CrfPtrs \cup ExecPtrs,
         ClientPtrs' \cap (CrfPtrs \cup ExecPtrs) = {}
  PROVE  HandleInv'
<1>1. ExecPim' = ExecPim /\ ExecPtrs' = ExecPtrs /\ CrfPtrs' = CrfPtrs
  BY DEF ExecPim, ExecPtrs, CrfPtrs
<1>2. Pieces' = O /\ PimApart'
  BY <1>1 DEF Pieces, PimApart, HandleInv
<1>3. Pointers' = G /\ PointersApart'
  BY <1>1 DEF Pointers, PointersApart, HandleInv
<1>4. OwnersOK'
  BY DEF HandleInv, OwnersOK
<1>5. Serves(Memory, O, G)'
  BY SetServes
<1> QED BY <1>2, <1>3, <1>4, <1>5 DEF HandleInv

\* A piece whose handle is new is new.
LEMMA NewPiece ==
  ASSUME NEW O, NEW d, d.dev_addr \notin Handles(O)
  PROVE  d \notin O
  BY DEF Handles

\* PimInitialize keeps HandleInv: the executor's buffers are new ones.
LEMMA InitializeHandles == ASSUME HandleInv, PimInitialize PROVE HandleInv'
<1>1. CASE Exit
  BY <1>1, SameHandles DEF Exit
<1>2. ASSUME NEW m1 \in alloc_memory(Memory, "DEVICE", 1),
             NEW m2 \in alloc_memory(m1, "DEVICE", 1),
             NEW m3 \in alloc_memory(m2, "PIM", TmpSize),
             SetMemory(m3),
             exec' = [srf |-> m1.data, zero |-> m2.data, tmp |-> m3.data],
             pim_initialized' = TRUE,
             UNCHANGED <<bo, crf_lut_, weight_map_, exited, wrote>>,
             ~pim_initialized
      PROVE  HandleInv'
  <2>1. PICK O, G, M : O = Pieces /\ G = Pointers /\ M = Memory
    OBVIOUS
  <2>2. Serves(M, O, G) /\ 1 \in 1..Units /\ TmpSize \in 1..Units
    BY <2>1, OclAssumption DEF HandleInv
  <2>3. PICK p1 : p1 = m1.data.dev_addr
    OBVIOUS
  <2>4. Serves(m1, O, G \cup {p1}) /\ m1.data \in OclBufferObj /\ p1 \notin G
    BY <1>2, <2>1, <2>2, <2>3, AllocOther
  <2>5. PICK p2, H : p2 = m2.data.dev_addr /\ H = G \cup {p1}
    OBVIOUS
  <2>6. Serves(m2, O, H \cup {p2}) /\ m2.data \in OclBufferObj /\ p2 \notin H
    BY <1>2, <2>2, <2>4, <2>5, AllocOther
  <2>7. PICK J : J = H \cup {p2}
    OBVIOUS
  <2>8. Serves(m3, O \cup {m3.data}, J) /\ m3.data \in Piece /\ m3.data \notin O
    BY <1>2, <2>2, <2>6, <2>7, AllocPim, NewPiece
  <2>9. PICK Q : Q = O \cup {m3.data}
    OBVIOUS
  <2>10. Serves(Memory, Q, J)'
    BY <1>2, <2>8, <2>9, SetServes
  <2>11. exec'.srf = m1.data /\ exec'.zero = m2.data /\ exec'.tmp = m3.data
    BY <1>2
  <2>12. /\ weight_map_ = {} /\ crf_lut_ = << >> /\ ExecPim = {} /\ ExecPtrs = {}
         /\ CrfPtrs = {}
    BY <1>2 DEF HandleInv, OwnersOK, ExecPim, ExecPtrs, CrfPtrs
  <2>13. /\ ClientPim' = ClientPim /\ ClientPtrs' = ClientPtrs /\ CrfPtrs' = CrfPtrs
         /\ ExecPim' = {m3.data} /\ ExecPtrs' = {p1, p2}
    BY <1>2, <2>3, <2>5, <2>11
       DEF ClientPim, ClientPtrs, CrfPtrs, OwnsPim, OwnsOther, Owns, PtrOf, ExecPim, ExecPtrs
  <2>14. Pieces' = Q /\ PimApart'
    BY <1>2, <2>1, <2>8, <2>9, <2>12, <2>13 DEF Pieces, PimApart, HandleInv, OwnsPim, Owns
  <2>15. Pointers' = J /\ PointersApart'
    <3>1. Pointers' = J /\ p1 # p2 /\ p1 \notin ClientPtrs /\ p2 \notin ClientPtrs
      BY <2>1, <2>4, <2>5, <2>6, <2>7, <2>12, <2>13 DEF Pointers
    <3>2. /\ \A b, c \in Bos : OwnsOther(b)' /\ OwnsOther(c)' /\ PtrOf(b)' = PtrOf(c)' => b = c
          /\ \A j, k \in DOMAIN crf_lut_' : crf_lut_'[j] = crf_lut_'[k] => j = k
      BY <1>2 DEF HandleInv, PointersApart, OwnsOther, Owns, PtrOf
    <3>3. exec'.srf.dev_addr # exec'.zero.dev_addr
      BY <2>3, <2>5, <2>11, <3>1
    <3> QED BY <2>12, <2>13, <3>1, <3>2, <3>3 DEF PointersApart
  <2>16. OwnersOK'
    BY <1>2, <2>4, <2>6, <2>8, <2>11 DEF HandleInv, OwnersOK, Owns, Piece
  <2> QED BY <2>10, <2>14, <2>15, <2>16 DEF HandleInv
<1>3. QED BY <1>1, <1>2 DEF PimInitialize

\* PimDeinitialize keeps HandleInv.
LEMMA DeinitializeHandles == ASSUME HandleInv, PimDeinitialize PROVE HandleInv'
<1>1. PICK n, O, G, M : n = Released(crf_lut_) /\ O = Pieces /\ G = Pointers /\ M = Memory
  OBVIOUS
<1>2. PICK F, P : F = weight_map_ \cup {exec.tmp} /\ P = CrfPtrs \cup ExecPtrs
  OBVIOUS
<1>3. /\ SetMemory(n) /\ pim_initialized /\ ~pim_initialized' /\ exec' = NoExec
      /\ crf_lut_' = << >> /\ weight_map_' = {} /\ bo' = bo /\ exited' = exited
      /\ pim_initialized' = FALSE
  BY <1>1 DEF PimDeinitialize, Running
<1>4. Serves(M, O, G) /\ F \in SUBSET O
  BY <1>1, <1>2, <1>3 DEF HandleInv, Pieces, ExecPim
<1>5. PICK f : f = Fill(M, UNION {HostView(o) : o \in F}, Unknown)
  OBVIOUS
<1>6. SameShape(M, f) /\ f.store = M.store
  BY <1>4, <1>5, FillShape
<1>7. PICK bases : bases = {w.host_addr : w \in weight_map_} \cup {exec.tmp.host_addr}
  OBVIOUS
<1>8. PICK ptrs : ptrs = {w.dev_addr : w \in weight_map_} \cup {exec.tmp.dev_addr}
  OBVIOUS
<1>9. PICK devs : devs = {exec.srf.dev_addr, exec.zero.dev_addr} \cup Range(crf_lut_)
  OBVIOUS
<1>10. n = [f EXCEPT !.heap = {e \in @ : e.base \notin bases},
                     !.sub = Restrict(@, DOMAIN @ \ ptrs),
                     !.store = Restrict(@, DOMAIN @ \ devs)]
  BY <1>1, <1>2, <1>5, <1>7, <1>8, <1>9 DEF Released
<1>11. bases = {o.host_addr : o \in F} /\ ptrs = Handles(F)
  BY <1>2, <1>7, <1>8 DEF Handles
<1>12. devs = P
  BY <1>2, <1>3, <1>9 DEF CrfPtrs, ExecPtrs, Range
<1>13. Without(M, n, F, P)
  <2>1. IsMemory(f)
    BY <1>6 DEF SameShape
  <2>2. /\ IsMemory(n) /\ n.pim_alloc_done = f.pim_alloc_done
        /\ n.heap = {e \in f.heap : e.base \notin bases}
        /\ n.sub = Restrict(f.sub, DOMAIN f.sub \ ptrs)
        /\ n.store = Restrict(f.store, DOMAIN f.store \ devs)
        /\ n.pim = f.pim
    BY <1>10, <2>1 DEF IsMemory
  <2>3. n.pim = [v \in DOMAIN M.pim |-> n.pim[v]]
    BY <1>6, <2>2 DEF SameShape
  <2> QED BY <1>6, <1>11, <1>12, <2>2, <2>3 DEF Without, SameShape
<1>14. Serves(n, O \ F, G \ P)
  BY <1>4, <1>13, FreeServes
<1>15. /\ ClientPim' = ClientPim /\ ClientPtrs' = ClientPtrs /\ CrfPtrs' = {}
       /\ ExecPim' = {} /\ ExecPtrs' = {}
  BY <1>3 DEF ClientPim, ClientPtrs, CrfPtrs, ExecPim, ExecPtrs, OwnsPim, OwnsOther, Owns, PtrOf
<1>16. Pieces' = O \ F /\ PimApart'
  BY <1>1, <1>2, <1>3, <1>15 DEF Pieces, PimApart, HandleInv, ExecPim, OwnsPim, Owns
<1>17. Pointers' = G \ P /\ PointersApart'
  <2>1. ClientPtrs \cap P = {} /\ G = ClientPtrs \cup P
    BY <1>1, <1>2 DEF Pointers, PointersApart, HandleInv
  <2>2. Pointers' = G \ P
    BY <1>15, <2>1 DEF Pointers
  <2>3. \A b, c \in Bos : OwnsOther(b)' /\ OwnsOther(c)' /\ PtrOf(b)' = PtrOf(c)' => b = c
    BY <1>3 DEF HandleInv, PointersApart, OwnsOther, Owns, PtrOf
  <2>4. DOMAIN crf_lut_' = {}
    BY <1>3
  <2> QED BY <1>3, <1>15, <2>2, <2>3, <2>4 DEF PointersApart
<1>18. OwnersOK'
  <2>1. crf_lut_' = [k \in DOMAIN crf_lut_' |-> crf_lut_'[k]]
    BY <1>3
  <2> QED BY <1>3, <2>1 DEF HandleInv, OwnersOK, Owns
<1>19. PICK Q, J : Q = O \ F /\ J = G \ P
  OBVIOUS
<1>20. Serves(Memory, Q, J)'
  BY <1>3, <1>14, <1>19, SetServes
<1> QED BY <1>16, <1>17, <1>18, <1>19, <1>20 DEF HandleInv

\* A new object r at b.
LEMMA NewObject ==
  ASSUME HandleInv, NEW b \in Bos, bo[b] = NoBo, NEW r \in Object,
         bo' = [bo EXCEPT ![b] = r]
  PROVE  /\ bo' \in [Bos -> Object \cup {NoBo}]
         /\ r # NoBo /\ bo'[b] = r
         /\ \A c \in Bos : c # b => bo'[c] = bo[c]
         /\ \A c \in Bos : c # b => /\ Owns(c)' <=> Owns(c)
                                    /\ OwnsPim(c)' <=> OwnsPim(c)
                                    /\ OwnsOther(c)' <=> OwnsOther(c)
                                    /\ PtrOf(c)' = PtrOf(c)
         /\ ~Owns(b)
         /\ \A c \in Bos : bo'[c] # NoBo /\ bo'[c].kind = "user" /\ c # b =>
              \E s \in Bos : /\ Owns(s)' /\ bo'[s].mem_type = bo'[c].mem_type
                             /\ bo'[s].data = bo'[c].data
<1>1. bo \in [Bos -> Object \cup {NoBo}]
  BY DEF HandleInv, OwnersOK
<1>2. /\ bo' \in [Bos -> Object \cup {NoBo}] /\ bo'[b] = r
      /\ \A c \in Bos : c # b => bo'[c] = bo[c]
  BY <1>1
<1>3. r # NoBo /\ ~Owns(b)
  BY OclAssumption DEF Owns
<1>4. \A c \in Bos : c # b => /\ Owns(c)' <=> Owns(c)
                              /\ OwnsPim(c)' <=> OwnsPim(c)
                              /\ OwnsOther(c)' <=> OwnsOther(c)
                              /\ PtrOf(c)' = PtrOf(c)
  BY <1>2 DEF Owns, OwnsPim, OwnsOther, PtrOf
<1>5. ASSUME NEW c \in Bos, bo'[c] # NoBo, bo'[c].kind = "user", c # b
      PROVE  \E s \in Bos : /\ Owns(s)' /\ bo'[s].mem_type = bo'[c].mem_type
                            /\ bo'[s].data = bo'[c].data
  <2>1. bo[c] # NoBo /\ bo[c].kind = "user" /\ bo'[c] = bo[c]
    BY <1>2, <1>5
  <2>2. PICK s \in Bos : /\ Owns(s) /\ bo[s].mem_type = bo[c].mem_type
                         /\ bo[s].data = bo[c].data
    BY <2>1 DEF HandleInv, OwnersOK
  <2>3. s # b
    BY <1>3, <2>2
  <2> QED BY <1>2, <1>4, <2>1, <2>2, <2>3
<1> QED BY <1>2, <1>3, <1>4, <1>5

\* PimCreateBo and PimAllocMemory keep HandleInv.
LEMMA AllocateHandles ==
  ASSUME HandleInv, NEW b \in Bos, NEW kind \in {"bo", "raw"}, NEW mem \in MemType,
         NEW size \in Sizes, Allocate(b, kind, mem, size)
  PROVE  HandleInv'
<1>1. CASE Exit
  BY <1>1, SameHandles DEF Exit
<1>2. ASSUME NEW m \in alloc_memory(Memory, mem, size), SetMemory(m),
             bo' = [bo EXCEPT ![b] = [kind |-> kind, mem_type |-> mem, data |-> m.data]],
             UNCHANGED <<pim_initialized, exec, crf_lut_, weight_map_, exited>>,
             bo[b] = NoBo
      PROVE  HandleInv'
  <2>1. PICK O, G, M : O = Pieces /\ G = Pointers /\ M = Memory
    OBVIOUS
  <2>2. Serves(M, O, G) /\ size \in 1..Units /\ m \in alloc_memory(M, mem, size)
    BY <1>2, <2>1, OclAssumption DEF HandleInv
  <2>3. PICK r, d : r = [kind |-> kind, mem_type |-> mem, data |-> m.data] /\ d = m.data
    OBVIOUS
  <2>4. r.kind = kind /\ r.mem_type = mem /\ r.data = d /\ bo' = [bo EXCEPT ![b] = r]
    BY <1>2, <2>3
  <2>5. CASE mem = "PIM"
    <3>1. /\ Serves(m, O \cup {d}, G) /\ d \in OclBufferObj
          /\ d.dev_addr \notin Handles(O) \cup G /\ d \notin O
      BY <2>2, <2>3, <2>5, AllocPim, NewPiece DEF Piece
    <3>2. r \in Object
      BY <2>3, <3>1 DEF Object
    <3>3. /\ bo' \in [Bos -> Object \cup {NoBo}] /\ r # NoBo /\ bo'[b] = r
          /\ \A c \in Bos : c # b => bo'[c] = bo[c]
          /\ \A c \in Bos : c # b => /\ Owns(c)' <=> Owns(c)
                                     /\ OwnsPim(c)' <=> OwnsPim(c)
                                     /\ OwnsOther(c)' <=> OwnsOther(c)
                                     /\ PtrOf(c)' = PtrOf(c)
          /\ ~Owns(b)
          /\ \A c \in Bos : bo'[c] # NoBo /\ bo'[c].kind = "user" /\ c # b =>
               \E s \in Bos : /\ Owns(s)' /\ bo'[s].mem_type = bo'[c].mem_type
                              /\ bo'[s].data = bo'[c].data
      BY <1>2, <2>4, <3>2, NewObject
    <3>4. OwnsPim(b)' /\ ~OwnsOther(b)' /\ ~OwnsPim(b) /\ ~OwnsOther(b) /\ bo'[b].kind # "user"
      BY <2>4, <2>5, <3>3 DEF OwnsPim, OwnsOther, Owns
    <3>5. ClientPim' = ClientPim \cup {d}
      BY <2>4, <3>3, <3>4 DEF ClientPim
    <3>6. ClientPtrs' = ClientPtrs
      BY <3>3, <3>4 DEF ClientPtrs
    <3>7. \A c \in Bos : OwnsPim(c) => bo[c].data # d
      BY <2>1, <3>1 DEF Pieces, ClientPim
    <3>8. \A c, e \in Bos : OwnsPim(c)' /\ OwnsPim(e)' /\ bo'[c].data = bo'[e].data => c = e
      BY <2>4, <3>3, <3>4, <3>7 DEF HandleInv, PimApart
    <3>9. \A c, e \in Bos : OwnsOther(c)' /\ OwnsOther(e)' /\ PtrOf(c)' = PtrOf(e)' => c = e
      BY <3>3, <3>4 DEF HandleInv, PointersApart
    <3>10. PICK Q : Q = O \cup {d}
      OBVIOUS
    <3>11. /\ Serves(m, Q, G)
           /\ Q = ClientPim' \cup weight_map_ \cup ExecPim
           /\ G = ClientPtrs' \cup CrfPtrs \cup ExecPtrs
           /\ ClientPim' \cap (weight_map_ \cup ExecPim) = {}
           /\ ClientPtrs' \cap (CrfPtrs \cup ExecPtrs) = {}
      BY <2>1, <3>1, <3>5, <3>6, <3>10
         DEF Pieces, Pointers, HandleInv, PimApart, PointersApart
    <3> QED BY <1>2, <3>3, <3>4, <3>8, <3>9, <3>11, ClientHandles
  <2>6. CASE mem \in {"DEVICE", "HOST"}
    <3>0. PICK p : p = d.dev_addr
      OBVIOUS
    <3>1. Serves(m, O, G \cup {p}) /\ d \in OclBufferObj /\ p \notin Handles(O) \cup G
      BY <2>2, <2>3, <2>6, <3>0, AllocOther
    <3>2. r \in Object
      BY <2>3, <3>1 DEF Object
    <3>3. /\ bo' \in [Bos -> Object \cup {NoBo}] /\ r # NoBo /\ bo'[b] = r
          /\ \A c \in Bos : c # b => bo'[c] = bo[c]
          /\ \A c \in Bos : c # b => /\ Owns(c)' <=> Owns(c)
                                     /\ OwnsPim(c)' <=> OwnsPim(c)
                                     /\ OwnsOther(c)' <=> OwnsOther(c)
                                     /\ PtrOf(c)' = PtrOf(c)
          /\ ~Owns(b)
          /\ \A c \in Bos : bo'[c] # NoBo /\ bo'[c].kind = "user" /\ c # b =>
               \E s \in Bos : /\ Owns(s)' /\ bo'[s].mem_type = bo'[c].mem_type
                              /\ bo'[s].data = bo'[c].data
      BY <1>2, <2>4, <3>2, NewObject
    <3>4. /\ ~OwnsPim(b)' /\ OwnsOther(b)' /\ ~OwnsPim(b) /\ ~OwnsOther(b)
          /\ bo'[b].kind # "user" /\ PtrOf(b)' = p
      BY <2>4, <2>6, <3>0, <3>3 DEF OwnsPim, OwnsOther, Owns, PtrOf
    <3>5. ClientPim' = ClientPim
      BY <3>3, <3>4 DEF ClientPim
    <3>6. ClientPtrs' = ClientPtrs \cup {p}
      BY <3>3, <3>4 DEF ClientPtrs
    <3>7. \A c \in Bos : OwnsOther(c) => PtrOf(c) # p
      BY <2>1, <3>1 DEF Pointers, ClientPtrs
    <3>8. \A c, e \in Bos : OwnsPim(c)' /\ OwnsPim(e)' /\ bo'[c].data = bo'[e].data => c = e
      BY <3>3, <3>4 DEF HandleInv, PimApart
    <3>9. \A c, e \in Bos : OwnsOther(c)' /\ OwnsOther(e)' /\ PtrOf(c)' = PtrOf(e)' => c = e
      BY <3>3, <3>4, <3>7 DEF HandleInv, PointersApart
    <3>10. PICK H : H = G \cup {p}
      OBVIOUS
    <3>11. /\ Serves(m, O, H)
           /\ O = ClientPim' \cup weight_map_ \cup ExecPim
           /\ H = ClientPtrs' \cup CrfPtrs \cup ExecPtrs
           /\ ClientPim' \cap (weight_map_ \cup ExecPim) = {}
           /\ ClientPtrs' \cap (CrfPtrs \cup ExecPtrs) = {}
      BY <2>1, <3>1, <3>5, <3>6, <3>10
         DEF Pieces, Pointers, HandleInv, PimApart, PointersApart
    <3> QED BY <1>2, <3>3, <3>4, <3>8, <3>9, <3>11, ClientHandles
  <2> QED BY <2>5, <2>6 DEF MemType
<1> QED BY <1>1, <1>2 DEF Allocate

\* PimCreateBo around user memory keeps HandleInv.
LEMMA WrapHandles ==
  ASSUME HandleInv, NEW b \in Bos, NEW r \in Bos, PimCreateBoUser(b, r)
  PROVE  HandleInv'
<1>1. PICK u : u = [bo[r] EXCEPT !.kind = "user"]
  OBVIOUS
<1>2. /\ bo[b] = NoBo /\ bo[r] # NoBo /\ bo[r].kind = "raw" /\ bo' = [bo EXCEPT ![b] = u]
      /\ exec' = exec /\ crf_lut_' = crf_lut_ /\ weight_map_' = weight_map_
      /\ pim_initialized' = pim_initialized /\ exited' = exited
      /\ UNCHANGED memory
  BY <1>1 DEF PimCreateBoUser
<1>3. u \in Object /\ u.kind = "user" /\ u.mem_type = bo[r].mem_type /\ u.data = bo[r].data
  BY <1>1, <1>2, ObjectServed DEF Object
<1>4. /\ bo' \in [Bos -> Object \cup {NoBo}] /\ u # NoBo /\ bo'[b] = u
      /\ \A c \in Bos : c # b => bo'[c] = bo[c]
      /\ \A c \in Bos : c # b => /\ Owns(c)' <=> Owns(c)
                                 /\ OwnsPim(c)' <=> OwnsPim(c)
                                 /\ OwnsOther(c)' <=> OwnsOther(c)
                                 /\ PtrOf(c)' = PtrOf(c)
      /\ ~Owns(b)
      /\ \A c \in Bos : bo'[c] # NoBo /\ bo'[c].kind = "user" /\ c # b =>
           \E s \in Bos : /\ Owns(s)' /\ bo'[s].mem_type = bo'[c].mem_type
                          /\ bo'[s].data = bo'[c].data
  BY <1>2, <1>3, NewObject, ZenonT(30)
<1>5. ~OwnsPim(b)' /\ ~OwnsOther(b)' /\ ~OwnsPim(b) /\ ~OwnsOther(b)
  BY <1>3, <1>4 DEF OwnsPim, OwnsOther, Owns
<1>6. ClientPim' = ClientPim /\ ClientPtrs' = ClientPtrs
  BY <1>4, <1>5 DEF ClientPim, ClientPtrs
<1>7. /\ Owns(r)' /\ bo'[r].mem_type = bo'[b].mem_type /\ bo'[r].data = bo'[b].data
  BY <1>2, <1>3, <1>4 DEF Owns
<1>8. \A c \in Bos : bo'[c] # NoBo /\ bo'[c].kind = "user" =>
           \E s \in Bos : /\ Owns(s)' /\ bo'[s].mem_type = bo'[c].mem_type
                          /\ bo'[s].data = bo'[c].data
  BY <1>4, <1>7
<1>9. /\ \A c, e \in Bos : OwnsPim(c)' /\ OwnsPim(e)' /\ bo'[c].data = bo'[e].data => c = e
      /\ \A c, e \in Bos : OwnsOther(c)' /\ OwnsOther(e)' /\ PtrOf(c)' = PtrOf(e)' => c = e
  BY <1>4, <1>5 DEF HandleInv, PimApart, PointersApart
<1>10. PICK m, O, G : m = Memory /\ O = Pieces /\ G = Pointers
  OBVIOUS
<1>11. Serves(m, O, G) /\ SetMemory(m)
  BY <1>2, <1>10, MemoryFields DEF HandleInv, SetMemory, memory
<1>12. /\ O = ClientPim' \cup weight_map_ \cup ExecPim
       /\ G = ClientPtrs' \cup CrfPtrs \cup ExecPtrs
       /\ ClientPim' \cap (weight_map_ \cup ExecPim) = {}
       /\ ClientPtrs' \cap (CrfPtrs \cup ExecPtrs) = {}
  BY <1>6, <1>10 DEF Pieces, Pointers, HandleInv, PimApart, PointersApart
<1> QED BY <1>2, <1>4, <1>8, <1>9, <1>11, <1>12, ClientHandles

\* The object at b is no more; nothing is left around memory it owned.
LEMMA OldObject ==
  ASSUME HandleInv, NEW b \in Bos, bo[b] # NoBo, ~Owns(b) \/ Unwrapped(b),
         bo' = [bo EXCEPT ![b] = NoBo]
  PROVE  /\ bo' \in [Bos -> Object \cup {NoBo}] /\ bo'[b] = NoBo
         /\ \A c \in Bos : c # b => bo'[c] = bo[c]
         /\ \A c \in Bos : c # b => /\ Owns(c)' <=> Owns(c)
                                    /\ OwnsPim(c)' <=> OwnsPim(c)
                                    /\ OwnsOther(c)' <=> OwnsOther(c)
                                    /\ PtrOf(c)' = PtrOf(c)
         /\ ~Owns(b)' /\ ~OwnsPim(b)' /\ ~OwnsOther(b)'
         /\ \A c \in Bos : bo'[c] # NoBo /\ bo'[c].kind = "user" =>
              \E s \in Bos : /\ Owns(s)' /\ bo'[s].mem_type = bo'[c].mem_type
                             /\ bo'[s].data = bo'[c].data
<1>1. bo \in [Bos -> Object \cup {NoBo}]
  BY DEF HandleInv, OwnersOK
<1>2. /\ bo' \in [Bos -> Object \cup {NoBo}] /\ bo'[b] = NoBo
      /\ \A c \in Bos : c # b => bo'[c] = bo[c]
  BY <1>1
<1>3. ~Owns(b)' /\ ~OwnsPim(b)' /\ ~OwnsOther(b)'
  BY <1>2 DEF Owns, OwnsPim, OwnsOther
<1>4. \A c \in Bos : c # b => /\ Owns(c)' <=> Owns(c)
                              /\ OwnsPim(c)' <=> OwnsPim(c)
                              /\ OwnsOther(c)' <=> OwnsOther(c)
                              /\ PtrOf(c)' = PtrOf(c)
  BY <1>2 DEF Owns, OwnsPim, OwnsOther, PtrOf
<1>5. ASSUME NEW c \in Bos, bo'[c] # NoBo, bo'[c].kind = "user"
      PROVE  \E s \in Bos : /\ Owns(s)' /\ bo'[s].mem_type = bo'[c].mem_type
                            /\ bo'[s].data = bo'[c].data
  <2>1. bo[c] # NoBo /\ bo[c].kind = "user" /\ bo'[c] = bo[c]
    BY <1>2, <1>5
  <2>2. PICK s \in Bos : /\ Owns(s) /\ bo[s].mem_type = bo[c].mem_type
                         /\ bo[s].data = bo[c].data
    BY <2>1 DEF HandleInv, OwnersOK
  <2>3. s # b
    BY <2>1, <2>2 DEF Unwrapped, PtrOf
  <2> QED BY <1>2, <1>4, <2>1, <2>2, <2>3
<1> QED BY <1>2, <1>3, <1>4, <1>5

\* PimDestroyBo and PimFreeMemory keep HandleInv.
LEMMA FreeHandles ==
  ASSUME HandleInv, NEW b \in Bos, PimFreeMemory(b)
  PROVE  HandleInv'
<1>1. PICK M, O, G, d, mem : /\ M = Memory /\ O = Pieces /\ G = Pointers
                             /\ d = bo[b].data /\ mem = bo[b].mem_type
  OBVIOUS
<1>2. PICK n : n = free_memory(M, d, mem)
  OBVIOUS
<1>3. /\ bo[b] # NoBo /\ bo[b].kind # "user" /\ Unwrapped(b) /\ SetMemory(n)
      /\ bo' = [bo EXCEPT ![b] = NoBo] /\ exec' = exec /\ crf_lut_' = crf_lut_
      /\ weight_map_' = weight_map_ /\ pim_initialized' = pim_initialized
      /\ exited' = exited
  BY <1>1, <1>2 DEF PimFreeMemory
<1>4. Serves(M, O, G) /\ mem \in MemType /\ Owns(b)
  BY <1>1, <1>3, ObjectServed DEF HandleInv, Owns
<1>5. /\ bo' \in [Bos -> Object \cup {NoBo}] /\ bo'[b] = NoBo
      /\ \A c \in Bos : c # b => bo'[c] = bo[c]
      /\ \A c \in Bos : c # b => /\ Owns(c)' <=> Owns(c)
                                 /\ OwnsPim(c)' <=> OwnsPim(c)
                                 /\ OwnsOther(c)' <=> OwnsOther(c)
                                 /\ PtrOf(c)' = PtrOf(c)
      /\ ~Owns(b)' /\ ~OwnsPim(b)' /\ ~OwnsOther(b)'
      /\ \A c \in Bos : bo'[c] # NoBo /\ bo'[c].kind = "user" =>
           \E s \in Bos : /\ Owns(s)' /\ bo'[s].mem_type = bo'[c].mem_type
                          /\ bo'[s].data = bo'[c].data
  BY <1>3, OldObject
<1>6. /\ \A c, e \in Bos : OwnsPim(c)' /\ OwnsPim(e)' /\ bo'[c].data = bo'[e].data => c = e
      /\ \A c, e \in Bos : OwnsOther(c)' /\ OwnsOther(e)' /\ PtrOf(c)' = PtrOf(e)' => c = e
  BY <1>5 DEF HandleInv, PimApart, PointersApart
<1>7. CASE mem = "PIM"
  <2>1. OwnsPim(b) /\ ~OwnsOther(b) /\ d \in ClientPim /\ d \in O
    BY <1>1, <1>4, <1>7 DEF OwnsPim, OwnsOther, ClientPim, Pieces
  <2>2. PICK Q : Q = O \ {d}
    OBVIOUS
  <2>3. Serves(n, Q, G)
    BY <1>2, <1>4, <1>7, <2>1, <2>2, FreePim
  <2>4. \A c \in Bos : OwnsPim(c) /\ c # b => bo[c].data # d
    BY <1>1, <2>1 DEF HandleInv, PimApart
  <2>5. ClientPim' = ClientPim \ {d}
    BY <1>1, <1>5, <2>1, <2>4 DEF ClientPim
  <2>6. ClientPtrs' = ClientPtrs
    BY <1>5, <2>1 DEF ClientPtrs
  <2>7. /\ Q = ClientPim' \cup weight_map_ \cup ExecPim
        /\ G = ClientPtrs' \cup CrfPtrs \cup ExecPtrs
        /\ ClientPim' \cap (weight_map_ \cup ExecPim) = {}
        /\ ClientPtrs' \cap (CrfPtrs \cup ExecPtrs) = {}
    BY <1>1, <2>1, <2>2, <2>5, <2>6
       DEF Pieces, Pointers, HandleInv, PimApart, PointersApart
  <2> QED BY <1>3, <1>5, <1>6, <2>3, <2>7, ClientHandles
<1>8. CASE mem \in {"DEVICE", "HOST"}
  <2>0. PICK p : p = d.dev_addr
    OBVIOUS
  <2>1. ~OwnsPim(b) /\ OwnsOther(b) /\ PtrOf(b) = p /\ p \in ClientPtrs
    BY <1>1, <1>4, <1>8, <2>0 DEF OwnsPim, OwnsOther, ClientPtrs, PtrOf
  <2>2. PICK H : H = G \ {p}
    OBVIOUS
  <2>3. Serves(n, O, H)
    BY <1>2, <1>4, <1>8, <2>0, <2>2, FreeOther
  <2>4. \A c \in Bos : OwnsOther(c) /\ c # b => PtrOf(c) # p
    BY <2>1 DEF HandleInv, PointersApart
  <2>5. ClientPim' = ClientPim
    BY <1>5, <2>1 DEF ClientPim
  <2>6. ClientPtrs' = ClientPtrs \ {p}
    BY <1>5, <2>1, <2>4 DEF ClientPtrs
  <2>7. /\ O = ClientPim' \cup weight_map_ \cup ExecPim
        /\ H = ClientPtrs' \cup CrfPtrs \cup ExecPtrs
        /\ ClientPim' \cap (weight_map_ \cup ExecPim) = {}
        /\ ClientPtrs' \cap (CrfPtrs \cup ExecPtrs) = {}
    BY <1>1, <2>1, <2>2, <2>5, <2>6
       DEF Pieces, Pointers, HandleInv, PimApart, PointersApart
  <2> QED BY <1>3, <1>5, <1>6, <2>3, <2>7, ClientHandles
<1> QED BY <1>4, <1>7, <1>8 DEF MemType

\* PimDestroyBo of wrapped memory keeps HandleInv.
LEMMA UnwrapHandles ==
  ASSUME HandleInv, NEW b \in Bos, PimDestroyBoUser(b)
  PROVE  HandleInv'
<1>1. /\ bo[b] # NoBo /\ bo[b].kind = "user"
      /\ bo' = [bo EXCEPT ![b] = NoBo] /\ exec' = exec /\ crf_lut_' = crf_lut_
      /\ weight_map_' = weight_map_ /\ pim_initialized' = pim_initialized
      /\ exited' = exited /\ UNCHANGED memory
  BY DEF PimDestroyBoUser
<1>2. ~Owns(b) /\ ~OwnsPim(b) /\ ~OwnsOther(b)
  BY <1>1 DEF Owns, OwnsPim, OwnsOther
<1>3. /\ bo' \in [Bos -> Object \cup {NoBo}] /\ bo'[b] = NoBo
      /\ \A c \in Bos : c # b => bo'[c] = bo[c]
      /\ \A c \in Bos : c # b => /\ Owns(c)' <=> Owns(c)
                                 /\ OwnsPim(c)' <=> OwnsPim(c)
                                 /\ OwnsOther(c)' <=> OwnsOther(c)
                                 /\ PtrOf(c)' = PtrOf(c)
      /\ ~Owns(b)' /\ ~OwnsPim(b)' /\ ~OwnsOther(b)'
      /\ \A c \in Bos : bo'[c] # NoBo /\ bo'[c].kind = "user" =>
           \E s \in Bos : /\ Owns(s)' /\ bo'[s].mem_type = bo'[c].mem_type
                          /\ bo'[s].data = bo'[c].data
  BY <1>1, <1>2, OldObject
<1>4. /\ \A c, e \in Bos : OwnsPim(c)' /\ OwnsPim(e)' /\ bo'[c].data = bo'[e].data => c = e
      /\ \A c, e \in Bos : OwnsOther(c)' /\ OwnsOther(e)' /\ PtrOf(c)' = PtrOf(e)' => c = e
  BY <1>3 DEF HandleInv, PimApart, PointersApart
<1>5. ClientPim' = ClientPim /\ ClientPtrs' = ClientPtrs
  BY <1>2, <1>3 DEF ClientPim, ClientPtrs
<1>6. PICK m, O, G : m = Memory /\ O = Pieces /\ G = Pointers
  OBVIOUS
<1>7. Serves(m, O, G) /\ SetMemory(m)
  BY <1>1, <1>6, MemoryFields DEF HandleInv, SetMemory, memory
<1>8. /\ O = ClientPim' \cup weight_map_ \cup ExecPim
      /\ G = ClientPtrs' \cup CrfPtrs \cup ExecPtrs
      /\ ClientPim' \cap (weight_map_ \cup ExecPim) = {}
      /\ ClientPtrs' \cap (CrfPtrs \cup ExecPtrs) = {}
  BY <1>5, <1>6 DEF Pieces, Pointers, HandleInv, PimApart, PointersApart
<1> QED BY <1>1, <1>3, <1>4, <1>7, <1>8, ClientHandles

\* Writes leave the shape of memory alone.
LEMMA WriteShape ==
  ASSUME NEW m, NEW O, NEW G, Serves(m, O, G), NEW d, NEW mem,
         mem # "PIM" => d.dev_addr \in G, NEW v
  PROVE  Serves(Write(m, d, mem, v), O, G)
<1>1. CASE mem = "PIM"
  <2>1. SameShape(m, Fill(m, HostView(d), v))
    BY FillShape
  <2> QED BY <1>1, <2>1, ServesShape DEF Write
<1>2. CASE mem # "PIM"
  <2>1. SameShape(m, [m EXCEPT !.store[d.dev_addr] = v])
    BY <1>2, StoreShape
  <2> QED BY <1>2, <2>1, ServesShape DEF Write
<1> QED BY <1>1, <1>2

\* PimCopyMemory keeps HandleInv.
LEMMA CopyHandles ==
  ASSUME HandleInv, NEW dst \in Bos, NEW src \in Bos, PimCopyMemory(dst, src)
  PROVE  HandleInv'
<1>1. PICK M, O, G, d, mem, v :
        /\ M = Memory /\ O = Pieces /\ G = Pointers
        /\ d = bo[dst].data /\ mem = bo[dst].mem_type
        /\ v = Read(Memory, bo[src].data, bo[src].mem_type)
  OBVIOUS
<1>2. PICK n : n = Write(M, d, mem, v)
  OBVIOUS
<1>3. /\ SetMemory(n) /\ bo[dst] # NoBo /\ bo' = bo /\ exec' = exec /\ crf_lut_' = crf_lut_
      /\ weight_map_' = weight_map_ /\ pim_initialized' = pim_initialized
      /\ exited' = exited
  BY <1>1, <1>2 DEF PimCopyMemory, handles
<1>4. Serves(M, O, G) /\ (mem # "PIM" => d.dev_addr \in G)
  BY <1>1, <1>3, ObjectServed DEF HandleInv, Pointers, PtrOf
<1>5. Serves(n, O, G)
  BY <1>2, <1>4, WriteShape
<1>6. exited' \in BOOLEAN
  BY <1>3 DEF HandleInv, OwnersOK
<1> QED BY <1>1, <1>3, <1>5, <1>6, OperationHandles

\* A write of the host keeps HandleInv.
LEMMA HostWriteHandles ==
  ASSUME HandleInv, NEW b \in Bos, NEW v \in Data, HostWrite(b, v)
  PROVE  HandleInv'
<1>1. PICK M, O, G, p : M = Memory /\ O = Pieces /\ G = Pointers /\ p = PtrOf(b)
  OBVIOUS
<1>2. PICK n : n = [M EXCEPT !.store[p] = v]
  OBVIOUS
<1>3. /\ bo[b] # NoBo /\ bo[b].mem_type = "HOST" /\ bo' = bo /\ exec' = exec
      /\ crf_lut_' = crf_lut_ /\ weight_map_' = weight_map_
      /\ pim_initialized' = pim_initialized /\ exited' = exited
      /\ store' = [store EXCEPT ![p] = v] /\ pim_alloc_done' = pim_alloc_done
      /\ heap' = heap /\ sub' = sub /\ pim' = pim
  BY <1>1 DEF HostWrite, handles
<1>4. Serves(M, O, G) /\ p \in G
  BY <1>1, <1>3, ObjectServed DEF HandleInv, Pointers
<1>5. SetMemory(n)
  BY <1>1, <1>2, <1>3 DEF SetMemory, Memory
<1>6. Serves(n, O, G)
  BY <1>2, <1>4, StoreShape, ServesShape
<1>7. exited' \in BOOLEAN
  BY <1>3 DEF HandleInv, OwnersOK
<1> QED BY <1>1, <1>3, <1>5, <1>6, <1>7, OperationHandles

-----------------------------------------------------------------------------
(* Operations.                                                             *)

\* A program is kept already, or made in memory nobody has.
KeptProgram(c, op, size) ==
  /\ c.m = Memory /\ c.lut = crf_lut_ /\ <<op, size>> \in DOMAIN crf_lut_
  /\ c.crf = crf_lut_[<<op, size>>] /\ Serves(c.m, Pieces, Pointers)
NewProgram(c, op, size) ==
  /\ <<op, size>> \notin DOMAIN crf_lut_
  /\ c.lut = With(crf_lut_, <<op, size>>, c.crf)
  /\ c.crf \notin Pointers \cup Handles(Pieces)
  /\ Serves(c.m, Pieces, Pointers \cup {c.crf})
  /\ c.m.pim = pim /\ \A q \in Pointers : c.m.store[q] = store[q]
  /\ c.m.store[c.crf] = <<op, size>>

\* The program an operation uses is the one kept for it, or a new one in a
\* buffer of its own.
LEMMA Program ==
  ASSUME HandleInv, NEW op, NEW size, NEW c \in get_crf_bin(op, size)
  PROVE  KeptProgram(c, op, size) \/ NewProgram(c, op, size)
<1>1. CASE <<op, size>> \in DOMAIN crf_lut_
  <2>1. c = [m |-> Memory, lut |-> crf_lut_, crf |-> crf_lut_[<<op, size>>]]
    BY <1>1 DEF get_crf_bin
  <2>2. c.m = Memory /\ c.lut = crf_lut_ /\ c.crf = crf_lut_[<<op, size>>]
    BY <2>1
  <2> QED BY <1>1, <2>2 DEF KeptProgram, HandleInv
<1>2. CASE <<op, size>> \notin DOMAIN crf_lut_
  <2>1. PICK M, O, G : M = Memory /\ O = Pieces /\ G = Pointers
    OBVIOUS
  <2>2. Serves(M, O, G) /\ 1 \in 1..Units
    BY <2>1, OclAssumption DEF HandleInv
  <2>3. PICK n \in alloc_memory(M, "DEVICE", 1) :
          c = [m |-> [n EXCEPT !.store[n.data.dev_addr] = <<op, size>>],
               lut |-> With(crf_lut_, <<op, size>>, n.data.dev_addr),
               crf |-> n.data.dev_addr]
    BY <1>2, <2>1 DEF get_crf_bin
  <2>4. PICK p, H : p = n.data.dev_addr /\ H = G \cup {p}
    OBVIOUS
  <2>5. /\ Serves(n, O, H) /\ p \notin Handles(O) \cup G /\ n.pim = M.pim /\ p \in H
        /\ \A q \in G : n.store[q] = M.store[q]
    BY <2>2, <2>3, <2>4, AllocOther, SMTT(30)
  <2>6. PICK k : k = [n EXCEPT !.store[p] = <<op, size>>]
    OBVIOUS
  <2>7. c.m = k /\ c.lut = With(crf_lut_, <<op, size>>, p) /\ c.crf = p
    BY <2>3, <2>4, <2>6
  <2>8. /\ SameShape(n, k) /\ k.pim = n.pim
        /\ \A q \in H : k.store[q] = IF q = p THEN <<op, size>> ELSE n.store[q]
    BY <2>5, <2>6, StoreShape
  <2>9. Serves(k, O, H)
    BY <2>5, <2>8, ServesShape
  <2>10. /\ k.pim = pim /\ k.store[p] = <<op, size>>
         /\ \A q \in G : k.store[q] = store[q]
    BY <2>1, <2>4, <2>5, <2>8, MemoryFields
  <2> QED BY <1>2, <2>1, <2>4, <2>5, <2>7, <2>9, <2>10 DEF NewProgram
<1> QED BY <1>1, <1>2

\* What the programs and the memory c stands for are, once kept.
LEMMA ProgramServes ==
  ASSUME HandleInv, pim_initialized, NEW op, NEW size, NEW c \in get_crf_bin(op, size)
  PROVE  \E G : /\ Serves(c.m, Pieces, G) /\ Pointers \subseteq G
                /\ \/ c.lut = crf_lut_ /\ G = Pointers
                   \/ /\ pim_initialized
                      /\ \E k, q : /\ k \notin DOMAIN crf_lut_ /\ q \notin Pointers
                                   /\ c.lut = With(crf_lut_, k, q) /\ G = Pointers \cup {q}
<1>1. CASE KeptProgram(c, op, size)
  BY <1>1 DEF KeptProgram
<1>2. CASE NewProgram(c, op, size)
  <2>1. PICK k, q : k = <<op, size>> /\ q = c.crf
    OBVIOUS
  <2>2. /\ Serves(c.m, Pieces, Pointers \cup {q}) /\ k \notin DOMAIN crf_lut_
        /\ q \notin Pointers /\ c.lut = With(crf_lut_, k, q)
    BY <1>2, <2>1 DEF NewProgram
  <2> QED BY <2>2
<1> QED BY <1>1, <1>2, Program

\* A kernel on the memory of a program.
LEMMA KernelHandles ==
  ASSUME HandleInv, pim_initialized, NEW op, NEW size, NEW c \in get_crf_bin(op, size),
         NEW n, SameShape(c.m, n), SetMemory(n), crf_lut_' = c.lut, bo' = bo,
         exec' = exec, weight_map_' = weight_map_,
         pim_initialized' = pim_initialized, exited' = exited
  PROVE  HandleInv'
<1>1. PICK G : /\ Serves(c.m, Pieces, G) /\ Pointers \subseteq G
               /\ \/ c.lut = crf_lut_ /\ G = Pointers
                  \/ /\ pim_initialized
                     /\ \E k, q : /\ k \notin DOMAIN crf_lut_ /\ q \notin Pointers
                                  /\ c.lut = With(crf_lut_, k, q) /\ G = Pointers \cup {q}
  BY ProgramServes
<1>2. PICK O, m : O = Pieces /\ m = c.m
  OBVIOUS
<1>3. Serves(n, O, G)
  BY <1>1, <1>2, ServesShape
<1>4. exited' \in BOOLEAN
  BY DEF HandleInv, OwnersOK
<1>5. \/ crf_lut_' = crf_lut_ /\ G = Pointers
      \/ /\ pim_initialized
         /\ \E k, q : /\ k \notin DOMAIN crf_lut_ /\ q \notin Pointers
                      /\ crf_lut_' = With(crf_lut_, k, q) /\ G = Pointers \cup {q}
  BY <1>1
<1> QED BY <1>2, <1>3, <1>4, <1>5, OperationHandles

\* execute_eltwise keeps HandleInv.
LEMMA EltwiseHandles ==
  ASSUME HandleInv, NEW op, NEW out \in Bos, NEW operand \in Bos,
         execute_eltwise(op, out, operand)
  PROVE  HandleInv'
<1>1. CASE Exit
  BY <1>1, SameHandles DEF Exit
<1>2. ASSUME NEW c \in Within(get_crf_bin(op, SizeOf(out))), NEW d \in Data,
             SetMemory(Fill(c.m, DevView(c.m, bo[out].data), Computed(c, op, SizeOf(out), d))),
             crf_lut_' = c.lut,
             UNCHANGED <<pim_initialized, bo, exec, weight_map_, exited>>, pim_initialized
      PROVE  HandleInv'
  <2>1. c \in get_crf_bin(op, SizeOf(out))
    BY <1>2 DEF Within
  <2>2. PICK n : n = Fill(c.m, DevView(c.m, bo[out].data), Computed(c, op, SizeOf(out), d))
    OBVIOUS
  <2>3. \E G : Serves(c.m, Pieces, G)
    BY <1>2, <2>1, ProgramServes
  <2>4. SameShape(c.m, n)
    BY <2>2, <2>3, FillShape
  <2> QED BY <1>2, <2>1, <2>2, <2>4, KernelHandles
<1> QED BY <1>1, <1>2 DEF execute_eltwise, Running

\* execute_copy keeps HandleInv.
LEMMA CopyKernelHandles ==
  ASSUME HandleInv, NEW out \in Bos, NEW src \in Bos, execute_copy(out, src)
  PROVE  HandleInv'
<1>1. CASE Exit
  BY <1>1, SameHandles DEF Exit
<1>2. ASSUME NEW c \in Within(get_crf_bin("OP_COPY", SizeOf(out))),
             SetMemory(Fill(c.m, DevView(c.m, bo[out].data),
                  Computed(c, "OP_COPY", SizeOf(out),
                           Contents(c.m, DevView(c.m, bo[src].data))))),
             crf_lut_' = c.lut,
             UNCHANGED <<pim_initialized, bo, exec, weight_map_, exited>>, pim_initialized
      PROVE  HandleInv'
  <2>1. c \in get_crf_bin("OP_COPY", SizeOf(out))
    BY <1>2 DEF Within
  <2>2. PICK v : v = Computed(c, "OP_COPY", SizeOf(out),
                              Contents(c.m, DevView(c.m, bo[src].data)))
    OBVIOUS
  <2>3. PICK n : n = Fill(c.m, DevView(c.m, bo[out].data), v)
    OBVIOUS
  <2>4. \E G : Serves(c.m, Pieces, G)
    BY <1>2, <2>1, ProgramServes
  <2>5. SameShape(c.m, n)
    BY <2>3, <2>4, FillShape
  <2> QED BY <1>2, <2>1, <2>2, <2>3, <2>5, KernelHandles
<1> QED BY <1>1, <1>2 DEF execute_copy, Running

\* execute_bn keeps HandleInv.
LEMMA BnHandles ==
  ASSUME HandleInv, NEW out \in Bos, NEW src \in Bos, execute_bn(out, src)
  PROVE  HandleInv'
<1>1. CASE Exit
  BY <1>1, SameHandles DEF Exit
<1>2. ASSUME NEW c \in Within(get_crf_bin("OP_BN", SizeOf(out))), NEW d \in Data,
             SetMemory(Fill([c.m EXCEPT !.store[exec.srf.dev_addr] = Unknown],
                            DevView(c.m, bo[out].data),
                            Computed(c, "OP_BN", SizeOf(out), d))),
             crf_lut_' = c.lut,
             UNCHANGED <<pim_initialized, bo, exec, weight_map_, exited>>, pim_initialized
      PROVE  HandleInv'
  <2>1. c \in get_crf_bin("OP_BN", SizeOf(out))
    BY <1>2 DEF Within
  <2>2. PICK k : k = [c.m EXCEPT !.store[exec.srf.dev_addr] = Unknown]
    OBVIOUS
  <2>3. PICK n : n = Fill(k, DevView(c.m, bo[out].data), Computed(c, "OP_BN", SizeOf(out), d))
    OBVIOUS
  <2>4. PICK G : Serves(c.m, Pieces, G) /\ Pointers \subseteq G
    BY <1>2, <2>1, ProgramServes
  <2>5. exec.srf.dev_addr \in G
    BY <1>2, <2>4 DEF Pointers, ExecPtrs
  <2>6. SameShape(c.m, k)
    BY <2>2, <2>4, <2>5, StoreShape
  <2>7. Serves(k, Pieces, G)
    BY <2>4, <2>6, ServesShape
  <2>8. SameShape(k, n)
    BY <2>3, <2>7, FillShape
  <2>9. SameShape(c.m, n)
    BY <2>6, <2>8 DEF SameShape
  <2> QED BY <1>2, <2>1, <2>2, <2>3, <2>9, KernelHandles
<1> QED BY <1>1, <1>2 DEF execute_bn, Running

\* A weight is kept already, or converted to memory nobody has.
NewWeight(p, w, m, d, O, G) ==
  /\ w \in Piece /\ w \notin O /\ w.dev_addr \notin Handles(O) \cup G
  /\ p.map = weight_map_ \cup {w}
  /\ p.wrote = [wrote EXCEPT ![w.dev_addr] = d]
  /\ Serves(p.m, O \cup {w}, G) /\ p.m.store = m.store
  /\ \A v \in 0..(Units - 1) : p.m.pim[v] = IF v \in HostView(w) THEN d ELSE m.pim[v]

\* The weight gemm uses is one kept, or a new one in memory of its own.
LEMMA Weight ==
  ASSUME NEW m, NEW O, NEW G, Serves(m, O, G), NEW d, NEW p \in preloaded(m, d)
  PROVE  \/ p.m = m /\ p.map = weight_map_ /\ p.wrote = wrote
         \/ \E w : NewWeight(p, w, m, d, O, G)
<1>1. ASSUME NEW w \in weight_map_,
             p = [m |-> m, w |-> w, map |-> weight_map_, wrote |-> wrote]
      PROVE  p.m = m /\ p.map = weight_map_ /\ p.wrote = wrote
  BY <1>1
<1>2. ASSUME NEW n \in alloc_memory(m, "PIM", 1),
             p = [m |-> Write(n, n.data, "PIM", d), w |-> n.data,
                  map |-> weight_map_ \cup {n.data},
                  wrote |-> [wrote EXCEPT ![n.data.dev_addr] = d]]
      PROVE  \E w : NewWeight(p, w, m, d, O, G)
  <2>1. PICK w, k : w = n.data /\ k = Fill(n, HostView(w), d)
    OBVIOUS
  <2>2. p.m = k /\ p.map = weight_map_ \cup {w} /\ p.wrote = [wrote EXCEPT ![w.dev_addr] = d]
    BY <1>2, <2>1 DEF Write
  <2>3. PICK Q : Q = O \cup {w}
    OBVIOUS
  <2>4. 1 \in 1..Units
    BY OclAssumption
  <2>5. /\ Serves(n, Q, G) /\ w \in Piece /\ w.dev_addr \notin Handles(O) \cup G
        /\ n.pim = m.pim /\ n.store = m.store
    BY <1>2, <2>1, <2>3, <2>4, AllocPim
  <2>6. w \notin O
    BY <2>5, NewPiece
  <2>7. /\ SameShape(n, k) /\ k.store = n.store
        /\ \A v \in 0..(Units - 1) : k.pim[v] = IF v \in HostView(w) THEN d ELSE n.pim[v]
    BY <2>1, <2>5, FillShape
  <2>8. Serves(k, Q, G)
    BY <2>5, <2>7, ServesShape
  <2> QED BY <2>2, <2>3, <2>5, <2>6, <2>7, <2>8 DEF NewWeight
<1> QED BY <1>1, <1>2 DEF preloaded

\* execute_gemm keeps HandleInv.
LEMMA GemmHandles ==
  ASSUME HandleInv, NEW out \in Bos, NEW in \in Bos, execute_gemm(out, in)
  PROVE  HandleInv'
<1>1. CASE Exit
  BY <1>1, SameHandles DEF Exit
<1>2. ASSUME NEW c \in Within(get_crf_bin("OP_GEMV", SizeOf(in))), NEW d \in Data,
             NEW p \in preloaded(c.m, d),
             SetMemory([Fill(p.m, DevView(p.m, exec.tmp), Unknown)
                          EXCEPT !.store[PtrOf(out)] =
                                   Computed(c, "OP_GEMV", SizeOf(in), d)]),
             crf_lut_' = c.lut, weight_map_' = p.map,
             UNCHANGED <<pim_initialized, bo, exec, exited>>, pim_initialized,
             DeviceObject(out)
      PROVE  HandleInv'
  <2>1. c \in get_crf_bin("OP_GEMV", SizeOf(in))
    BY <1>2 DEF Within
  <2>2. PICK G : /\ Serves(c.m, Pieces, G) /\ Pointers \subseteq G
                 /\ \/ c.lut = crf_lut_ /\ G = Pointers
                    \/ /\ pim_initialized
                       /\ \E k, q : /\ k \notin DOMAIN crf_lut_ /\ q \notin Pointers
                                    /\ c.lut = With(crf_lut_, k, q) /\ G = Pointers \cup {q}
    BY <1>2, <2>1, ProgramServes
  <2>3. PICK O : /\ Serves(p.m, O, G)
                 /\ \/ p.map = weight_map_ /\ O = Pieces
                    \/ \E w : w \notin Pieces /\ p.map = weight_map_ \cup {w}
                              /\ O = Pieces \cup {w}
    <3>1. CASE p.m = c.m /\ p.map = weight_map_
      BY <2>2, <3>1
    <3>2. ASSUME NEW w, NewWeight(p, w, c.m, d, Pieces, G)
          PROVE  \E O : /\ Serves(p.m, O, G) /\ w \notin Pieces
                        /\ p.map = weight_map_ \cup {w} /\ O = Pieces \cup {w}
      BY <3>2 DEF NewWeight
    <3> QED BY <1>2, <2>2, <3>1, <3>2, Weight
  <2>4. PICK f, u, v : /\ u = PtrOf(out) /\ v = Computed(c, "OP_GEMV", SizeOf(in), d)
                       /\ f = Fill(p.m, DevView(p.m, exec.tmp), Unknown)
    OBVIOUS
  <2>5. PICK n : n = [f EXCEPT !.store[u] = v]
    OBVIOUS
  <2>6. SetMemory(n) /\ u \in G
    BY <1>2, <2>2, <2>4, <2>5, ObjectServed DEF DeviceObject, Pointers
  <2>7. Serves(f, O, G)
    BY <2>3, <2>4, FillShape, ServesShape
  <2>8. Serves(n, O, G)
    BY <2>5, <2>6, <2>7, StoreShape, ServesShape
  <2>9. exited' \in BOOLEAN
    BY <1>2 DEF HandleInv, OwnersOK
  <2>10. /\ \/ crf_lut_' = crf_lut_ /\ G = Pointers
            \/ /\ pim_initialized
               /\ \E k, q : /\ k \notin DOMAIN crf_lut_ /\ q \notin Pointers
                            /\ crf_lut_' = With(crf_lut_, k, q) /\ G = Pointers \cup {q}
         /\ \/ weight_map_' = weight_map_ /\ O = Pieces
            \/ /\ pim_initialized
               /\ \E w : w \notin Pieces /\ weight_map_' = weight_map_ \cup {w}
                         /\ O = Pieces \cup {w}
    BY <1>2, <2>2, <2>3
  <2> QED BY <1>2, <2>6, <2>8, <2>9, <2>10, OperationHandles
<1> QED BY <1>1, <1>2 DEF execute_gemm, Running

\* Every step keeps HandleInv.
LEMMA NextHandles == ASSUME HandleInv, [Next]_vars PROVE HandleInv'
<1>1. CASE UNCHANGED vars
  <2>1. UNCHANGED <<pim_initialized, memory, handles>> /\ exited' \in BOOLEAN
    BY <1>1 DEF vars, HandleInv, OwnersOK
  <2> QED BY <2>1, SameHandles
<1>2. CASE PimInitialize
  BY <1>2, InitializeHandles
<1>3. CASE PimDeinitialize
  BY <1>3, DeinitializeHandles
<1>4. ASSUME NEW b \in Bos, NEW mem \in MemType, NEW size \in Sizes,
             PimCreateBo(b, mem, size) \/ PimAllocMemory(b, mem, size)
      PROVE  HandleInv'
  BY <1>4, AllocateHandles DEF PimCreateBo, PimAllocMemory
<1>5. ASSUME NEW b \in Bos, NEW r \in Bos, PimCreateBoUser(b, r) PROVE HandleInv'
  BY <1>5, WrapHandles
<1>6. ASSUME NEW b \in Bos, PimFreeMemory(b) \/ PimDestroyBoUser(b) PROVE HandleInv'
  BY <1>6, FreeHandles, UnwrapHandles
<1>7. ASSUME NEW b \in Bos, NEW d \in Data, HostWrite(b, d) PROVE HandleInv'
  BY <1>7, HostWriteHandles
<1>8. ASSUME NEW dst \in Bos, NEW src \in Bos,
             \/ PimCopyMemory(dst, src) \/ execute_copy(dst, src)
             \/ execute_bn(dst, src) \/ execute_gemm(dst, src)
      PROVE  HandleInv'
  BY <1>8, CopyHandles, CopyKernelHandles, BnHandles, GemmHandles
<1>9. ASSUME NEW op \in EltOps, NEW out \in Bos, NEW operand \in Bos,
             execute_eltwise(op, out, operand)
      PROVE  HandleInv'
  BY <1>9, EltwiseHandles
<1> QED BY <1>1, <1>2, <1>3, <1>4, <1>5, <1>6, <1>7, <1>8, <1>9 DEF Next

\* What the invariant says of the state.
LEMMA InvTypes == ASSUME HandleInv PROVE TypeOK
<1>1. Serves(Memory, Pieces, Pointers)
  BY DEF HandleInv
<1>2. DOMAIN sub = Handles(Pieces) /\ DOMAIN store = Pointers
  BY <1>1, MemoryFields DEF Serves
<1>3. Pieces \subseteq Piece /\ Pointers \subseteq Ptrs /\ Pointers \cap Handles(Pieces) = {}
  BY <1>1 DEF Serves
<1>4. Handles(Pieces) \subseteq Ptrs
  BY <1>3, PieceView DEF Handles
<1>5. ASSUME NEW p \in DOMAIN sub
      PROVE  Region(sub[p].origin, sub[p].size) \subseteq 0..(Units - 1)
  <2>1. PICK o \in Pieces : p = o.dev_addr
    BY <1>2 DEF Handles
  <2>2. Region(sub[p].origin, sub[p].size) = DevView(Memory, o)
    BY <2>1, MemoryFields DEF DevView
  <2>3. DevView(Memory, o) = HostView(o)
    BY <1>1, <2>1, SameView
  <2> QED BY <1>3, <2>2, <2>3, PieceView
<1>6. heap # {} => pim_alloc_done
  BY <1>1, MemoryFields DEF Serves
<1> QED BY <1>2, <1>3, <1>4, <1>5, <1>6 DEF TypeOK, HandleInv, OwnersOK

\* What is owned of PIM memory are the pieces of the invariant.
LEMMA OwnedPieces == ASSUME HandleInv PROVE PimOwned = Pieces
<1>1. {c \in Bos : PimObject(c) /\ bo[c].kind # "user"} = {c \in Bos : OwnsPim(c)}
  BY DEF PimObject, OwnsPim, Owns
<1>2. {exec.tmp} \ {Null} = ExecPim
  <2>1. CASE pim_initialized
    <3>1. exec.tmp # Null
      BY <2>1, OclAssumption DEF HandleInv, OwnersOK
    <3> QED BY <2>1, <3>1 DEF ExecPim
  <2>2. CASE ~pim_initialized
    BY <2>2 DEF HandleInv, OwnersOK, ExecPim, NoExec
  <2> QED BY <2>1, <2>2
<1> QED BY <1>1, <1>2 DEF PimOwned, Pieces, ClientPim

\* The owners of other memory, case by case.
IsClient(o) == \E b \in Bos : o = <<"bo", b>> /\ OwnsOther(b) /\ Holds(o) = PtrOf(b)
IsProgram(o) ==
  \E k \in DOMAIN crf_lut_ : o = <<"crf", k>> /\ Holds(o) = crf_lut_[k]
IsBuffer(o) ==
  /\ pim_initialized
  /\ \/ o = <<"exec", "srf">> /\ Holds(o) = exec.srf.dev_addr
     \/ o = <<"exec", "zero">> /\ Holds(o) = exec.zero.dev_addr

\* Holds, owner by owner.
LEMMA HoldsCases ==
  /\ \A b : Holds(<<"bo", b>>) = PtrOf(b)
  /\ \A k : Holds(<<"crf", k>>) = crf_lut_[k]
  /\ \A f : Holds(<<"exec", f>>) = exec[f].dev_addr
  BY DEF Holds

\* An owner of other memory is an object, a program or one of the executor's
\* buffers.
LEMMA OtherCases ==
  ASSUME HandleInv
  PROVE  /\ \A o \in OtherOwners : IsClient(o) \/ IsProgram(o) \/ IsBuffer(o)
         /\ \A o : IsClient(o) \/ IsProgram(o) \/ IsBuffer(o) => o \in OtherOwners
<1>1. {c \in Bos : bo[c] # NoBo /\ bo[c].mem_type # "PIM" /\ bo[c].kind # "user"}
        = {c \in Bos : OwnsOther(c)}
  BY DEF OwnsOther, Owns
<1>2. pim_initialized => exec.srf # Null /\ exec.zero # Null
  BY OclAssumption DEF HandleInv, OwnersOK
<1>3. ~pim_initialized => exec.srf = Null /\ exec.zero = Null
  BY DEF HandleInv, OwnersOK, NoExec
<1>4. exec["srf"] = exec.srf /\ exec["zero"] = exec.zero
  OBVIOUS
<1>5. {g \in {"srf", "zero"} : exec[g] # Null}
        = IF pim_initialized THEN {"srf", "zero"} ELSE {}
  BY <1>2, <1>3, <1>4
<1>6. OtherOwners = {<<"bo", b>> : b \in {c \in Bos : OwnsOther(c)}}
                    \cup {<<"crf", k>> : k \in DOMAIN crf_lut_}
                    \cup {<<"exec", f>> : f \in IF pim_initialized THEN {"srf", "zero"} ELSE {}}
  BY <1>1, <1>5 DEF OtherOwners
<1>7. ASSUME NEW o \in OtherOwners PROVE IsClient(o) \/ IsProgram(o) \/ IsBuffer(o)
  <2>1. ASSUME NEW b \in Bos, OwnsOther(b), o = <<"bo", b>> PROVE IsClient(o)
    BY <2>1, HoldsCases DEF IsClient
  <2>2. ASSUME NEW k \in DOMAIN crf_lut_, o = <<"crf", k>> PROVE IsProgram(o)
    BY <2>2, HoldsCases DEF IsProgram
  <2>3. ASSUME NEW f \in {"srf", "zero"}, pim_initialized, o = <<"exec", f>>
        PROVE  IsBuffer(o)
    BY <2>3, <1>4, HoldsCases DEF IsBuffer
  <2> QED BY <1>6, <2>1, <2>2, <2>3
<1>8. ASSUME NEW o, IsClient(o) \/ IsProgram(o) \/ IsBuffer(o) PROVE o \in OtherOwners
  BY <1>6, <1>8 DEF IsClient, IsProgram, IsBuffer
<1> QED BY <1>7, <1>8

\* HandleInv implies HandlesExact.
LEMMA InvHandles == ASSUME HandleInv PROVE HandlesExact
<1>1. PICK O, M : O = Pieces /\ M = Memory
  OBVIOUS
<1>2. Serves(M, O, Pointers) /\ PimOwned = O
  BY <1>1, OwnedPieces DEF HandleInv
<1>3. DOMAIN sub = {o.dev_addr : o \in O}
  BY <1>1, <1>2, MemoryFields DEF Serves, Handles
<1>4. heap = {[base |-> o.host_addr, size |-> o.size] : o \in O}
  BY <1>1, <1>2, MemoryFields DEF Serves, Extent
<1>5. ASSUME NEW o \in O, NEW p \in O, o.dev_addr = p.dev_addr \/ o.host_addr = p.host_addr,
             o # p
      PROVE  FALSE
  <2>1. /\ o \in Piece /\ p \in Piece /\ o.dev_addr # p.dev_addr
        /\ HostView(o) \cap HostView(p) = {}
    BY <1>2, <1>5 DEF Serves
  <2>2. o.host_addr - HostBase \in HostView(o) /\ p.host_addr - HostBase \in HostView(p)
    BY <2>1, PieceView
  <2> QED BY <1>5, <2>1, <2>2
<1>6. DOMAIN store = {Holds(o) : o \in OtherOwners}
  <2>1. DOMAIN store = Pointers
    BY <1>1, <1>2, MemoryFields DEF Serves
  <2>2. ASSUME NEW o \in OtherOwners PROVE Holds(o) \in Pointers
    <3>1. CASE IsClient(o)
      BY <3>1 DEF IsClient, Pointers, ClientPtrs
    <3>2. CASE IsProgram(o)
      BY <3>2 DEF IsProgram, Pointers, CrfPtrs
    <3>3. CASE IsBuffer(o)
      BY <3>3 DEF IsBuffer, Pointers, ExecPtrs
    <3> QED BY <3>1, <3>2, <3>3, OtherCases
  <2>3. ASSUME NEW p \in Pointers PROVE \E o \in OtherOwners : p = Holds(o)
    <3>1. CASE p \in ClientPtrs
      <4>1. PICK b \in Bos : OwnsOther(b) /\ p = PtrOf(b)
        BY <3>1 DEF ClientPtrs
      <4>2. IsClient(<<"bo", b>>) /\ Holds(<<"bo", b>>) = p
        BY <4>1, HoldsCases DEF IsClient
      <4> QED BY <4>2, OtherCases
    <3>2. CASE p \in CrfPtrs
      <4>1. PICK k \in DOMAIN crf_lut_ : p = crf_lut_[k]
        BY <3>2 DEF CrfPtrs
      <4>2. IsProgram(<<"crf", k>>) /\ Holds(<<"crf", k>>) = p
        BY <4>1, HoldsCases DEF IsProgram
      <4> QED BY <4>2, OtherCases
    <3>3. CASE p \in ExecPtrs
      <4>1. pim_initialized /\ (p = exec.srf.dev_addr \/ p = exec.zero.dev_addr)
        BY <3>3 DEF ExecPtrs
      <4>2. /\ Holds(<<"exec", "srf">>) = exec.srf.dev_addr
            /\ Holds(<<"exec", "zero">>) = exec.zero.dev_addr
        BY HoldsCases
      <4>3. IsBuffer(<<"exec", "srf">>) /\ IsBuffer(<<"exec", "zero">>)
        BY <4>1, <4>2 DEF IsBuffer
      <4> QED BY <4>1, <4>2, <4>3, OtherCases
    <3> QED BY <3>1, <3>2, <3>3 DEF Pointers
  <2> QED BY <2>1, <2>2, <2>3
<1>7. ASSUME NEW o \in OtherOwners, NEW p \in OtherOwners, Holds(o) = Holds(p)
      PROVE  o = p
  <2>1. /\ IsClient(o) \/ IsProgram(o) \/ IsBuffer(o)
        /\ IsClient(p) \/ IsProgram(p) \/ IsBuffer(p)
    BY OtherCases
  <2>2. \A q : /\ IsClient(q) => Holds(q) \in ClientPtrs
               /\ IsProgram(q) => Holds(q) \in CrfPtrs
               /\ IsBuffer(q) => Holds(q) \in ExecPtrs
    BY DEF IsClient, IsProgram, IsBuffer, ClientPtrs, CrfPtrs, ExecPtrs
  <2>3. ClientPtrs \cap CrfPtrs = {} /\ ExecPtrs \cap (ClientPtrs \cup CrfPtrs) = {}
    BY DEF HandleInv, PointersApart
  <2>4. CASE IsClient(o)
    <3>1. IsClient(p)
      BY <1>7, <2>1, <2>2, <2>3, <2>4
    <3> QED BY <1>7, <2>4, <3>1 DEF IsClient, HandleInv, PointersApart
  <2>5. CASE IsProgram(o)
    <3>1. IsProgram(p)
      BY <1>7, <2>1, <2>2, <2>3, <2>5
    <3> QED BY <1>7, <2>5, <3>1 DEF IsProgram, HandleInv, PointersApart
  <2>6. CASE IsBuffer(o)
    <3>1. IsBuffer(p)
      BY <1>7, <2>1, <2>2, <2>3, <2>6
    <3> QED BY <1>7, <2>6, <3>1 DEF IsBuffer, HandleInv, PointersApart
  <2> QED BY <2>1, <2>4, <2>5, <2>6
<1> QED BY <1>2, <1>3, <1>4, <1>5, <1>6, <1>7 DEF HandlesExact

\* The inductive invariant holds in every reachable state.
LEMMA HandlesInvariant == Spec => []HandleInv
<1>1. HandleInv /\ [Next]_vars => HandleInv'
  BY NextHandles
<1> QED BY InitHandles, <1>1, PTL DEF Spec

\* TypeOK: handles are of one kind each, every sub-buffer lies within the area,
\* and what PimDeinitialize frees is forgotten (OclMemoryManager, PimRuntime).
THEOREM OclTypes == Spec => []TypeOK
<1>1. HandleInv => TypeOK
  BY InvTypes
<1> QED BY <1>1, HandlesInvariant, PTL

\* HandlesExact: alloc_memory and free_memory of OclMemoryManager keep OpenCL
\* objects, extents of the heap and their owners one to one, for every number
\* of buffers, programs and weights and any reuse of handles.
THEOREM OclHandlesExact == Spec => []HandlesExact
<1>1. HandleInv => HandlesExact
  BY InvHandles
<1> QED BY <1>1, HandlesInvariant, PTL

-----------------------------------------------------------------------------
(* Contents.                                                               *)

\* Pieces and pointers are apart.
LEMMA Separate ==
  ASSUME HandleInv
  PROVE  /\ \A o, p \in Pieces :
              o # p => o.dev_addr # p.dev_addr /\ HostView(o) \cap HostView(p) = {}
         /\ \A o \in Pieces : /\ HostView(o) \subseteq 0..(Units - 1)
                              /\ o \in Piece /\ o.dev_addr \in Ptrs
                              /\ o.dev_addr \notin Pointers
         /\ Pointers \subseteq Ptrs
<1>1. Serves(Memory, Pieces, Pointers)
  BY DEF HandleInv
<1>2. \A o, p \in Pieces :
              o # p => o.dev_addr # p.dev_addr /\ HostView(o) \cap HostView(p) = {}
  BY <1>1 DEF Serves
<1>3. Pieces \subseteq Piece /\ Pointers \subseteq Ptrs /\ Pointers \cap Handles(Pieces) = {}
  BY <1>1 DEF Serves
<1>4. \A o \in Pieces : /\ HostView(o) \subseteq 0..(Units - 1)
                        /\ o \in Piece /\ o.dev_addr \in Ptrs
  BY <1>3, PieceView
<1> QED BY <1>2, <1>3, <1>4 DEF Handles

\* What all units of a piece hold is what it contains.
LEMMA ContentsOf ==
  ASSUME NEW m, NEW o \in Piece, NEW d \in Data, \A v \in HostView(o) : m.pim[v] = d
  PROVE  Contents(m, HostView(o)) = d
<1>1. PICK u : u \in HostView(o)
  BY PieceView
<1>2. \A e \in Data : (\A v \in HostView(o) : m.pim[v] = e) => e = d
  BY <1>1
<1>3. \E e \in Data : \A v \in HostView(o) : m.pim[v] = e
  OBVIOUS
<1>4. PICK x : x = CHOOSE e \in Data : \A v \in HostView(o) : m.pim[v] = e
  OBVIOUS
<1>5. x \in Data /\ \A v \in HostView(o) : m.pim[v] = x
  BY <1>3, <1>4
<1>6. x = d
  BY <1>2, <1>5
<1> QED BY <1>3, <1>4, <1>6 DEF Contents

\* What a buffer of the client reads as, either way.
LEMMA ReadsAs ==
  ASSUME HandleInv, ContentsInv, NEW b \in Bos, bo[b] # NoBo,
         wrote[PtrOf(b)] # Unknown
  PROVE  /\ Read(Memory, bo[b].data, bo[b].mem_type) = wrote[PtrOf(b)]
         /\ PimObject(b) =>
              /\ Contents(Memory, DevView(Memory, bo[b].data)) = wrote[PtrOf(b)]
              /\ PimKept(bo[b].data)
         /\ wrote[PtrOf(b)] \in Data
<1>1. PICK o, M : o = bo[b].data /\ M = Memory
  OBVIOUS
<1>2. /\ PtrOf(b) \in Ptrs /\ o.dev_addr = PtrOf(b)
      /\ bo[b].mem_type = "PIM" => o \in ClientPim
      /\ bo[b].mem_type # "PIM" => PtrOf(b) \in ClientPtrs
  BY <1>1, ObjectServed DEF PtrOf
<1>3. wrote[PtrOf(b)] \in Data
  BY <1>2 DEF ContentsInv
<1>4. CASE bo[b].mem_type = "PIM"
  <2>1. o \in ClientPim /\ o \in Pieces /\ o \in Piece
    BY <1>2, <1>4, Separate DEF Pieces
  <2>2. PimKept(o)
    BY <1>2, <2>1 DEF ContentsInv
  <2>3. \A v \in HostView(o) : M.pim[v] = wrote[PtrOf(b)]
    BY <1>1, <1>2, <2>2, MemoryFields DEF PimKept
  <2>4. Contents(M, HostView(o)) = wrote[PtrOf(b)]
    BY <1>3, <2>1, <2>3, ContentsOf
  <2>5. Serves(M, Pieces, Pointers)
    BY <1>1 DEF HandleInv
  <2>6. DevView(M, o) = HostView(o)
    BY <2>1, <2>5, SameView
  <2> QED BY <1>1, <1>3, <1>4, <2>2, <2>4, <2>6 DEF Read, PimObject
<1>5. CASE bo[b].mem_type # "PIM"
  <2>1. store[PtrOf(b)] = wrote[PtrOf(b)]
    BY <1>2, <1>5 DEF ContentsInv
  <2>2. Memory.store = store
    BY MemoryFields
  <2> QED BY <1>3, <1>5, <2>1, <2>2 DEF Read, PimObject, PtrOf
<1> QED BY <1>4, <1>5

\* Init establishes ContentsInv.
LEMMA InitContents == ASSUME Init PROVE ContentsInv
<1>1. ClientPim = {} /\ ClientPtrs = {}
  BY DEF Init, ClientPim, ClientPtrs, OwnsPim, OwnsOther, Owns
<1>2. DOMAIN crf_lut_ = {} /\ weight_map_ = {} /\ wrote \in [Ptrs -> Data \cup {Unknown}]
  BY DEF Init
<1> QED BY <1>1, <1>2 DEF ContentsInv

\* With the same objects the client has the same memory.
LEMMA SameClient ==
  ASSUME bo' = bo
  PROVE  ClientPim' = ClientPim /\ ClientPtrs' = ClientPtrs
  BY DEF ClientPim, ClientPtrs, OwnsPim, OwnsOther, Owns, PtrOf

\* Steps that change no contents anybody has.
LEMMA SameContents ==
  ASSUME HandleInv, ContentsInv, wrote' \in [Ptrs -> Data \cup {Unknown}],
         \A o \in ClientPim' : \/ wrote'[o.dev_addr] = Unknown
                               \/ /\ o \in ClientPim /\ wrote'[o.dev_addr] = wrote[o.dev_addr]
                                  /\ \A v \in HostView(o) : pim'[v] = pim[v],
         \A p \in ClientPtrs' : \/ wrote'[p] = Unknown
                                \/ /\ p \in ClientPtrs /\ wrote'[p] = wrote[p]
                                   /\ store'[p] = store[p],
         \A w \in weight_map_' : /\ w \in weight_map_ /\ wrote'[w.dev_addr] = wrote[w.dev_addr]
                                 /\ \A v \in HostView(w) : pim'[v] = pim[v],
         \A k \in DOMAIN crf_lut_' : /\ k \in DOMAIN crf_lut_ /\ crf_lut_'[k] = crf_lut_[k]
                                     /\ store'[crf_lut_[k]] = store[crf_lut_[k]]
  PROVE  ContentsInv'
<1>1. ASSUME NEW o \in ClientPim', wrote'[o.dev_addr] # Unknown PROVE PimKept(o)'
  BY <1>1 DEF ContentsInv, PimKept
<1>2. ASSUME NEW p \in ClientPtrs', wrote'[p] # Unknown PROVE store'[p] = wrote'[p]
  BY <1>2 DEF ContentsInv
<1>3. ASSUME NEW w \in weight_map_' PROVE wrote'[w.dev_addr] \in Data /\ PimKept(w)'
  BY <1>3 DEF ContentsInv, PimKept
<1>4. ASSUME NEW k \in DOMAIN crf_lut_' PROVE store'[crf_lut_'[k]] = k
  BY <1>4 DEF ContentsInv
<1> QED BY <1>1, <1>2, <1>3, <1>4 DEF ContentsInv

\* A step that leaves memory and handles alone keeps ContentsInv.
LEMMA StutterContents ==
  ASSUME HandleInv, ContentsInv, UNCHANGED <<memory, handles, wrote>>
  PROVE  ContentsInv'
<1>1. /\ bo' = bo /\ crf_lut_' = crf_lut_ /\ weight_map_' = weight_map_
      /\ wrote' = wrote /\ pim' = pim /\ store' = store
  BY DEF handles, memory
<1>2. ClientPim' = ClientPim /\ ClientPtrs' = ClientPtrs
  BY <1>1, SameClient
<1>3. wrote' \in [Ptrs -> Data \cup {Unknown}]
  BY <1>1 DEF ContentsInv
<1> QED BY <1>1, <1>2, <1>3, SameContents

\* PimInitialize keeps ContentsInv.
LEMMA InitializeContents ==
  ASSUME HandleInv, ContentsInv, PimInitialize
  PROVE  ContentsInv'
<1>1. CASE Exit
  BY <1>1, StutterContents DEF Exit
<1>2. ASSUME NEW m1 \in alloc_memory(Memory, "DEVICE", 1),
             NEW m2 \in alloc_memory(m1, "DEVICE", 1),
             NEW m3 \in alloc_memory(m2, "PIM", TmpSize),
             SetMemory(m3),
             UNCHANGED <<bo, crf_lut_, weight_map_, exited, wrote>>
      PROVE  ContentsInv'
  <2>1. PICK O, G, M : O = Pieces /\ G = Pointers /\ M = Memory
    OBVIOUS
  <2>2. Serves(M, O, G) /\ 1 \in 1..Units /\ TmpSize \in 1..Units
    BY <2>1, OclAssumption DEF HandleInv
  <2>3. PICK H : H = G \cup {m1.data.dev_addr}
    OBVIOUS
  <2>4. Serves(m1, O, H) /\ m1.pim = M.pim /\ \A q \in G : m1.store[q] = M.store[q]
    BY <1>2, <2>1, <2>2, <2>3, AllocOther
  <2>5. PICK J : J = H \cup {m2.data.dev_addr}
    OBVIOUS
  <2>6. Serves(m2, O, J) /\ m2.pim = m1.pim /\ \A q \in H : m2.store[q] = m1.store[q]
    BY <1>2, <2>2, <2>4, <2>5, AllocOther
  <2>7. /\ Serves(m3, O \cup {m3.data}, J)
        /\ m3.pim = m2.pim /\ m3.store = m2.store
    BY <1>2, <2>2, <2>6, AllocPim
  <2>8. pim' = pim /\ \A q \in Pointers : store'[q] = store[q]
    BY <1>2, <2>1, <2>3, <2>4, <2>6, <2>7, MemoryFields DEF SetMemory
  <2>9. ClientPim' = ClientPim /\ ClientPtrs' = ClientPtrs
    BY <1>2, SameClient
  <2>10. wrote' \in [Ptrs -> Data \cup {Unknown}]
    BY <1>2 DEF ContentsInv
  <2>11. ClientPtrs \subseteq Pointers /\ \A k \in DOMAIN crf_lut_ : crf_lut_[k] \in Pointers
    BY DEF Pointers, CrfPtrs
  <2> QED BY <1>2, <2>8, <2>9, <2>10, <2>11, SameContents
<1> QED BY <1>1, <1>2 DEF PimInitialize

\* PimDeinitialize keeps ContentsInv.
LEMMA DeinitializeContents ==
  ASSUME HandleInv, ContentsInv, PimDeinitialize
  PROVE  ContentsInv'
<1>1. PICK n, O, G, M : n = Released(crf_lut_) /\ O = Pieces /\ G = Pointers /\ M = Memory
  OBVIOUS
<1>2. PICK F, devs : /\ F = weight_map_ \cup {exec.tmp}
                     /\ devs = {exec.srf.dev_addr, exec.zero.dev_addr} \cup Range(crf_lut_)
  OBVIOUS
<1>3. /\ SetMemory(n) /\ pim_initialized /\ crf_lut_' = << >> /\ weight_map_' = {} /\ bo' = bo
      /\ wrote' = [p \in Ptrs |-> IF p \in {w.dev_addr : w \in weight_map_}
                                    THEN Unknown ELSE wrote[p]]
  BY <1>1 DEF PimDeinitialize, Running
<1>4. Serves(M, O, G) /\ F \subseteq O /\ IsMemory(M)
  BY <1>1, <1>2, <1>3 DEF HandleInv, Pieces, ExecPim, Serves
<1>5. PICK f : f = Fill(M, UNION {HostView(o) : o \in F}, Unknown)
  OBVIOUS
<1>6. /\ SameShape(M, f) /\ f.store = M.store
      /\ \A v \in 0..(Units - 1) :
           f.pim[v] = IF v \in UNION {HostView(o) : o \in F} THEN Unknown ELSE M.pim[v]
  BY <1>4, <1>5, FillShape
<1>7. PICK bases, ptrs :
        /\ bases = {w.host_addr : w \in weight_map_} \cup {exec.tmp.host_addr}
        /\ ptrs = {w.dev_addr : w \in weight_map_} \cup {exec.tmp.dev_addr}
  OBVIOUS
<1>8. n = [f EXCEPT !.heap = {e \in @ : e.base \notin bases},
                    !.sub = Restrict(@, DOMAIN @ \ ptrs),
                    !.store = Restrict(@, DOMAIN @ \ devs)]
  BY <1>1, <1>2, <1>5, <1>7 DEF Released
<1>9. n.pim = f.pim /\ n.store = Restrict(f.store, DOMAIN f.store \ devs)
  <2>1. IsMemory(f)
    BY <1>6 DEF SameShape
  <2> QED BY <1>8, <2>1 DEF IsMemory
<1>10. devs = CrfPtrs \cup ExecPtrs
  BY <1>2, <1>3 DEF CrfPtrs, ExecPtrs, Range
<1>11. ASSUME NEW o \in ClientPim, NEW v \in HostView(o) PROVE pim'[v] = pim[v]
  <2>1. o \in Pieces /\ o \notin F
    BY <1>2, <1>3 DEF Pieces, HandleInv, PimApart, ExecPim
  <2>2. v \in 0..(Units - 1) /\ \A p \in F : v \notin HostView(p)
    BY <1>1, <1>4, <2>1, Separate
  <2>3. n.pim[v] = M.pim[v]
    BY <1>6, <1>9, <2>2
  <2> QED BY <1>1, <1>3, <2>3, MemoryFields DEF SetMemory
<1>12. ASSUME NEW p \in ClientPtrs PROVE store'[p] = store[p]
  <2>1. p \notin devs /\ p \in G
    BY <1>1, <1>10 DEF HandleInv, PointersApart, Pointers
  <2>2. DOMAIN f.store = G
    BY <1>4, <1>6 DEF Serves
  <2>3. n.store[p] = M.store[p]
    BY <1>6, <1>9, <2>1, <2>2 DEF Restrict
  <2> QED BY <1>1, <1>3, <2>3, MemoryFields DEF SetMemory
<1>13. ClientPim' = ClientPim /\ ClientPtrs' = ClientPtrs
  BY <1>3, SameClient
<1>14. wrote' \in [Ptrs -> Data \cup {Unknown}]
  BY <1>3 DEF ContentsInv
<1>15. \A p \in Ptrs : wrote'[p] = Unknown \/ wrote'[p] = wrote[p]
  BY <1>3
<1>16. DOMAIN crf_lut_' = {} /\ weight_map_' = {}
  BY <1>3
<1>17. /\ \A o \in ClientPim : o.dev_addr \in Ptrs
       /\ ClientPtrs \subseteq Ptrs
  BY Separate DEF Pieces, Pointers
<1> QED BY <1>11, <1>12, <1>13, <1>14, <1>15, <1>16, <1>17, SameContents

\* PimCreateBo and PimAllocMemory keep ContentsInv.
LEMMA AllocateContents ==
  ASSUME HandleInv, ContentsInv, NEW b \in Bos, NEW kind \in {"bo", "raw"},
         NEW mem \in MemType, NEW size \in Sizes, Allocate(b, kind, mem, size)
  PROVE  ContentsInv'
<1>1. CASE Exit
  BY <1>1, StutterContents DEF Exit
<1>2. ASSUME NEW m \in alloc_memory(Memory, mem, size), SetMemory(m),
             bo' = [bo EXCEPT ![b] = [kind |-> kind, mem_type |-> mem, data |-> m.data]],
             wrote' = [wrote EXCEPT ![m.data.dev_addr] = Unknown],
             UNCHANGED <<pim_initialized, exec, crf_lut_, weight_map_, exited>>,
             bo[b] = NoBo
      PROVE  ContentsInv'
  <2>1. PICK O, G, M, d : O = Pieces /\ G = Pointers /\ M = Memory /\ d = m.data
    OBVIOUS
  <2>2. Serves(M, O, G) /\ size \in 1..Units /\ m \in alloc_memory(M, mem, size)
    BY <1>2, <2>1, OclAssumption DEF HandleInv
  <2>3. /\ d \in OclBufferObj /\ d.dev_addr \notin Handles(O) \cup G
        /\ m.pim = M.pim /\ \A q \in G : m.store[q] = M.store[q]
    <3>1. CASE mem = "PIM"
      <4>1. /\ Serves(m, O \cup {d}, G) /\ d \in Piece
            /\ d.dev_addr \notin Handles(O) \cup G
            /\ m.pim = M.pim /\ m.store = M.store
        BY <2>1, <2>2, <3>1, AllocPim
      <4> QED BY <4>1 DEF Piece
    <3>2. CASE mem \in {"DEVICE", "HOST"}
      <4>1. /\ Serves(m, O, G \cup {d.dev_addr}) /\ d \in OclBufferObj
            /\ d.dev_addr \notin Handles(O) \cup G
            /\ m.pim = M.pim /\ \A q \in G : m.store[q] = M.store[q]
        BY <2>1, <2>2, <3>2, AllocOther
      <4> QED BY <4>1
    <3> QED BY <3>1, <3>2 DEF MemType
  <2>4. PICK r : r = [kind |-> kind, mem_type |-> mem, data |-> d]
    OBVIOUS
  <2>5. r \in Object /\ r.data = d /\ bo' = [bo EXCEPT ![b] = r]
    BY <1>2, <2>1, <2>3, <2>4 DEF Object
  <2>6. /\ bo'[b] = r
        /\ \A c \in Bos : c # b => bo'[c] = bo[c]
        /\ \A c \in Bos : c # b => /\ OwnsPim(c)' <=> OwnsPim(c)
                                   /\ OwnsOther(c)' <=> OwnsOther(c)
                                   /\ PtrOf(c)' = PtrOf(c)
    <3>1. bo \in [Bos -> Object \cup {NoBo}]
      BY DEF HandleInv, OwnersOK
    <3>2. bo'[b] = r /\ \A c \in Bos : c # b => bo'[c] = bo[c]
      BY <2>5, <3>1
    <3> QED BY <3>2 DEF OwnsPim, OwnsOther, Owns, PtrOf
  <2>7. PtrOf(b)' = d.dev_addr
    BY <2>5, <2>6 DEF PtrOf
  <2>8. ClientPim' \subseteq ClientPim \cup {d}
    BY <2>5, <2>6 DEF ClientPim
  <2>9. ClientPtrs' \subseteq ClientPtrs \cup {d.dev_addr}
    BY <2>6, <2>7 DEF ClientPtrs
  <2>10. /\ wrote' \in [Ptrs -> Data \cup {Unknown}] /\ wrote'[d.dev_addr] = Unknown
         /\ \A p \in Ptrs : p # d.dev_addr => wrote'[p] = wrote[p]
    <3>1. d.dev_addr \in Ptrs
      BY <2>3 DEF OclBufferObj
    <3> QED BY <1>2, <2>1, <3>1 DEF ContentsInv
  <2>11. pim' = pim /\ \A q \in Pointers : store'[q] = store[q]
    BY <1>2, <2>1, <2>3, MemoryFields DEF SetMemory
  <2>12. /\ ClientPtrs \subseteq Pointers /\ Pointers \subseteq Ptrs
         /\ \A k \in DOMAIN crf_lut_ : crf_lut_[k] \in Pointers
    BY Separate DEF Pointers, CrfPtrs
  <2>13. \A o \in ClientPim \cup weight_map_ : o.dev_addr \in Ptrs /\ o.dev_addr # d.dev_addr
    BY <2>1, <2>3, Separate DEF Pieces, Handles
  <2>14. \A p \in Pointers : p # d.dev_addr
    BY <2>1, <2>3
  <2> QED BY <1>2, <2>8, <2>9, <2>10, <2>11, <2>12, <2>13, <2>14, SameContents
<1> QED BY <1>1, <1>2 DEF Allocate

\* PimCreateBo around user memory keeps ContentsInv.
LEMMA WrapContents ==
  ASSUME HandleInv, ContentsInv, NEW b \in Bos, NEW r \in Bos, PimCreateBoUser(b, r)
  PROVE  ContentsInv'
<1>1. PICK u : u = [bo[r] EXCEPT !.kind = "user"]
  OBVIOUS
<1>2. /\ bo[r] # NoBo /\ bo' = [bo EXCEPT ![b] = u]
      /\ crf_lut_' = crf_lut_ /\ weight_map_' = weight_map_
      /\ wrote' = wrote /\ pim' = pim /\ store' = store
  BY <1>1 DEF PimCreateBoUser, memory
<1>3. u.kind = "user" /\ bo \in [Bos -> Object \cup {NoBo}]
  BY <1>1, <1>2, ObjectServed DEF Object, HandleInv, OwnersOK
<1>4. bo'[b] = u /\ \A c \in Bos : c # b => bo'[c] = bo[c]
  BY <1>2, <1>3
<1>5. ~Owns(b)' /\ ~OwnsPim(b)' /\ ~OwnsOther(b)'
  BY <1>3, <1>4 DEF Owns, OwnsPim, OwnsOther
<1>6. \A c \in Bos : c # b => /\ OwnsPim(c)' <=> OwnsPim(c)
                              /\ OwnsOther(c)' <=> OwnsOther(c)
                              /\ PtrOf(c)' = PtrOf(c)
  BY <1>4 DEF OwnsPim, OwnsOther, Owns, PtrOf
<1>7. ClientPim' \subseteq ClientPim /\ ClientPtrs' \subseteq ClientPtrs
  BY <1>4, <1>5, <1>6 DEF ClientPim, ClientPtrs
<1>8. wrote' \in [Ptrs -> Data \cup {Unknown}]
  BY <1>2 DEF ContentsInv
<1> QED BY <1>2, <1>7, <1>8, SameContents

\* PimDestroyBo of wrapped memory keeps ContentsInv.
LEMMA UnwrapContents ==
  ASSUME HandleInv, ContentsInv, NEW b \in Bos, PimDestroyBoUser(b)
  PROVE  ContentsInv'
<1>1. /\ bo' = [bo EXCEPT ![b] = NoBo]
      /\ crf_lut_' = crf_lut_ /\ weight_map_' = weight_map_
      /\ wrote' = wrote /\ pim' = pim /\ store' = store
  BY DEF PimDestroyBoUser, memory
<1>2. bo \in [Bos -> Object \cup {NoBo}]
  BY DEF HandleInv, OwnersOK
<1>3. bo'[b] = NoBo /\ \A c \in Bos : c # b => bo'[c] = bo[c]
  BY <1>1, <1>2
<1>4. ~OwnsPim(b)' /\ ~OwnsOther(b)'
  BY <1>3 DEF Owns, OwnsPim, OwnsOther
<1>5. \A c \in Bos : c # b => /\ OwnsPim(c)' <=> OwnsPim(c)
                              /\ OwnsOther(c)' <=> OwnsOther(c)
                              /\ PtrOf(c)' = PtrOf(c)
  BY <1>3 DEF OwnsPim, OwnsOther, Owns, PtrOf
<1>6. ClientPim' \subseteq ClientPim /\ ClientPtrs' \subseteq ClientPtrs
  BY <1>3, <1>4, <1>5 DEF ClientPim, ClientPtrs
<1>7. wrote' \in [Ptrs -> Data \cup {Unknown}]
  BY <1>1 DEF ContentsInv
<1> QED BY <1>1, <1>6, <1>7, SameContents

\* PimDestroyBo and PimFreeMemory keep ContentsInv.
LEMMA FreeContents ==
  ASSUME HandleInv, ContentsInv, NEW b \in Bos, PimFreeMemory(b)
  PROVE  ContentsInv'
<1>1. PICK M, O, G, d, mem : /\ M = Memory /\ O = Pieces /\ G = Pointers
                             /\ d = bo[b].data /\ mem = bo[b].mem_type
  OBVIOUS
<1>2. PICK n : n = free_memory(M, d, mem)
  OBVIOUS
<1>3. /\ bo[b] # NoBo /\ bo[b].kind # "user" /\ SetMemory(n)
      /\ bo' = [bo EXCEPT ![b] = NoBo] /\ crf_lut_' = crf_lut_
      /\ weight_map_' = weight_map_ /\ wrote' = [wrote EXCEPT ![d.dev_addr] = Unknown]
  BY <1>1, <1>2 DEF PimFreeMemory, PtrOf
<1>4. Serves(M, O, G) /\ mem \in MemType /\ Owns(b) /\ d.dev_addr \in Ptrs
  BY <1>1, <1>3, ObjectServed DEF HandleInv, Owns, PtrOf
<1>5. bo \in [Bos -> Object \cup {NoBo}]
  BY DEF HandleInv, OwnersOK
<1>6. bo'[b] = NoBo /\ \A c \in Bos : c # b => bo'[c] = bo[c]
  BY <1>3, <1>5
<1>7. ~OwnsPim(b)' /\ ~OwnsOther(b)'
  BY <1>6 DEF Owns, OwnsPim, OwnsOther
<1>8. \A c \in Bos : c # b => /\ OwnsPim(c)' <=> OwnsPim(c)
                              /\ OwnsOther(c)' <=> OwnsOther(c)
                              /\ PtrOf(c)' = PtrOf(c)
  BY <1>6 DEF OwnsPim, OwnsOther, Owns, PtrOf
<1>9. ClientPim' \subseteq ClientPim /\ ClientPtrs' \subseteq ClientPtrs
  BY <1>6, <1>7, <1>8 DEF ClientPim, ClientPtrs
<1>10. /\ wrote' \in [Ptrs -> Data \cup {Unknown}] /\ wrote'[d.dev_addr] = Unknown
       /\ \A p \in Ptrs : p # d.dev_addr => wrote'[p] = wrote[p]
  BY <1>3, <1>4 DEF ContentsInv
<1>11. /\ \A o \in Pieces : o.dev_addr \in Ptrs
       /\ ClientPtrs \subseteq Pointers /\ Pointers \subseteq Ptrs
       /\ \A k \in DOMAIN crf_lut_ : crf_lut_[k] \in Pointers
       /\ ClientPim \subseteq Pieces /\ weight_map_ \subseteq Pieces
  BY Separate DEF Pieces, Pointers, CrfPtrs
<1>12. CASE mem = "PIM"
  <2>1. d \in ClientPim /\ d \in Pieces /\ d \notin weight_map_
    BY <1>1, <1>4, <1>12 DEF OwnsPim, ClientPim, Pieces, HandleInv, PimApart
  <2>2. /\ Serves(n, O \ {d}, G) /\ n.store = M.store
        /\ \A v \in 0..(Units - 1) : v \notin HostView(d) => n.pim[v] = M.pim[v]
    BY <1>1, <1>2, <1>4, <1>12, <2>1, FreePim
  <2>3. store' = store /\ pim' = n.pim /\ M.pim = pim
    BY <1>1, <1>3, <2>2, MemoryFields DEF SetMemory
  <2>4. ASSUME NEW o \in Pieces, o # d
        PROVE  o.dev_addr # d.dev_addr /\ \A v \in HostView(o) : pim'[v] = pim[v]
    <3>1. /\ o.dev_addr # d.dev_addr /\ HostView(o) \cap HostView(d) = {}
          /\ HostView(o) \subseteq 0..(Units - 1)
      BY <2>1, <2>4, Separate
    <3> QED BY <2>2, <2>3, <3>1
  <2>5. \A p \in Pointers : p # d.dev_addr
    BY <2>1, Separate
  <2>6. \A o \in ClientPim' : \/ wrote'[o.dev_addr] = Unknown
                              \/ /\ o \in ClientPim /\ wrote'[o.dev_addr] = wrote[o.dev_addr]
                                 /\ \A v \in HostView(o) : pim'[v] = pim[v]
    BY <1>9, <1>10, <1>11, <2>4
  <2>7. \A w \in weight_map_' : /\ w \in weight_map_ /\ wrote'[w.dev_addr] = wrote[w.dev_addr]
                                /\ \A v \in HostView(w) : pim'[v] = pim[v]
    BY <1>3, <1>10, <1>11, <2>1, <2>4
  <2>8. \A p \in ClientPtrs' : \/ wrote'[p] = Unknown
                               \/ /\ p \in ClientPtrs /\ wrote'[p] = wrote[p]
                                  /\ store'[p] = store[p]
    BY <1>9, <1>10, <1>11, <2>3, <2>5
  <2> QED BY <1>3, <1>10, <2>3, <2>6, <2>7, <2>8, SameContents
<1>13. CASE mem \in {"DEVICE", "HOST"}
  <2>1. d.dev_addr \in ClientPtrs /\ d.dev_addr \notin CrfPtrs /\ d.dev_addr \in Pointers
    BY <1>1, <1>4, <1>13
       DEF OwnsOther, ClientPtrs, PtrOf, HandleInv, PointersApart, Pointers
  <2>2. /\ Serves(n, O, G \ {d.dev_addr}) /\ n.pim = M.pim
        /\ \A q \in G \ {d.dev_addr} : n.store[q] = M.store[q]
    BY <1>2, <1>4, <1>13, FreeOther
  <2>3. /\ pim' = pim /\ \A q \in Pointers \ {d.dev_addr} : store'[q] = store[q]
    BY <1>1, <1>3, <2>2, MemoryFields DEF SetMemory
  <2>4. \A o \in Pieces : o.dev_addr # d.dev_addr
    BY <2>1, Separate
  <2>5. \A k \in DOMAIN crf_lut_ : crf_lut_[k] # d.dev_addr
    BY <2>1 DEF CrfPtrs
  <2> QED BY <1>3, <1>9, <1>10, <1>11, <2>3, <2>4, <2>5, SameContents
<1> QED BY <1>4, <1>12, <1>13 DEF MemType

\* A write of a to a piece of the client, recorded as y.
LEMMA PimWritten ==
  ASSUME HandleInv, ContentsInv, NEW x \in ClientPim, NEW a, NEW y \in Data \cup {Unknown},
         y # Unknown => a = y, wrote' = [wrote EXCEPT ![x.dev_addr] = y],
         bo' = bo, weight_map_' = weight_map_,
         \A v \in 0..(Units - 1) : pim'[v] = IF v \in HostView(x) THEN a ELSE pim[v],
         \A p \in ClientPtrs : store'[p] = store[p],
         \A k \in DOMAIN crf_lut_' : store'[crf_lut_'[k]] = k
  PROVE  ContentsInv'
<1>1. /\ x \in Pieces /\ x \notin weight_map_ /\ ClientPim \subseteq Pieces
      /\ weight_map_ \subseteq Pieces /\ ClientPtrs \subseteq Pointers
  BY DEF Pieces, Pointers, HandleInv, PimApart
<1>2. /\ wrote' \in [Ptrs -> Data \cup {Unknown}] /\ wrote'[x.dev_addr] = y
      /\ \A p \in Ptrs : p # x.dev_addr => wrote'[p] = wrote[p]
  BY <1>1, Separate DEF ContentsInv
<1>3. ASSUME NEW o \in Pieces, o # x
      PROVE  /\ wrote'[o.dev_addr] = wrote[o.dev_addr]
             /\ \A v \in HostView(o) : pim'[v] = pim[v]
  <2>1. /\ o.dev_addr # x.dev_addr /\ HostView(o) \cap HostView(x) = {}
        /\ HostView(o) \subseteq 0..(Units - 1) /\ o.dev_addr \in Ptrs
    BY <1>1, <1>3, Separate
  <2> QED BY <1>2, <2>1
<1>4. \A v \in HostView(x) : pim'[v] = a
  BY <1>1, Separate
<1>5. ClientPim' = ClientPim /\ ClientPtrs' = ClientPtrs
  BY SameClient
<1>6. ASSUME NEW o \in ClientPim, wrote'[o.dev_addr] # Unknown PROVE PimKept(o)'
  <2>1. CASE o = x
    BY <1>2, <1>4, <1>6, <2>1 DEF PimKept
  <2>2. CASE o # x
    <3>1. PimKept(o)
      BY <1>1, <1>3, <1>6, <2>2 DEF ContentsInv
    <3> QED BY <1>1, <1>3, <2>2, <3>1 DEF PimKept
  <2> QED BY <2>1, <2>2
<1>7. ASSUME NEW w \in weight_map_ PROVE wrote'[w.dev_addr] \in Data /\ PimKept(w)'
  <2>1. wrote[w.dev_addr] \in Data /\ PimKept(w) /\ w \in Pieces /\ w # x
    BY <1>1 DEF ContentsInv
  <2> QED BY <1>3, <2>1 DEF PimKept
<1>8. ASSUME NEW p \in ClientPtrs, wrote'[p] # Unknown PROVE store'[p] = wrote'[p]
  <2>1. p # x.dev_addr /\ p \in Ptrs
    BY <1>1, Separate
  <2> QED BY <1>2, <1>8, <2>1 DEF ContentsInv
<1> QED BY <1>2, <1>5, <1>6, <1>7, <1>8 DEF ContentsInv

\* A write to DEVICE or HOST memory of the client.
LEMMA OtherWritten ==
  ASSUME HandleInv, ContentsInv, NEW p \in ClientPtrs, NEW a, NEW y \in Data \cup {Unknown},
         y # Unknown => a = y, wrote' = [wrote EXCEPT ![p] = y],
         bo' = bo, weight_map_' = weight_map_, crf_lut_' = crf_lut_, pim' = pim,
         \A q \in Pointers : store'[q] = IF q = p THEN a ELSE store[q]
  PROVE  ContentsInv'
<1>1. /\ ClientPim \subseteq Pieces /\ weight_map_ \subseteq Pieces
      /\ ClientPtrs \subseteq Pointers /\ p \notin CrfPtrs /\ CrfPtrs \subseteq Pointers
  BY DEF Pieces, Pointers, HandleInv, PointersApart
<1>2. /\ wrote' \in [Ptrs -> Data \cup {Unknown}] /\ wrote'[p] = y
      /\ \A q \in Ptrs : q # p => wrote'[q] = wrote[q]
  BY <1>1, Separate DEF ContentsInv
<1>3. \A o \in Pieces : wrote'[o.dev_addr] = wrote[o.dev_addr]
  BY <1>1, <1>2, Separate
<1>4. ClientPim' = ClientPim /\ ClientPtrs' = ClientPtrs
  BY SameClient
<1>5. ASSUME NEW o \in ClientPim, wrote'[o.dev_addr] # Unknown PROVE PimKept(o)'
  BY <1>1, <1>3, <1>5 DEF ContentsInv, PimKept
<1>6. ASSUME NEW w \in weight_map_ PROVE wrote'[w.dev_addr] \in Data /\ PimKept(w)'
  BY <1>1, <1>3 DEF ContentsInv, PimKept
<1>7. ASSUME NEW q \in ClientPtrs, wrote'[q] # Unknown PROVE store'[q] = wrote'[q]
  <2>1. q \in Ptrs /\ q \in Pointers
    BY <1>1, Separate
  <2> QED BY <1>2, <1>7, <2>1 DEF ContentsInv
<1>8. ASSUME NEW k \in DOMAIN crf_lut_' PROVE store'[crf_lut_'[k]] = k
  <2>1. crf_lut_[k] # p /\ crf_lut_[k] \in Pointers
    BY <1>1 DEF CrfPtrs
  <2> QED BY <2>1 DEF ContentsInv
<1> QED BY <1>2, <1>4, <1>5, <1>6, <1>7, <1>8 DEF ContentsInv

\* A write of the host keeps ContentsInv: it reaches the units of its own
\* buffer only.
LEMMA HostWriteContents ==
  ASSUME HandleInv, ContentsInv, NEW b \in Bos, NEW d \in Data, HostWrite(b, d)
  PROVE  ContentsInv'
<1>1. PICK p : p = PtrOf(b)
  OBVIOUS
<1>2. /\ bo[b] # NoBo /\ bo[b].mem_type = "HOST" /\ bo' = bo
      /\ crf_lut_' = crf_lut_ /\ weight_map_' = weight_map_
      /\ store' = [store EXCEPT ![p] = d] /\ pim' = pim
      /\ wrote' = [wrote EXCEPT ![p] = d]
  BY <1>1 DEF HostWrite, handles
<1>3. p \in ClientPtrs
  BY <1>1, <1>2, ObjectServed
<1>4. DOMAIN store = Pointers /\ store = [q \in Pointers |-> store[q]]
  BY MemoryFields DEF HandleInv, Serves
<1>5. \A q \in Pointers : store'[q] = IF q = p THEN d ELSE store[q]
  BY <1>2, <1>4
<1> QED BY <1>2, <1>3, <1>5, OtherWritten

\* PimCopyMemory keeps ContentsInv.
LEMMA CopyContents ==
  ASSUME HandleInv, ContentsInv, NEW dst \in Bos, NEW src \in Bos, PimCopyMemory(dst, src)
  PROVE  ContentsInv'
<1>1. PICK M, O, G, d, mem, a, y :
        /\ M = Memory /\ O = Pieces /\ G = Pointers
        /\ d = bo[dst].data /\ mem = bo[dst].mem_type
        /\ a = Read(Memory, bo[src].data, bo[src].mem_type)
        /\ y = wrote[PtrOf(src)]
  OBVIOUS
<1>2. PICK n : n = Write(M, d, mem, a)
  OBVIOUS
<1>3. /\ SetMemory(n) /\ bo[dst] # NoBo /\ bo[src] # NoBo /\ bo' = bo /\ crf_lut_' = crf_lut_
      /\ weight_map_' = weight_map_ /\ wrote' = [wrote EXCEPT ![d.dev_addr] = y]
  BY <1>1, <1>2 DEF PimCopyMemory, handles, PtrOf
<1>4. y \in Data \cup {Unknown} /\ (y # Unknown => a = y)
  <2>1. PtrOf(src) \in Ptrs
    BY <1>3, ObjectServed
  <2> QED BY <1>1, <1>3, <2>1, ReadsAs DEF ContentsInv
<1>5. Serves(M, O, G)
  BY <1>1 DEF HandleInv
<1>6. /\ mem = "PIM" => d \in ClientPim
      /\ mem # "PIM" => d.dev_addr \in ClientPtrs
  BY <1>1, <1>3, ObjectServed DEF PtrOf
<1>7. CASE mem = "PIM"
  <2>1. n = Fill(M, HostView(d), a)
    BY <1>2, <1>7 DEF Write
  <2>2. /\ SameShape(M, n) /\ n.store = M.store
        /\ \A v \in 0..(Units - 1) : n.pim[v] = IF v \in HostView(d) THEN a ELSE M.pim[v]
    BY <1>5, <2>1, FillShape
  <2>3. /\ store' = store
        /\ \A v \in 0..(Units - 1) : pim'[v] = IF v \in HostView(d) THEN a ELSE pim[v]
    BY <1>1, <1>3, <2>2, MemoryFields DEF SetMemory
  <2>4. \A k \in DOMAIN crf_lut_' : store'[crf_lut_'[k]] = k
    BY <1>3, <2>3 DEF ContentsInv
  <2> QED BY <1>3, <1>4, <1>6, <1>7, <2>3, <2>4, PimWritten
<1>8. CASE mem # "PIM"
  <2>0. PICK p : p = d.dev_addr
    OBVIOUS
  <2>1. p \in G /\ p \in ClientPtrs
    BY <1>1, <1>6, <1>8, <2>0 DEF Pointers
  <2>2. /\ SameShape(M, n) /\ n.pim = M.pim
        /\ \A q \in G : n.store[q] = IF q = p THEN a ELSE M.store[q]
    <3>1. n = [M EXCEPT !.store[p] = a]
      BY <1>2, <1>8, <2>0 DEF Write
    <3>2. p \in G
      BY <2>1
    <3> QED BY <1>5, <3>1, <3>2, StoreShape
  <2>3. /\ pim' = pim
        /\ \A q \in Pointers : store'[q] = IF q = p THEN a ELSE store[q]
    BY <1>1, <1>3, <2>2, MemoryFields DEF SetMemory
  <2> QED BY <1>3, <1>4, <2>0, <2>1, <2>3, OtherWritten
<1> QED BY <1>7, <1>8

\* Programs are what they are kept for, and in memory of their own.
LEMMA ProgramContents ==
  ASSUME HandleInv, ContentsInv, NEW op, NEW size, NEW c \in get_crf_bin(op, size)
  PROVE  /\ c.m.pim = pim /\ \A q \in Pointers : c.m.store[q] = store[q]
         /\ c.m.store[c.crf] = <<op, size>>
         /\ \A k \in DOMAIN c.lut : /\ c.m.store[c.lut[k]] = k
                                    /\ c.lut[k] \notin ClientPtrs \cup ExecPtrs
         /\ \E G : Serves(c.m, Pieces, G) /\ Pointers \subseteq G
                   /\ \A k \in DOMAIN c.lut : c.lut[k] \in G
<1>1. ClientPtrs \cap CrfPtrs = {} /\ ExecPtrs \cap CrfPtrs = {}
  BY DEF HandleInv, PointersApart
<1>2. \A k \in DOMAIN crf_lut_ : crf_lut_[k] \in CrfPtrs /\ crf_lut_[k] \in Pointers
  BY DEF CrfPtrs, Pointers
<1>3. CASE KeptProgram(c, op, size)
  <2>1. c.m.pim = pim /\ c.m.store = store
    BY <1>3, MemoryFields DEF KeptProgram
  <2> QED BY <1>1, <1>2, <1>3, <2>1 DEF KeptProgram, ContentsInv
<1>4. CASE NewProgram(c, op, size)
  <2>1. PICK k0, q0 : k0 = <<op, size>> /\ q0 = c.crf
    OBVIOUS
  <2>2. /\ DOMAIN c.lut = DOMAIN crf_lut_ \cup {k0} /\ c.lut[k0] = q0
        /\ \A k \in DOMAIN crf_lut_ : c.lut[k] = crf_lut_[k]
    BY <1>4, <2>1 DEF NewProgram, With
  <2>3. /\ q0 \notin Pointers /\ c.m.store[q0] = k0 /\ c.m.pim = pim
        /\ \A q \in Pointers : c.m.store[q] = store[q]
        /\ Serves(c.m, Pieces, Pointers \cup {q0})
    BY <1>4, <2>1 DEF NewProgram
  <2>4. \A k \in DOMAIN c.lut : /\ c.m.store[c.lut[k]] = k
                                /\ c.lut[k] \notin ClientPtrs \cup ExecPtrs
                                /\ c.lut[k] \in Pointers \cup {q0}
    BY <1>1, <1>2, <2>2, <2>3 DEF ContentsInv, Pointers
  <2> QED BY <2>1, <2>3, <2>4
<1> QED BY <1>3, <1>4, Program

\* A kernel that writes a to the object out, recorded as y; of other memory it
\* may change what the executor has.
LEMMA KernelContents ==
  ASSUME HandleInv, ContentsInv, NEW op, NEW size, NEW c \in get_crf_bin(op, size),
         NEW out \in Bos, PimObject(out), NEW a, NEW y \in Data \cup {Unknown},
         y # Unknown => a = y, wrote' = [wrote EXCEPT ![PtrOf(out)] = y],
         NEW k, SameShape(c.m, k), k.pim = c.m.pim,
         \A q \in DOMAIN c.m.store : q \notin ExecPtrs => k.store[q] = c.m.store[q],
         SetMemory(Fill(k, DevView(c.m, bo[out].data), a)),
         crf_lut_' = c.lut, bo' = bo, weight_map_' = weight_map_
  PROVE  ContentsInv'
<1>1. PICK x : x = bo[out].data
  OBVIOUS
<1>2. x \in ClientPim /\ x \in Pieces /\ x.dev_addr = PtrOf(out)
  BY <1>1, ObjectServed DEF PimObject, Pieces, PtrOf
<1>3. PICK G : Serves(c.m, Pieces, G) /\ Pointers \subseteq G
               /\ \A j \in DOMAIN c.lut : c.lut[j] \in G
  BY ProgramContents
<1>4. DevView(c.m, x) = HostView(x)
  BY <1>2, <1>3, SameView
<1>5. PICK n : n = Fill(k, HostView(x), a)
  OBVIOUS
<1>6. SetMemory(n)
  BY <1>1, <1>4, <1>5
<1>7. Serves(k, Pieces, G)
  BY <1>3, ServesShape
<1>8. /\ SameShape(k, n) /\ n.store = k.store
      /\ \A v \in 0..(Units - 1) : n.pim[v] = IF v \in HostView(x) THEN a ELSE k.pim[v]
  BY <1>5, <1>7, FillShape
<1>9. c.m.pim = pim /\ \A q \in Pointers : c.m.store[q] = store[q]
  BY ProgramContents
<1>10. \A v \in 0..(Units - 1) : pim'[v] = IF v \in HostView(x) THEN a ELSE pim[v]
  BY <1>6, <1>8, <1>9 DEF SetMemory
<1>11. DOMAIN c.m.store = G
  BY <1>3 DEF Serves
<1>12. ASSUME NEW p \in ClientPtrs PROVE store'[p] = store[p]
  <2>1. p \notin ExecPtrs /\ p \in Pointers
    BY DEF HandleInv, PointersApart, Pointers
  <2> QED BY <1>3, <1>6, <1>8, <1>9, <1>11, <2>1 DEF SetMemory
<1>13. ASSUME NEW j \in DOMAIN crf_lut_' PROVE store'[crf_lut_'[j]] = j
  <2>1. /\ c.m.store[c.lut[j]] = j /\ c.lut[j] \notin ExecPtrs
    BY ProgramContents
  <2> QED BY <1>3, <1>6, <1>8, <1>11, <2>1 DEF SetMemory
<1> QED BY <1>2, <1>10, <1>12, <1>13, PimWritten

\* execute_eltwise keeps ContentsInv.
LEMMA EltwiseContents ==
  ASSUME HandleInv, ContentsInv, NEW op, NEW out \in Bos, NEW operand \in Bos,
         execute_eltwise(op, out, operand)
  PROVE  ContentsInv'
<1>1. CASE Exit
  BY <1>1, StutterContents DEF Exit
<1>2. ASSUME NEW c \in Within(get_crf_bin(op, SizeOf(out))), NEW d \in Data,
             SetMemory(Fill(c.m, DevView(c.m, bo[out].data), Computed(c, op, SizeOf(out), d))),
             crf_lut_' = c.lut, wrote' = [wrote EXCEPT ![PtrOf(out)] = d],
             UNCHANGED <<pim_initialized, bo, exec, weight_map_, exited>>, PimObject(out)
      PROVE  ContentsInv'
  <2>1. c \in get_crf_bin(op, SizeOf(out))
    BY <1>2 DEF Within
  <2>2. Computed(c, op, SizeOf(out), d) = d
    BY <2>1, ProgramContents DEF Computed
  <2>3. \E G : Serves(c.m, Pieces, G)
    BY <2>1, ProgramContents
  <2>4. SameShape(c.m, c.m)
    BY <2>3 DEF SameShape, Serves
  <2>5. PICK k : k = c.m
    OBVIOUS
  <2>6. SetMemory(Fill(k, DevView(c.m, bo[out].data), d)) /\ SameShape(c.m, k)
    BY <1>2, <2>2, <2>4, <2>5
  <2> QED BY <1>2, <2>1, <2>5, <2>6, KernelContents
<1> QED BY <1>1, <1>2 DEF execute_eltwise

\* execute_copy keeps ContentsInv.
LEMMA CopyKernelContents ==
  ASSUME HandleInv, ContentsInv, NEW out \in Bos, NEW src \in Bos, execute_copy(out, src)
  PROVE  ContentsInv'
<1>1. CASE Exit
  BY <1>1, StutterContents DEF Exit
<1>2. ASSUME NEW c \in Within(get_crf_bin("OP_COPY", SizeOf(out))),
             SetMemory(Fill(c.m, DevView(c.m, bo[out].data),
                  Computed(c, "OP_COPY", SizeOf(out),
                           Contents(c.m, DevView(c.m, bo[src].data))))),
             crf_lut_' = c.lut, wrote' = [wrote EXCEPT ![PtrOf(out)] = wrote[PtrOf(src)]],
             UNCHANGED <<pim_initialized, bo, exec, weight_map_, exited>>,
             PimObject(out), PimObject(src)
      PROVE  ContentsInv'
  <2>1. c \in get_crf_bin("OP_COPY", SizeOf(out))
    BY <1>2 DEF Within
  <2>2. PICK a, y, o : /\ a = Contents(c.m, DevView(c.m, bo[src].data))
                       /\ y = wrote[PtrOf(src)] /\ o = bo[src].data
    OBVIOUS
  <2>3. Computed(c, "OP_COPY", SizeOf(out), a) = a
    BY <2>1, ProgramContents DEF Computed
  <2>4. PICK G : Serves(c.m, Pieces, G)
    BY <2>1, ProgramContents
  <2>5. SameShape(c.m, c.m)
    BY <2>4 DEF SameShape, Serves
  <2>6. bo[src] # NoBo /\ o \in Pieces /\ o \in Piece /\ o.dev_addr = PtrOf(src)
        /\ PtrOf(src) \in Ptrs
    BY <1>2, <2>2, ObjectServed, Separate DEF PimObject, Pieces, PtrOf
  <2>7. y \in Data \cup {Unknown}
    BY <2>2, <2>6 DEF ContentsInv
  <2>8. y # Unknown => a = y
    <3>1. SUFFICES ASSUME y # Unknown PROVE a = y
      OBVIOUS
    <3>2. y \in Data /\ PimKept(o)
      BY <1>2, <2>2, <2>6, <3>1, ReadsAs
    <3>3. c.m.pim = pim
      BY <2>1, ProgramContents
    <3>4. \A v \in HostView(o) : c.m.pim[v] = y
      BY <2>2, <2>6, <3>2, <3>3 DEF PimKept
    <3>5. Contents(c.m, HostView(o)) = y
      BY <2>6, <3>2, <3>4, ContentsOf
    <3>6. DevView(c.m, o) = HostView(o)
      BY <2>4, <2>6, SameView
    <3> QED BY <2>2, <3>5, <3>6
  <2>9. PICK k : k = c.m
    OBVIOUS
  <2>10. SetMemory(Fill(k, DevView(c.m, bo[out].data), a)) /\ SameShape(c.m, k)
         /\ wrote' = [wrote EXCEPT ![PtrOf(out)] = y]
    BY <1>2, <2>2, <2>3, <2>5, <2>9
  <2> QED BY <1>2, <2>1, <2>7, <2>8, <2>9, <2>10, KernelContents
<1> QED BY <1>1, <1>2 DEF execute_copy

\* execute_bn keeps ContentsInv.
LEMMA BnContents ==
  ASSUME HandleInv, ContentsInv, NEW out \in Bos, NEW src \in Bos, execute_bn(out, src)
  PROVE  ContentsInv'
<1>1. CASE Exit
  BY <1>1, StutterContents DEF Exit
<1>2. ASSUME NEW c \in Within(get_crf_bin("OP_BN", SizeOf(out))), NEW d \in Data,
             SetMemory(Fill([c.m EXCEPT !.store[exec.srf.dev_addr] = Unknown],
                            DevView(c.m, bo[out].data),
                            Computed(c, "OP_BN", SizeOf(out), d))),
             crf_lut_' = c.lut, wrote' = [wrote EXCEPT ![PtrOf(out)] = d],
             UNCHANGED <<pim_initialized, bo, exec, weight_map_, exited>>,
             pim_initialized, PimObject(out)
      PROVE  ContentsInv'
  <2>1. c \in get_crf_bin("OP_BN", SizeOf(out))
    BY <1>2 DEF Within
  <2>2. PICK p : p = exec.srf.dev_addr
    OBVIOUS
  <2>3. PICK k : k = [c.m EXCEPT !.store[p] = Unknown]
    OBVIOUS
  <2>4. PICK G : Serves(c.m, Pieces, G) /\ Pointers \subseteq G
    BY <2>1, ProgramContents
  <2>5. p \in ExecPtrs
    BY <1>2, <2>2 DEF ExecPtrs
  <2>6. p \in G
    BY <2>4, <2>5 DEF Pointers
  <2>7. /\ SameShape(c.m, k) /\ k.pim = c.m.pim
        /\ \A q \in G : k.store[q] = IF q = p THEN Unknown ELSE c.m.store[q]
    BY <2>3, <2>4, <2>6, StoreShape
  <2>8. DOMAIN c.m.store = G
    BY <2>4 DEF Serves
  <2>9. \A q \in DOMAIN c.m.store : q \notin ExecPtrs => k.store[q] = c.m.store[q]
    BY <2>5, <2>7, <2>8
  <2>10. Computed(c, "OP_BN", SizeOf(out), d) = d
    BY <2>1, ProgramContents DEF Computed
  <2>11. SetMemory(Fill(k, DevView(c.m, bo[out].data), d))
    BY <1>2, <2>2, <2>3, <2>10
  <2> QED BY <1>2, <2>1, <2>7, <2>9, <2>11, KernelContents
<1> QED BY <1>1, <1>2 DEF execute_bn, Running

\* What the converted weight of a gemm leaves: pieces that were there are as
\* they were, and a new one holds what was converted.
LEMMA WeightContents ==
  ASSUME HandleInv, ContentsInv, NEW m, NEW G, Serves(m, Pieces, G), Pointers \subseteq G,
         NEW d \in Data, NEW p \in preloaded(m, d)
  PROVE  \E O : /\ Serves(p.m, O, G) /\ Pieces \subseteq O /\ p.m.store = m.store
                /\ p.wrote \in [Ptrs -> Data \cup {Unknown}]
                /\ weight_map_ \subseteq p.map /\ p.map \subseteq O
                /\ p.map \cap (ClientPim \cup ExecPim) = {}
                /\ \A o \in Pieces : /\ p.wrote[o.dev_addr] = wrote[o.dev_addr]
                                     /\ \A v \in HostView(o) : p.m.pim[v] = m.pim[v]
                /\ \A q \in Pointers : p.wrote[q] = wrote[q]
                /\ \A w \in p.map \ weight_map_ :
                     p.wrote[w.dev_addr] = d /\ \A v \in HostView(w) : p.m.pim[v] = d
<1>1. wrote \in [Ptrs -> Data \cup {Unknown}]
  BY DEF ContentsInv
<1>2. weight_map_ \subseteq Pieces /\ weight_map_ \cap (ClientPim \cup ExecPim) = {}
      /\ ClientPim \subseteq Pieces /\ ExecPim \subseteq Pieces
  BY DEF Pieces, HandleInv, PimApart
<1>3. CASE p.m = m /\ p.map = weight_map_ /\ p.wrote = wrote
  BY <1>1, <1>2, <1>3
<1>4. ASSUME NEW w, NewWeight(p, w, m, d, Pieces, G)
      PROVE  \E O : /\ Serves(p.m, O, G) /\ Pieces \subseteq O /\ p.m.store = m.store
                    /\ p.wrote \in [Ptrs -> Data \cup {Unknown}]
                    /\ weight_map_ \subseteq p.map /\ p.map \subseteq O
                    /\ p.map \cap (ClientPim \cup ExecPim) = {}
                    /\ \A o \in Pieces : /\ p.wrote[o.dev_addr] = wrote[o.dev_addr]
                                         /\ \A v \in HostView(o) : p.m.pim[v] = m.pim[v]
                    /\ \A q \in Pointers : p.wrote[q] = wrote[q]
                    /\ \A x \in p.map \ weight_map_ :
                         p.wrote[x.dev_addr] = d /\ \A v \in HostView(x) : p.m.pim[v] = d
  <2>1. PICK O : O = Pieces \cup {w}
    OBVIOUS
  <2>2. /\ w \in Piece /\ w \notin Pieces /\ w.dev_addr \notin Handles(Pieces) \cup G
        /\ p.map = weight_map_ \cup {w} /\ p.wrote = [wrote EXCEPT ![w.dev_addr] = d]
        /\ Serves(p.m, O, G) /\ p.m.store = m.store
        /\ \A v \in 0..(Units - 1) : p.m.pim[v] = IF v \in HostView(w) THEN d ELSE m.pim[v]
    BY <1>4, <2>1 DEF NewWeight
  <2>3. w.dev_addr \in Ptrs /\ HostView(w) \subseteq 0..(Units - 1)
    BY <2>2, PieceView
  <2>4. /\ p.wrote \in [Ptrs -> Data \cup {Unknown}] /\ p.wrote[w.dev_addr] = d
        /\ \A q \in Ptrs : q # w.dev_addr => p.wrote[q] = wrote[q]
    BY <1>1, <2>2, <2>3
  <2>5. ASSUME NEW o \in Pieces
        PROVE  /\ p.wrote[o.dev_addr] = wrote[o.dev_addr]
               /\ \A v \in HostView(o) : p.m.pim[v] = m.pim[v]
    <3>1. o.dev_addr # w.dev_addr /\ HostView(o) \cap HostView(w) = {}
      BY <2>1, <2>2 DEF Serves
    <3>2. o.dev_addr \in Ptrs /\ HostView(o) \subseteq 0..(Units - 1)
      BY Separate
    <3> QED BY <2>2, <2>4, <3>1, <3>2
  <2>6. \A q \in Pointers : p.wrote[q] = wrote[q]
    BY <2>2, <2>4, Separate
  <2>7. p.wrote[w.dev_addr] = d /\ \A v \in HostView(w) : p.m.pim[v] = d
    BY <2>2, <2>3, <2>4
  <2>8. /\ weight_map_ \subseteq p.map /\ p.map \subseteq O /\ p.map \ weight_map_ \subseteq {w}
        /\ p.map \cap (ClientPim \cup ExecPim) = {} /\ Pieces \subseteq O
    BY <1>2, <2>1, <2>2
  <2>9. \A x \in p.map \ weight_map_ :
          p.wrote[x.dev_addr] = d /\ \A v \in HostView(x) : p.m.pim[v] = d
    BY <2>7, <2>8
  <2> QED BY <2>2, <2>4, <2>5, <2>6, <2>8, <2>9
<1> QED BY <1>3, <1>4, Weight

\* execute_gemm keeps ContentsInv.
LEMMA GemmContents ==
  ASSUME HandleInv, ContentsInv, NEW out \in Bos, NEW in \in Bos, execute_gemm(out, in)
  PROVE  ContentsInv'
<1>1. CASE Exit
  BY <1>1, StutterContents DEF Exit
<1>2. ASSUME NEW c \in Within(get_crf_bin("OP_GEMV", SizeOf(in))), NEW d \in Data,
             NEW p \in preloaded(c.m, d),
             SetMemory([Fill(p.m, DevView(p.m, exec.tmp), Unknown)
                          EXCEPT !.store[PtrOf(out)] =
                                   Computed(c, "OP_GEMV", SizeOf(in), d)]),
             crf_lut_' = c.lut, weight_map_' = p.map,
             wrote' = [p.wrote EXCEPT ![PtrOf(out)] = d],
             UNCHANGED <<pim_initialized, bo, exec, exited>>, pim_initialized,
             DeviceObject(out)
      PROVE  ContentsInv'
  <2>1. c \in get_crf_bin("OP_GEMV", SizeOf(in))
    BY <1>2 DEF Within
  <2>2. PICK G : Serves(c.m, Pieces, G) /\ Pointers \subseteq G
                 /\ \A k \in DOMAIN c.lut : c.lut[k] \in G
    BY <2>1, ProgramContents
  <2>3. PICK O : /\ Serves(p.m, O, G) /\ Pieces \subseteq O /\ p.m.store = c.m.store
                 /\ p.wrote \in [Ptrs -> Data \cup {Unknown}]
                 /\ weight_map_ \subseteq p.map /\ p.map \subseteq O
                 /\ p.map \cap (ClientPim \cup ExecPim) = {}
                 /\ \A o \in Pieces : /\ p.wrote[o.dev_addr] = wrote[o.dev_addr]
                                      /\ \A v \in HostView(o) : p.m.pim[v] = c.m.pim[v]
                 /\ \A q \in Pointers : p.wrote[q] = wrote[q]
                 /\ \A w \in p.map \ weight_map_ :
                      p.wrote[w.dev_addr] = d /\ \A v \in HostView(w) : p.m.pim[v] = d
    BY <1>2, <2>2, WeightContents
  <2>4. PICK u, T : u = PtrOf(out) /\ T = exec.tmp
    OBVIOUS
  <2>5. u \in ClientPtrs /\ u \in Pointers /\ u \in G /\ T \in ExecPim /\ T \in Pieces /\ T \in O
    BY <1>2, <2>2, <2>3, <2>4, ObjectServed DEF DeviceObject, Pointers, ExecPim, Pieces
  <2>6. DevView(p.m, T) = HostView(T)
    BY <2>3, <2>5, SameView
  <2>7. Computed(c, "OP_GEMV", SizeOf(in), d) = d
    BY <2>1, ProgramContents DEF Computed
  <2>8. PICK f : f = Fill(p.m, HostView(T), Unknown)
    OBVIOUS
  <2>9. PICK n : n = [f EXCEPT !.store[u] = d]
    OBVIOUS
  <2>10. SetMemory(n)
    BY <1>2, <2>4, <2>6, <2>7, <2>8, <2>9
  <2>11. /\ SameShape(p.m, f) /\ f.store = p.m.store
         /\ \A v \in 0..(Units - 1) : f.pim[v] = IF v \in HostView(T) THEN Unknown ELSE p.m.pim[v]
    BY <2>3, <2>8, FillShape
  <2>12. Serves(f, O, G)
    BY <2>3, <2>11, ServesShape
  <2>13. /\ SameShape(f, n) /\ n.pim = f.pim
         /\ \A q \in G : n.store[q] = IF q = u THEN d ELSE f.store[q]
    <3>1. u \in G
      BY <2>5
    <3> QED BY <2>9, <2>12, <3>1, StoreShape
  <2>14. c.m.pim = pim /\ \A q \in Pointers : c.m.store[q] = store[q]
    BY <2>1, ProgramContents
  <2>15. ASSUME NEW o \in O, o # T, NEW v \in HostView(o) PROVE pim'[v] = p.m.pim[v]
    <3>1. HostView(o) \cap HostView(T) = {} /\ o \in Piece
      BY <2>3, <2>5, <2>15 DEF Serves
    <3>2. v \in 0..(Units - 1) /\ v \notin HostView(T)
      BY <3>1, PieceView
    <3> QED BY <2>10, <2>11, <2>13, <3>2 DEF SetMemory
  <2>16. \A q \in G : store'[q] = IF q = u THEN d ELSE c.m.store[q]
    BY <2>3, <2>10, <2>11, <2>13 DEF SetMemory
  <2>17. /\ wrote' \in [Ptrs -> Data \cup {Unknown}] /\ wrote'[u] = d
         /\ \A q \in Ptrs : q # u => wrote'[q] = p.wrote[q]
    <3>1. u \in Ptrs
      BY <2>5, Separate
    <3> QED BY <1>2, <2>3, <2>4, <3>1
  <2>18. \A o \in O : o.dev_addr \in Ptrs /\ o.dev_addr # u
    <3>1. O \subseteq Piece /\ G \cap Handles(O) = {}
      BY <2>3 DEF Serves
    <3> QED BY <2>5, <3>1, PieceView DEF Handles
  <2>19. ASSUME NEW o \in ClientPim \cup weight_map_
         PROVE  /\ wrote'[o.dev_addr] = wrote[o.dev_addr]
                /\ \A v \in HostView(o) : pim'[v] = pim[v]
    <3>1. o \in Pieces /\ o \in O /\ o # T
      BY <2>3, <2>5 DEF Pieces, HandleInv, PimApart
    <3> QED BY <2>3, <2>14, <2>15, <2>17, <2>18, <3>1
  <2>20. ClientPim' = ClientPim /\ ClientPtrs' = ClientPtrs
    BY <1>2, SameClient
  <2>21. ASSUME NEW o \in ClientPim, wrote'[o.dev_addr] # Unknown PROVE PimKept(o)'
    BY <2>19, <2>21 DEF ContentsInv, PimKept
  <2>22. ASSUME NEW w \in p.map PROVE wrote'[w.dev_addr] \in Data /\ PimKept(w)'
    <3>1. CASE w \in weight_map_
      BY <2>19, <3>1 DEF ContentsInv, PimKept
    <3>2. CASE w \notin weight_map_
      <4>1. w \in O /\ w # T
        BY <2>3, <2>5
      <4>2. wrote'[w.dev_addr] = d /\ \A v \in HostView(w) : pim'[v] = d
        BY <2>3, <2>15, <2>17, <2>18, <3>2, <4>1
      <4> QED BY <4>2 DEF PimKept
    <3> QED BY <3>1, <3>2
  <2>23. ASSUME NEW q \in ClientPtrs, wrote'[q] # Unknown PROVE store'[q] = wrote'[q]
    <3>1. q \in Pointers /\ q \in Ptrs /\ q \in G
      BY <2>2, Separate DEF Pointers
    <3>2. q # u => wrote'[q] = wrote[q] /\ store'[q] = store[q]
      BY <2>3, <2>14, <2>16, <2>17, <3>1
    <3>3. q = u => store'[q] = d /\ wrote'[q] = d
      BY <2>16, <2>17, <3>1
    <3> QED BY <2>23, <3>2, <3>3 DEF ContentsInv
  <2>24. ASSUME NEW k \in DOMAIN crf_lut_' PROVE store'[crf_lut_'[k]] = k
    <3>1. c.m.store[c.lut[k]] = k /\ c.lut[k] \notin ClientPtrs
      BY <1>2, <2>1, <2>24, ProgramContents
    <3> QED BY <1>2, <2>2, <2>5, <2>16, <3>1
  <2> QED BY <1>2, <2>17, <2>20, <2>21, <2>22, <2>23, <2>24 DEF ContentsInv
<1> QED BY <1>1, <1>2 DEF execute_gemm, Running

\* Every step keeps ContentsInv.
LEMMA NextContents == ASSUME HandleInv, ContentsInv, [Next]_vars PROVE ContentsInv'
<1>1. CASE UNCHANGED vars
  <2>1. UNCHANGED <<memory, handles, wrote>>
    BY <1>1 DEF vars
  <2> QED BY <2>1, StutterContents
<1>2. CASE PimInitialize
  BY <1>2, InitializeContents
<1>3. CASE PimDeinitialize
  BY <1>3, DeinitializeContents
<1>4. ASSUME NEW b \in Bos, NEW mem \in MemType, NEW size \in Sizes,
             PimCreateBo(b, mem, size) \/ PimAllocMemory(b, mem, size)
      PROVE  ContentsInv'
  BY <1>4, AllocateContents DEF PimCreateBo, PimAllocMemory
<1>5. ASSUME NEW b \in Bos, NEW r \in Bos, PimCreateBoUser(b, r) PROVE ContentsInv'
  BY <1>5, WrapContents
<1>6. ASSUME NEW b \in Bos, PimFreeMemory(b) \/ PimDestroyBoUser(b) PROVE ContentsInv'
  BY <1>6, FreeContents, UnwrapContents
<1>7. ASSUME NEW b \in Bos, NEW d \in Data, HostWrite(b, d) PROVE ContentsInv'
  BY <1>7, HostWriteContents
<1>8. ASSUME NEW dst \in Bos, NEW src \in Bos,
             \/ PimCopyMemory(dst, src) \/ execute_copy(dst, src)
             \/ execute_bn(dst, src) \/ execute_gemm(dst, src)
      PROVE  ContentsInv'
  BY <1>8, CopyContents, CopyKernelContents, BnContents, GemmContents
<1>9. ASSUME NEW op \in EltOps, NEW out \in Bos, NEW operand \in Bos,
             execute_eltwise(op, out, operand)
      PROVE  ContentsInv'
  BY <1>9, EltwiseContents
<1> QED BY <1>1, <1>2, <1>3, <1>4, <1>5, <1>6, <1>7, <1>8, <1>9 DEF Next

\* ContentsInv implies ReadsBack.
LEMMA InvReads == ASSUME HandleInv, ContentsInv PROVE ReadsBack
<1>1. ASSUME NEW b \in Bos, bo[b] # NoBo, wrote[PtrOf(b)] # Unknown
      PROVE  /\ Read(Memory, bo[b].data, bo[b].mem_type) = wrote[PtrOf(b)]
             /\ PimObject(b) =>
                  Contents(Memory, DevView(Memory, bo[b].data)) = wrote[PtrOf(b)]
  BY <1>1, ReadsAs
<1>2. ASSUME NEW w \in weight_map_
      PROVE  Contents(Memory, DevView(Memory, w)) = wrote[w.dev_addr]
  <2>1. PICK M, d : M = Memory /\ d = wrote[w.dev_addr]
    OBVIOUS
  <2>2. w \in Pieces /\ w \in Piece /\ d \in Data /\ PimKept(w)
    BY <2>1, Separate DEF Pieces, ContentsInv
  <2>3. \A v \in HostView(w) : M.pim[v] = d
    BY <2>1, <2>2, MemoryFields DEF PimKept
  <2>4. Contents(M, HostView(w)) = d
    BY <2>2, <2>3, ContentsOf
  <2>5. Serves(M, Pieces, Pointers)
    BY <2>1 DEF HandleInv
  <2>6. DevView(M, w) = HostView(w)
    BY <2>2, <2>5, SameView
  <2> QED BY <2>1, <2>4, <2>6
<1> QED BY <1>1, <1>2 DEF ReadsBack

\* ReadsBack: whatever OclMemoryManager copies and OclPimExecutor's kernels
\* write is what a buffer reads as, on the host and at its sub-buffer, whoever
\* else allocates, frees or runs in between.
THEOREM OclReadsBack == Spec => []ReadsBack
<1>1. Init => ContentsInv
  BY InitContents
<1>2. HandleInv /\ ContentsInv /\ [Next]_vars => ContentsInv'
  BY NextContents
<1>3. HandleInv /\ ContentsInv => ReadsBack
  BY InvReads
<1> QED BY <1>1, <1>2, <1>3, HandlesInvariant, PTL DEF Spec
=============================================================================
