---------------------------- MODULE PimOclMemory ----------------------------
(***************************************************************************)
(* Memory and execution over the OpenCL runtime: OclMemoryManager.cpp,     *)
(* OclBlockAllocator.cpp and OclPimExecutor.cpp below the calls of the API. *)
(*                                                                         *)
(* The PIM area is one buffer that stays mapped.  A piece of it is an      *)
(* OclBufferObj: the heap's address in the mapping, which the host copies  *)
(* to and from, and a sub-buffer at the same distance from the start, which *)
(* kernels get.  Both views of a piece, its extent in the heap and its     *)
(* sub-buffer have to be made and given back together.                     *)
(*                                                                         *)
(* The heap is what SimpleHeap is proved to implement, in units of its     *)
(* alignment.  Every operation ends with clFinish on the one queue, so a   *)
(* call is a step.  An OpenCL error ends the process (cl_ok).  A gemm that *)
(* is not for PIM returns 0 without doing anything, and is left out.       *)
(***************************************************************************)
EXTENDS Integers, FiniteSets, Functions

CONSTANTS
  Units,     \* units of the PIM area (OclBlockAllocator's block_size_)
  HostBase,  \* g_pim_base_addr: where the area is mapped, in units
  Sizes,     \* sizes clients ask for, in units
  TmpSize,   \* size of pim_gemv_tmp_buffer_
  Ptrs,      \* cl_mem handles and malloc addresses
  EltOps,    \* the elementwise operations clients call
  MaxWeights,   \* bound: converted weights kept at a time
  MaxPrograms,  \* bound: CRF programs made by one executor
  Bos,       \* the client's buffer objects and pointers
  Data,      \* contents of a buffer
  Unknown,   \* contents no call has written
  Null,      \* nullptr
  NoBo       \* a structure that is not in use

VARIABLES
  pim_initialized,
  pim_alloc_done,  \* the PIM area exists and is mapped
  heap,            \* extents the heap has handed out
  sub,             \* regions of the live sub-buffers, by cl_mem
  store,           \* contents of live device and malloc memory, by pointer
  pim,             \* contents of the PIM area, by unit
  bo,              \* what the client holds
  exec,            \* the executor's buffers
  crf_lut_,        \* device memory of the CRF programs, by operation and size
  weight_map_,     \* the converted weights PimRuntime keeps
  exited,          \* exit() was called
  wrote            \* history: what calls last wrote to a buffer, by pointer

memory == <<pim_alloc_done, heap, sub, store, pim>>
handles == <<bo, exec, crf_lut_, weight_map_>>
vars == <<pim_initialized, memory, handles, exited, wrote>>

MemType == {"PIM", "DEVICE", "HOST"}

\* OclBufferObj, and what a client has: it owns the memory, or ("user") wraps
\* raw memory that is its own.
OclBufferObj == [host_addr : Nat, dev_addr : Ptrs, size : 1..Units]
Object == [kind : {"bo", "raw", "user"}, mem_type : MemType, data : OclBufferObj]

ASSUME OclAssumption ==
  /\ Units \in Nat /\ HostBase \in Nat /\ HostBase > Units
  /\ Sizes \subseteq 1..Units /\ TmpSize \in 1..Units
  /\ Ptrs \subseteq Nat /\ Unknown \notin Data
  /\ Null \notin OclBufferObj /\ NoBo \notin Object

Region(origin, size) == origin..(origin + size - 1)

NoExec == [tmp |-> Null, srf |-> Null, zero |-> Null]

Init ==
  /\ pim_initialized = FALSE /\ pim_alloc_done = FALSE /\ exited = FALSE
  /\ heap = {} /\ sub = << >> /\ store = << >>
  /\ pim = [u \in 0..(Units - 1) |-> Unknown]
  /\ bo = [b \in Bos |-> NoBo]
  /\ exec = NoExec /\ crf_lut_ = << >> /\ weight_map_ = {}
  /\ wrote = [p \in Ptrs |-> Unknown]

\* f with the value v at x.
With(f, x, v) == [y \in DOMAIN f \cup {x} |-> IF y = x THEN v ELSE f[y]]

-----------------------------------------------------------------------------
(* External: OpenCL, malloc and the heap.                                  *)

\* A pointer not in use: the least, so that a released one is used again soon.
Fresh(used) == {p \in Ptrs \ used : \A q \in Ptrs \ used : p <= q}

\* Addresses at which the heap can serve a request: where it overlaps nothing
\* it has handed out.  The first request maps the area.
HeapAlloc(held, size) ==
  {HostBase + o : o \in {x \in 0..(Units - size) :
      \A e \in held : Region(HostBase + x, size) \cap Region(e.base, e.size) = {}}}

-----------------------------------------------------------------------------
(* OclMemoryManager.                                                       *)

\* Mutant of SubBufferRegion: the sub-buffer starts where the area does.
SubBufferRegion_start(local_buffer, size) == [origin |-> 0, size |-> size]

\* sub_buffer_region: the distance of the heap's address from the area's start.
SubBufferRegion(local_buffer, size) ==
  [origin |-> local_buffer - HostBase, size |-> size]

\* alloc_memory when the heap serves address a and OpenCL the handle p: the area
\* is mapped, the extent and the sub-buffer exist.
PimAllocated(m, a, p, size) ==
  [m EXCEPT !.pim_alloc_done = TRUE,
            !.heap = @ \cup {[base |-> a, size |-> size]},
            !.sub = With(@, p, SubBufferRegion(a, size)),
            !.data = [host_addr |-> a, dev_addr |-> p, size |-> size]]

\* DEVICE and HOST memory.
Allocated(m, p, size) ==
  [m EXCEPT !.store = With(@, p, Unknown),
            !.data = [host_addr |-> 0, dev_addr |-> p, size |-> size]]

\* What alloc_memory of type mem can yield in memory m, a record of the
\* memory variables.  None: an OpenCL error, and the process ends.  For PIM that
\* is also a heap without room, whose null is at no valid distance.
alloc_memory(m, mem, size) ==
  LET free == Fresh(DOMAIN m.sub \cup DOMAIN m.store) IN
  IF mem = "PIM"
    THEN {PimAllocated(m, a, p, size) : a \in HeapAlloc(m.heap, size), p \in free}
    ELSE {Allocated(m, p, size) : p \in free}

\* The units of a piece of the PIM area, as the host and as a kernel sees it.
HostView(data) == Region(data.host_addr - HostBase, data.size)
DevView(m, data) == Region(m.sub[data.dev_addr].origin, m.sub[data.dev_addr].size)

\* What units hold, if it is all the same.
Contents(m, units) ==
  IF \E d \in Data : \A u \in units : m.pim[u] = d
    THEN CHOOSE d \in Data : \A u \in units : m.pim[u] = d ELSE Unknown

Fill(m, units, d) ==
  [m EXCEPT !.pim = [u \in DOMAIN m.pim |-> IF u \in units THEN d ELSE m.pim[u]]]

\* Mutant of free_memory: the sub-buffer is not released.
free_memory_unreleased(m, data, mem) ==
  IF mem = "PIM"
    THEN [m EXCEPT !.heap = {e \in @ : e.base # data.host_addr}]
    ELSE [m EXCEPT !.store = Restrict(@, DOMAIN @ \ {data.dev_addr})]

\* free_memory: the extent goes back to the heap, the sub-buffer is released.
\* What memory holds that nobody owns is not kept track of.
free_memory(m, data, mem) ==
  IF mem = "PIM"
    THEN [Fill(m, HostView(data), Unknown)
            EXCEPT !.heap = {e \in @ : e.base # data.host_addr},
                   !.sub = Restrict(@, DOMAIN @ \ {data.dev_addr})]
    ELSE [m EXCEPT !.store = Restrict(@, DOMAIN @ \ {data.dev_addr})]

\* The memory variables as a record, with room for alloc_memory's pointer.
Memory == [pim_alloc_done |-> pim_alloc_done, heap |-> heap, sub |-> sub,
           store |-> store, pim |-> pim, data |-> Null]
SetMemory(m) ==
  /\ pim_alloc_done' = m.pim_alloc_done /\ heap' = m.heap /\ sub' = m.sub
  /\ store' = m.store /\ pim' = m.pim

\* cl_ok: the process ends.
Exit ==
  /\ exited' = TRUE
  /\ UNCHANGED <<pim_initialized, memory, handles, wrote>>

\* The cl_mem or malloc address behind a buffer.
PtrOf(b) == bo[b].data.dev_addr
SizeOf(b) == bo[b].data.size

\* copy_memory: PIM memory is read and written at its address on the host, by
\* memcpy or by a transfer that waits; DEVICE memory through the queue.
Read(m, data, mem) ==
  IF mem = "PIM" THEN Contents(m, HostView(data)) ELSE m.store[data.dev_addr]
Write(m, data, mem, d) ==
  IF mem = "PIM" THEN Fill(m, HostView(data), d)
                 ELSE [m EXCEPT !.store[data.dev_addr] = d]

-----------------------------------------------------------------------------
(* Lifecycle.                                                              *)

Alive == ~exited
Running == ~exited /\ pim_initialized

\* The executor's initialize(): two device buffers and the gemv buffer.
PimInitialize ==
  /\ Alive /\ ~pim_initialized
  /\ LET srf == alloc_memory(Memory, "DEVICE", 1)
         zero == UNION {alloc_memory(m, "DEVICE", 1) : m \in srf}
         tmp == UNION {alloc_memory(m, "PIM", TmpSize) : m \in zero}
     IN \/ tmp = {} /\ Exit
        \/ /\ \E m1 \in srf : \E m2 \in alloc_memory(m1, "DEVICE", 1) :
                \E m3 \in alloc_memory(m2, "PIM", TmpSize) :
                  /\ SetMemory(m3)
                  /\ exec' = [srf |-> m1.data, zero |-> m2.data, tmp |-> m3.data]
           /\ pim_initialized' = TRUE
           /\ UNCHANGED <<bo, crf_lut_, weight_map_, exited, wrote>>

\* What is left when the converted weights, the executor's buffers and, with
\* the executor, its CRF programs are freed.
Released(lut) ==
  LET ptrs == {w.dev_addr : w \in weight_map_} \cup {exec.tmp.dev_addr}
      devs == {exec.srf.dev_addr, exec.zero.dev_addr} \cup Range(lut)
      bases == {w.host_addr : w \in weight_map_} \cup {exec.tmp.host_addr}
  IN [Fill(Memory, UNION {HostView(o) : o \in weight_map_ \cup {exec.tmp}}, Unknown)
        EXCEPT !.heap = {e \in @ : e.base \notin bases},
               !.sub = Restrict(@, DOMAIN @ \ ptrs),
               !.store = Restrict(@, DOMAIN @ \ devs)]

\* Mutant of PimDeinitialize: the programs are kept for the next executor.
PimDeinitialize_lut ==
  /\ Running
  /\ SetMemory(Released(<< >>))
  /\ pim_initialized' = FALSE
  /\ exec' = NoExec /\ weight_map_' = {}
  /\ UNCHANGED <<bo, crf_lut_, exited, wrote>>

PimDeinitialize ==
  /\ Running
  /\ SetMemory(Released(crf_lut_))
  /\ pim_initialized' = FALSE
  /\ exec' = NoExec /\ crf_lut_' = << >> /\ weight_map_' = {}
  /\ wrote' = [p \in Ptrs |-> IF p \in {w.dev_addr : w \in weight_map_}
                                THEN Unknown ELSE wrote[p]]
  /\ UNCHANGED <<bo, exited>>

-----------------------------------------------------------------------------
(* Buffer objects and raw memory.                                          *)

\* PimCreateBo and PimAllocMemory(PimBo* ): kind "bo"; PimAllocMemory(void** ):
\* kind "raw".
Allocate(b, kind, mem, size) ==
  /\ Running /\ bo[b] = NoBo
  /\ LET outs == alloc_memory(Memory, mem, size)
     IN \/ outs = {} /\ mem # "HOST" /\ Exit
        \/ \E m \in outs :
             /\ SetMemory(m)
             /\ bo' = [bo EXCEPT ![b] = [kind |-> kind, mem_type |-> mem,
                                         data |-> m.data]]
             /\ wrote' = [wrote EXCEPT ![m.data.dev_addr] = Unknown]
             /\ UNCHANGED <<pim_initialized, exec, crf_lut_, weight_map_, exited>>

PimCreateBo(b, mem, size) == Allocate(b, "bo", mem, size)
PimAllocMemory(b, mem, size) == Allocate(b, "raw", mem, size)

\* PimCreateBo around memory of the client.
PimCreateBoUser(b, r) ==
  /\ Running /\ bo[b] = NoBo /\ bo[r] # NoBo /\ bo[r].kind = "raw"
  /\ bo' = [bo EXCEPT ![b] = [bo[r] EXCEPT !.kind = "user"]]
  /\ UNCHANGED <<pim_initialized, memory, exec, crf_lut_, weight_map_>>
  /\ UNCHANGED <<exited, wrote>>

\* Memory a buffer object is made around is freed after that object.
Unwrapped(b) ==
  \A c \in Bos : bo[c] # NoBo /\ bo[c].kind = "user" => PtrOf(c) # PtrOf(b)

\* PimFreeMemory and PimDestroyBo of what owns its memory.
PimFreeMemory(b) ==
  /\ Running /\ bo[b] # NoBo /\ bo[b].kind # "user" /\ Unwrapped(b)
  /\ SetMemory(free_memory(Memory, bo[b].data, bo[b].mem_type))
  /\ bo' = [bo EXCEPT ![b] = NoBo]
  /\ wrote' = [wrote EXCEPT ![PtrOf(b)] = Unknown]
  /\ UNCHANGED <<pim_initialized, exec, crf_lut_, weight_map_, exited>>

\* PimDestroyBo of an object around user memory leaves the memory alone.
PimDestroyBoUser(b) ==
  /\ Running /\ bo[b] # NoBo /\ bo[b].kind = "user"
  /\ bo' = [bo EXCEPT ![b] = NoBo]
  /\ UNCHANGED <<pim_initialized, memory, exec, crf_lut_, weight_map_>>
  /\ UNCHANGED <<exited, wrote>>

\* The client fills memory of its own.
HostWrite(b, d) ==
  /\ Alive /\ bo[b] # NoBo /\ bo[b].mem_type = "HOST"
  /\ store' = [store EXCEPT ![PtrOf(b)] = d]
  /\ wrote' = [wrote EXCEPT ![PtrOf(b)] = d]
  /\ UNCHANGED <<pim_initialized, pim_alloc_done, heap, sub, pim, handles, exited>>

\* PimCopyMemory but for PIM_TO_PIM, which is a kernel: dst->size units, here no
\* more than the source has.
PimCopyMemory(dst, src) ==
  /\ Running /\ bo[dst] # NoBo /\ bo[src] # NoBo
  /\ PtrOf(dst) # PtrOf(src) /\ SizeOf(dst) <= SizeOf(src)
  /\ ~(bo[dst].mem_type = "PIM" /\ bo[src].mem_type = "PIM")
  /\ SetMemory(Write(Memory, bo[dst].data, bo[dst].mem_type,
                     Read(Memory, bo[src].data, bo[src].mem_type)))
  /\ wrote' = [wrote EXCEPT ![PtrOf(dst)] = wrote[PtrOf(src)]]
  /\ UNCHANGED <<pim_initialized, handles, exited>>

-----------------------------------------------------------------------------
(* OclPimExecutor: a kernel gets sub-buffers and is waited for.            *)

\* get_crf_bin: the program for an operation and a size, made when needed.
get_crf_bin(op, size) ==
  IF <<op, size>> \in DOMAIN crf_lut_
    THEN {[m |-> Memory, lut |-> crf_lut_, crf |-> crf_lut_[<<op, size>>]]}
    ELSE {[m |-> [m EXCEPT !.store[m.data.dev_addr] = <<op, size>>],
           lut |-> With(crf_lut_, <<op, size>>, m.data.dev_addr),
           crf |-> m.data.dev_addr] :
             m \in alloc_memory(Memory, "DEVICE", 1)}

\* The bound on programs.
Within(crfs) == {c \in crfs : Cardinality(DOMAIN c.lut) <= MaxPrograms}

PimObject(b) == bo[b] # NoBo /\ bo[b].mem_type = "PIM"
DeviceObject(b) == bo[b] # NoBo /\ bo[b].mem_type = "DEVICE"

\* A kernel computes the operation it was called for only with that program.
Computed(c, op, size, d) == IF c.m.store[c.crf] = <<op, size>> THEN d ELSE Unknown

\* execute_eltwise and execute_relu: any result d, at the output's sub-buffer.
execute_eltwise(op, out, operand) ==
  /\ Running /\ PimObject(out) /\ PimObject(operand) /\ SizeOf(out) = SizeOf(operand)
  /\ LET crfs == get_crf_bin(op, SizeOf(out))
     IN \/ crfs = {} /\ Exit
        \/ \E c \in Within(crfs), d \in Data :
             /\ SetMemory(Fill(c.m, DevView(c.m, bo[out].data),
                               Computed(c, op, SizeOf(out), d)))
             /\ crf_lut_' = c.lut
             /\ wrote' = [wrote EXCEPT ![PtrOf(out)] = d]
             /\ UNCHANGED <<pim_initialized, bo, exec, weight_map_, exited>>

\* execute_copy, also PimCopyMemory of PIM_TO_PIM: what the kernel reads.
execute_copy(out, src) ==
  /\ Running /\ PimObject(out) /\ PimObject(src) /\ SizeOf(out) = SizeOf(src)
  /\ LET crfs == get_crf_bin("OP_COPY", SizeOf(out))
     IN \/ crfs = {} /\ Exit
        \/ \E c \in Within(crfs) :
             /\ SetMemory(Fill(c.m, DevView(c.m, bo[out].data),
                  Computed(c, "OP_COPY", SizeOf(out),
                           Contents(c.m, DevView(c.m, bo[src].data)))))
             /\ crf_lut_' = c.lut
             /\ wrote' = [wrote EXCEPT ![PtrOf(out)] =
                                         wrote[PtrOf(src)]]
             /\ UNCHANGED <<pim_initialized, bo, exec, weight_map_, exited>>

\* execute_bn: its scalars go to d_srf_bin_buffer_ first.
execute_bn(out, src) ==
  /\ Running /\ PimObject(out) /\ PimObject(src) /\ SizeOf(out) = SizeOf(src)
  /\ LET crfs == get_crf_bin("OP_BN", SizeOf(out))
     IN \/ crfs = {} /\ Exit
        \/ \E c \in Within(crfs), d \in Data :
             /\ SetMemory(Fill([c.m EXCEPT !.store[exec.srf.dev_addr] = Unknown],
                               DevView(c.m, bo[out].data),
                               Computed(c, "OP_BN", SizeOf(out), d)))
             /\ crf_lut_' = c.lut
             /\ wrote' = [wrote EXCEPT ![PtrOf(out)] = d]
             /\ UNCHANGED <<pim_initialized, bo, exec, weight_map_, exited>>

\* get_preloaded_pim_gemm_weight: a weight kept already, or a conversion of it,
\* copied to new PIM memory and kept.
preloaded(m, d) ==
  {[m |-> m, w |-> w, map |-> weight_map_, wrote |-> wrote] : w \in weight_map_}
  \cup {[m |-> Write(n, n.data, "PIM", d), w |-> n.data,
         map |-> weight_map_ \cup {n.data},
         wrote |-> [wrote EXCEPT ![n.data.dev_addr] = d]] :
          n \in {x \in alloc_memory(m, "PIM", 1) :
                   Cardinality(weight_map_) < MaxWeights}}

\* execute_gemm on PIM, either layout: partial sums go to the gemv buffer, the
\* result to device memory.
execute_gemm(out, in) ==
  /\ Running /\ DeviceObject(out) /\ DeviceObject(in) /\ PtrOf(out) # PtrOf(in)
  /\ LET crfs == get_crf_bin("OP_GEMV", SizeOf(in))
     IN \/ (\A c \in crfs : alloc_memory(c.m, "PIM", 1) = {}) /\ Exit
        \/ \E c \in Within(crfs), d \in Data : \E p \in preloaded(c.m, d) :
             /\ SetMemory([Fill(p.m, DevView(p.m, exec.tmp), Unknown)
                             EXCEPT !.store[PtrOf(out)] =
                                      Computed(c, "OP_GEMV", SizeOf(in), d)])
             /\ crf_lut_' = c.lut /\ weight_map_' = p.map
             /\ wrote' = [p.wrote EXCEPT ![PtrOf(out)] = d]
             /\ UNCHANGED <<pim_initialized, bo, exec, exited>>

Next ==
  \/ PimInitialize
  \/ PimDeinitialize
  \/ \E b \in Bos, mem \in MemType, size \in Sizes :
       PimCreateBo(b, mem, size) \/ PimAllocMemory(b, mem, size)
  \/ \E b, r \in Bos : PimCreateBoUser(b, r)
  \/ \E b \in Bos : PimFreeMemory(b) \/ PimDestroyBoUser(b)
  \/ \E b \in Bos, d \in Data : HostWrite(b, d)
  \/ \E dst, src \in Bos : PimCopyMemory(dst, src) \/ execute_copy(dst, src)
                           \/ execute_bn(dst, src) \/ execute_gemm(dst, src)
  \/ \E op \in EltOps, out, operand \in Bos :
       execute_eltwise(op, out, operand)

Spec == Init /\ [][Next]_vars

-----------------------------------------------------------------------------
(* Properties.                                                             *)

\* OclBufferObjs in use: the client's, the executor's and the kept weights.
PimOwned ==
  {bo[b].data : b \in {c \in Bos : PimObject(c) /\ bo[c].kind # "user"}}
  \cup weight_map_ \cup ({exec.tmp} \ {Null})

\* Other memory in use.
OtherOwners ==
  {<<"bo", b>> : b \in {c \in Bos : bo[c] # NoBo /\ bo[c].mem_type # "PIM"
                                    /\ bo[c].kind # "user"}}
  \cup {<<"crf", k>> : k \in DOMAIN crf_lut_}
  \cup {<<"exec", f>> : f \in {g \in {"srf", "zero"} : exec[g] # Null}}
Holds(o) ==
  CASE o[1] = "bo" -> PtrOf(o[2])
    [] o[1] = "crf" -> crf_lut_[o[2]]
    [] o[1] = "exec" -> exec[o[2]].dev_addr

\* Types of the state; no runtime, nothing of the runtime's own; and an area is
\* mapped when something is in it.
TypeOK ==
  /\ pim_initialized \in BOOLEAN /\ exited \in BOOLEAN
  /\ DOMAIN sub \cap DOMAIN store = {} /\ DOMAIN sub \cup DOMAIN store \subseteq Ptrs
  /\ \A p \in DOMAIN sub : Region(sub[p].origin, sub[p].size) \subseteq 0..(Units - 1)
  /\ ~pim_initialized => exec = NoExec /\ crf_lut_ = << >> /\ weight_map_ = {}
  /\ heap # {} => pim_alloc_done

\* OpenCL objects, extents of the heap and owners correspond one to one: no
\* object and no extent is lost and none is released while in use, across
\* initializations, failures and objects around user memory.
HandlesExact ==
  /\ DOMAIN sub = {o.dev_addr : o \in PimOwned}
  /\ heap = {[base |-> o.host_addr, size |-> o.size] : o \in PimOwned}
  /\ \A o, p \in PimOwned :
       o.dev_addr = p.dev_addr \/ o.host_addr = p.host_addr => o = p
  /\ DOMAIN store = {Holds(o) : o \in OtherOwners}
  /\ \A o, p \in OtherOwners : Holds(o) = Holds(p) => o = p

\* Every buffer holds what calls last wrote to it, at its address on the host
\* and at its sub-buffer alike, whichever of the two it was written through: no
\* copy, kernel, conversion or partial sum of another call touches it.
ReadsBack ==
  /\ \A b \in Bos : bo[b] # NoBo =>
       LET v == wrote[PtrOf(b)]
       IN v # Unknown =>
            /\ Read(Memory, bo[b].data, bo[b].mem_type) = v
            /\ PimObject(b) => Contents(Memory, DevView(Memory, bo[b].data)) = v
  /\ \A w \in weight_map_ : Contents(Memory, DevView(Memory, w)) = wrote[w.dev_addr]
=============================================================================
