----------------------------- MODULE PimMemory ------------------------------
(***************************************************************************)
(* The API's memory and lifecycle calls over the HIP runtime:              *)
(* pim_runtime_api.cpp, PimRuntime.cpp, PimManager.cpp and                 *)
(* HipMemoryManager.cpp, with the buffers HipPimExecutor keeps for itself. *)
(*                                                                         *)
(* One action per API call, the whole call chain below it included.  The   *)
(* per-device heaps (fragment_allocator_) appear as what SimpleHeap is     *)
(* proved to implement: alloc() gives a chunk of the device nobody holds   *)
(* or null, free() succeeds exactly for a chunk that is held.  hipMalloc,  *)
(* hipHostMalloc and hipFree are external.                                 *)
(*                                                                         *)
(* The client calls in any order, with handles it owns: it destroys what   *)
(* PimCreateBo gave it, and calls PimFreeMemory for what PimAllocMemory    *)
(* gave it, once each.                                                     *)
(***************************************************************************)
EXTENDS Integers, FiniteSets

CONSTANTS
  Devices,   \* ids of the HIP devices
  Slots,     \* a device's heap hands out one chunk per slot
  HipPtrs,   \* pointers hipMalloc and hipHostMalloc can return
  Bos,       \* PimBo structures of the client
  Null,      \* nullptr
  NoBo       \* a structure that is not in use

VARIABLES
  pim_initialized,  \* pim_initialized; pim_runtime # nullptr
  device,           \* the current HIP device
  heap,             \* PIM chunks the heaps have handed out
  hip,              \* HIP memory in use
  bo,               \* the client's buffer objects
  raw,              \* [ptr, mem] the client got from PimAllocMemory(void**)
  exec,             \* the executor's buffers, by member name
  weight_map_,      \* memory of the converted weights PimRuntime keeps
  call              \* the last call: its name, its result, and its handle

memory == <<heap, hip>>
handles == <<bo, raw, exec, weight_map_>>
vars == <<pim_initialized, device, memory, handles, call>>

\* A PIM chunk is a slot of a device's block.
PimPtrs == Devices \X Slots
Ptrs == PimPtrs \cup HipPtrs
MemType == {"PIM", "DEVICE", "HOST"}
ExecBuffer == {"d_srf_bin_buffer_", "zero_buffer_", "pim_gemv_tmp_buffer_"}
PimBo == [mem_type : MemType, data : Ptrs \cup {Null}, use_user_ptr : BOOLEAN]

\* Addresses of the heaps' blocks and of HIP memory differ, and none is null.
ASSUME PointerAssumption ==
  PimPtrs \cap HipPtrs = {} /\ Null \notin Ptrs /\ NoBo \notin PimBo

NoExec == [m \in ExecBuffer |-> Null]

Init ==
  /\ pim_initialized = FALSE
  /\ device \in Devices
  /\ heap = {} /\ hip = {}
  /\ bo = [b \in Bos |-> NoBo]
  /\ raw = {}
  /\ exec = NoExec /\ weight_map_ = {}
  /\ call = [op |-> "none", ret |-> 0, ptr |-> Null]

-----------------------------------------------------------------------------
(* HipMemoryManager and the heaps.                                         *)

\* Mutant of HeapAlloc: a chunk in use can be given again.
HeapAlloc_used(d) == ({d} \X Slots) \cup {Null}

\* fragment_allocator_[d]->alloc(): any free chunk of d, or null: full, too
\* fragmented, or a request larger than a block.
HeapAlloc(d) == (({d} \X Slots) \ heap) \cup {Null}

\* alloc_memory: the possible outcomes of a request of type mem.  The PIM
\* branch returns 0 whatever the heap returned; hipMalloc may fail.
alloc_memory(mem) ==
  IF mem = "PIM"
    THEN {[ptr |-> p, ret |-> 0, heap |-> heap \cup ({p} \ {Null}),
           hip |-> hip] : p \in HeapAlloc(device)}
    ELSE {[ptr |-> p, ret |-> 0, heap |-> heap, hip |-> hip \cup {p}] :
            p \in HipPtrs \ hip}
         \cup {[ptr |-> Null, ret |-> -1, heap |-> heap, hip |-> hip]}

\* Mutant of HeapFrees: null is not accepted.
HeapFrees_noNull(p) == p \in heap /\ p[1] = device

\* fragment_allocator_[device]->free(): of the current device's heap.
HeapFrees(p) == p = Null \/ (p \in heap /\ p[1] = device)

\* What free_memory(ptr, mem) leaves of the heaps and of HIP's memory.
HeapAfter(p, mem) == IF mem = "PIM" /\ HeapFrees(p) THEN heap \ {p} ELSE heap
HipAfter(p, mem) == IF mem = "PIM" THEN hip ELSE hip \ {p}

\* free_memory(void*): for PIM the bool of the heap's free() is returned.
free_memory_ret(p, mem) ==
  IF mem = "PIM" THEN (IF HeapFrees(p) THEN 1 ELSE 0) ELSE 0

\* free_memory(PimBo*): the same bool, translated.
free_bo_ret(b) ==
  IF bo[b].use_user_ptr \/ bo[b].mem_type # "PIM" \/ HeapFrees(bo[b].data)
    THEN 0 ELSE -1

Returns(op, r, p) == call' = [op |-> op, ret |-> r, ptr |-> p]

-----------------------------------------------------------------------------
(* Lifecycle.  The manager and its heaps are a process-wide singleton: they *)
(* outlive PimDeinitialize.                                                *)

\* hipMalloc's results are not looked at.
PimInitialize ==
  \/ /\ pim_initialized
     /\ Returns("PimInitialize", 0, Null)
     /\ UNCHANGED <<pim_initialized, device, memory, handles>>
  \/ /\ ~pim_initialized
     /\ pim_initialized' = TRUE
     /\ \E p, q \in (HipPtrs \ hip) \cup {Null}, out \in alloc_memory("PIM") :
          /\ p # q \/ p = Null
          /\ exec' = [exec EXCEPT !["d_srf_bin_buffer_"] = p,
                                  !["zero_buffer_"] = q,
                                  !["pim_gemv_tmp_buffer_"] = out.ptr]
          /\ heap' = out.heap
          /\ hip' = hip \cup ({p, q} \ {Null})
     /\ Returns("PimInitialize", 0, Null)
     /\ UNCHANGED <<device, bo, raw, weight_map_>>

\* A deinitialization that leaves heapAfter and drops the runtime object with
\* its executor and its weight map.
Teardown(heapAfter) ==
  /\ pim_initialized
  /\ pim_initialized' = FALSE
  /\ hip' = hip \ {exec["d_srf_bin_buffer_"], exec["zero_buffer_"]}
  /\ heap' = heapAfter
  /\ exec' = NoExec
  /\ weight_map_' = {}
  /\ Returns("PimDeinitialize", 0, Null)
  /\ UNCHANGED <<device, bo, raw>>

\* The heap after free_memory of every converted weight and of the gemv buffer,
\* each through the heap of the current device.
AfterDeinitialize ==
  {p \in heap : HeapFrees(p) =>
                  p \notin weight_map_ \cup {exec["pim_gemv_tmp_buffer_"]}}

\* Mutant of PimDeinitialize: the heaps are torn down with the runtime.
PimDeinitialize_heaps == Teardown({})

\* Mutant of PimDeinitialize: the converted weights are not freed.
PimDeinitialize_weights == Teardown(HeapAfter(exec["pim_gemv_tmp_buffer_"], "PIM"))

\* Mutant of PimDeinitialize: the runtime object is kept.
PimDeinitialize_kept ==
  /\ pim_initialized
  /\ pim_initialized' = FALSE
  /\ hip' = hip \ {exec["d_srf_bin_buffer_"], exec["zero_buffer_"]}
  /\ heap' = AfterDeinitialize
  /\ Returns("PimDeinitialize", 0, Null)
  /\ UNCHANGED <<device, handles>>

PimDeinitialize ==
  \/ /\ ~pim_initialized
     /\ Returns("PimDeinitialize", 0, Null)
     /\ UNCHANGED <<pim_initialized, device, memory, handles>>
  \/ Teardown(AfterDeinitialize)

PimSetDevice(d) ==
  /\ IF pim_initialized
       THEN device' = d /\ Returns("PimSetDevice", 0, Null)
       ELSE device' = device /\ Returns("PimSetDevice", -1, Null)
  /\ UNCHANGED <<pim_initialized, memory, handles>>

\* Every other call returns -1 or null at once when there is no runtime.
NotInitialized(op) ==
  /\ ~pim_initialized
  /\ Returns(op, -1, Null)
  /\ UNCHANGED <<pim_initialized, device, memory, handles>>

-----------------------------------------------------------------------------
(* Buffer objects and raw memory.                                          *)

\* PimCreateBo without user_ptr.  A failed allocation gives no object.
PimCreateBo(b, mem) ==
  /\ pim_initialized /\ bo[b] = NoBo
  /\ \E out \in alloc_memory(mem) :
       /\ heap' = out.heap /\ hip' = out.hip
       /\ bo' = IF out.ret # 0 THEN bo
                ELSE [bo EXCEPT ![b] = [mem_type |-> mem, data |-> out.ptr,
                                        use_user_ptr |-> FALSE]]
       /\ Returns("PimCreateBo", out.ret, out.ptr)
  /\ UNCHANGED <<pim_initialized, device, raw, exec, weight_map_>>

\* PimCreateBo around memory the client holds.
PimCreateBoUser(b, r) ==
  /\ pim_initialized /\ bo[b] = NoBo
  /\ bo' = [bo EXCEPT ![b] = [mem_type |-> r.mem, data |-> r.ptr,
                              use_user_ptr |-> TRUE]]
  /\ Returns("PimCreateBo", 0, r.ptr)
  /\ UNCHANGED <<pim_initialized, device, memory, raw, exec, weight_map_>>

\* The object is deleted only when its memory could be freed.
PimDestroyBo(b) ==
  /\ pim_initialized /\ bo[b] # NoBo
  /\ LET owned == ~bo[b].use_user_ptr
         r     == free_bo_ret(b)
     IN  /\ heap' = IF owned THEN HeapAfter(bo[b].data, bo[b].mem_type) ELSE heap
         /\ hip' = IF owned THEN HipAfter(bo[b].data, bo[b].mem_type) ELSE hip
         /\ bo' = IF r = 0 THEN [bo EXCEPT ![b] = NoBo] ELSE bo
         /\ Returns("PimDestroyBo", r, bo[b].data)
  /\ UNCHANGED <<pim_initialized, device, raw, exec, weight_map_>>

\* PimAllocMemory(PimBo*): a structure of the client's own; here null data is
\* reported.
PimAllocMemoryBo(b, mem) ==
  /\ pim_initialized /\ bo[b] = NoBo
  /\ \E out \in alloc_memory(mem) :
       /\ heap' = out.heap /\ hip' = out.hip
       /\ bo' = IF out.ptr = Null THEN bo
                ELSE [bo EXCEPT ![b] = [mem_type |-> mem, data |-> out.ptr,
                                        use_user_ptr |-> FALSE]]
       /\ Returns("PimAllocMemory", IF out.ptr = Null THEN -1 ELSE out.ret, out.ptr)
  /\ UNCHANGED <<pim_initialized, device, raw, exec, weight_map_>>

\* PimFreeMemory(PimBo*): the client drops the structure after a success.
PimFreeMemoryBo(b) ==
  /\ pim_initialized /\ bo[b] # NoBo /\ ~bo[b].use_user_ptr
  /\ heap' = HeapAfter(bo[b].data, bo[b].mem_type)
  /\ hip' = HipAfter(bo[b].data, bo[b].mem_type)
  /\ bo' = IF free_bo_ret(b) = 0 THEN [bo EXCEPT ![b] = NoBo] ELSE bo
  /\ Returns("PimFreeMemoryBo", free_bo_ret(b), bo[b].data)
  /\ UNCHANGED <<pim_initialized, device, raw, exec, weight_map_>>

\* The check of ptr afterwards looks at the argument, not at what it points to.
PimAllocMemory(mem) ==
  /\ pim_initialized
  /\ \E out \in alloc_memory(mem) :
       /\ heap' = out.heap /\ hip' = out.hip
       /\ raw' = IF out.ptr = Null THEN raw
                 ELSE raw \cup {[ptr |-> out.ptr, mem |-> mem]}
       /\ Returns("PimAllocMemory", out.ret, out.ptr)
  /\ UNCHANGED <<pim_initialized, device, bo, exec, weight_map_>>

\* The client keeps the pointer when nothing was freed.
PimFreeMemory(r) ==
  /\ pim_initialized
  /\ heap' = HeapAfter(r.ptr, r.mem)
  /\ hip' = HipAfter(r.ptr, r.mem)
  /\ raw' = IF r.mem = "PIM" /\ ~HeapFrees(r.ptr) THEN raw ELSE raw \ {r}
  /\ Returns("PimFreeMemory", free_memory_ret(r.ptr, r.mem), r.ptr)
  /\ UNCHANGED <<pim_initialized, device, bo, exec, weight_map_>>

\* A client frees user memory only when no buffer object wraps it any more.
Unwrapped(r) == \A b \in Bos : bo[b] # NoBo => bo[b].data # r.ptr

\* A gemm, or a conversion that saves its result, on a weight that was not
\* converted before: get_preloaded_pim_gemm_weight makes a PIM buffer object and
\* keeps it.  Its three HOST buffers are gone when it returns; WeightCache
\* models the lookup.
PreloadWeight ==
  /\ pim_initialized
  /\ \E out \in alloc_memory("PIM") :
       /\ heap' = out.heap
       /\ weight_map_' = weight_map_ \cup {out.ptr}
       /\ Returns("PreloadWeight", 0, out.ptr)
  /\ UNCHANGED <<pim_initialized, device, hip, bo, raw, exec>>

Next ==
  \/ PimInitialize
  \/ PimDeinitialize
  \/ \E d \in Devices : PimSetDevice(d)
  \/ \E op \in {"PimCreateBo", "PimDestroyBo", "PimAllocMemory",
                "PimFreeMemory"} : NotInitialized(op)
  \/ \E b \in Bos, mem \in MemType : PimCreateBo(b, mem)
  \/ \E b \in Bos, r \in raw : PimCreateBoUser(b, r)
  \/ \E b \in Bos : PimDestroyBo(b)
  \/ \E b \in Bos, mem \in MemType : PimAllocMemoryBo(b, mem)
  \/ \E b \in Bos : PimFreeMemoryBo(b)
  \/ \E mem \in MemType : PimAllocMemory(mem)
  \/ \E r \in {s \in raw : Unwrapped(s)} : PimFreeMemory(r)
  \/ PreloadWeight

Spec == Init /\ [][Next]_vars

-----------------------------------------------------------------------------
(* Properties.                                                             *)

\* Handles that own memory: buffer objects that allocated it, raw pointers, the
\* executor's buffers and the converted weights, each with its memory.
BoOwners ==
  {<<"bo", b>> : b \in {c \in Bos : bo[c] # NoBo /\ ~bo[c].use_user_ptr}}
RawOwners == {<<"raw", r>> : r \in raw}
ExecOwners == {<<"exec", m>> : m \in ExecBuffer}
WeightOwners == {<<"weight", p>> : p \in weight_map_}
Owners == BoOwners \cup RawOwners \cup ExecOwners \cup WeightOwners

Holds(o) ==
  CASE o[1] = "bo"   -> bo[o[2]].data
    [] o[1] = "raw"  -> o[2].ptr
    [] o[1] = "exec" -> exec[o[2]]
    [] o[1] = "weight" -> o[2]

\* Types of the state, and no runtime, nothing of the runtime's own.
TypeOK ==
  /\ pim_initialized \in BOOLEAN /\ device \in Devices
  /\ heap \subseteq PimPtrs /\ hip \subseteq HipPtrs
  /\ bo \in [Bos -> PimBo \cup {NoBo}]
  /\ raw \subseteq [ptr : Ptrs, mem : MemType]
  /\ exec \in [ExecBuffer -> Ptrs \cup {Null}]
  /\ weight_map_ \subseteq PimPtrs \cup {Null}
  /\ ~pim_initialized => exec = NoExec /\ weight_map_ = {}

\* No two handles own the same memory, whatever devices were selected and
\* however often the library was initialized in between.
Exclusive ==
  \A o, p \in Owners : o # p => Holds(o) # Holds(p) \/ Holds(o) = Null

\* Memory a handle refers to (buffer objects around user memory included) is
\* allocated until that handle's own free or destroy succeeds: neither another
\* handle's free, nor PimDeinitialize, nor a device switch takes it away.
Backed ==
  /\ \A o \in Owners : Holds(o) \in heap \cup hip \cup {Null}
  /\ \A b \in Bos : bo[b] # NoBo => bo[b].data \in heap \cup hip \cup {Null}

\* Memory that is allocated and belongs to no handle.
Orphans == (heap \cup hip) \ {Holds(o) : o \in Owners}

\* No call loses memory, with one exception: PimDeinitialize leaves behind what
\* the runtime had on another device than the current one.
NoOrphan ==
  [][\A p \in Orphans' \ Orphans :
       call'.op = "PimDeinitialize" /\ p \in PimPtrs /\ p[1] # device]_vars

\* A buffer object can always be destroyed while the device it was allocated on
\* is current, also one whose allocation had failed.
HomeDestroySucceeds ==
  [][\A b \in Bos :
       /\ bo[b] # NoBo /\ call'.op = "PimDestroyBo" /\ pim_initialized
       /\ call'.ptr = bo[b].data
       /\ bo[b].data \in PimPtrs => bo[b].data[1] = device
       => call'.ret = 0]_vars

\* PimDeinitialize clears resources: the executor's memory goes back.
DeinitReleases == ~pim_initialized => Orphans = {}
=============================================================================
