# Verification of the PIM library

The repository is a library for processing-in-memory (PIM) devices. A client
calls the C API (`pim_runtime_api.cpp`); `PimRuntime` passes memory calls to a
process-wide `PimManager` and operations to an executor; both exist for HIP and
for OpenCL. The executor launches kernels that drive the PIM units through
ordinary reads and writes. This directory holds TLA+ modules of the parts whose
correctness depends on order, sharing, ownership or index arithmetic, the TLC
instances that check them, and TLAPS proofs about the heap, the ownership of
memory in both backends, the weight cache, execution on streams, the modes of
the kernels and the emulator's traces.

## 1. The system

| Component | State | Operations | Interacts with |
|---|---|---|---|
| API (`pim_runtime_api.cpp`) | `pim_runtime`, `pim_initialized` | one function per call | `PimRuntime`; its early return when there is no runtime |
| `PimRuntime` | manager, executor, `weight_map_` | memory calls, execute calls, weight conversion | calls the API itself while converting weights |
| `PimManager` (singleton), memory manager | a heap per device, `gemm_order_` | alloc, free, copy, layout conversion | the current HIP device selects the heap |
| `SimpleHeap` | `free_list_`, `block_list_`, `block_cache_`, counters | `alloc`, `free`, `trim` | block allocator below |
| `HipBlockAllocator` | `pim_alloc_done`, `g_pim_base_addr` per device | `alloc`, `free` | maps one PIM area per device, once |
| `HipPimExecutor` | `d_srf_bin_buffer_`, `zero_buffer_`, `pim_gemv_tmp_buffer_`, CRF cache | `execute_*`, streams, device | HIP streams; kernels run later |
| CRF generation, command encoding | CRF programs by operation and size | `make_crf_bin`, `find_crf`, encode, decode | executor; the units execute the words |
| Kernels (`*.pimk`) | the mode of the memory, the units' registers, the buffers | modes, program, one access after the other, fences | the PIM units (external) execute an instruction per access |
| Layout conversion, shapes, address map | counters of the loops, the destination | `convert_data_layout` on host or device, alignment | the gemm kernels read what it lays out |
| Emulator, trace coalescer | traces of one operation | record, collect, `coalesce_trace`, simulate | replaces the device in the emulator build |
| OpenCL backend | as HIP; sub-buffers of one mapped area | as HIP | one queue, every operation waits; an OpenCL error ends the process |
| Tools | files | CRF code generator and checker, decoder, benchmarks, viewers | none at run time |

What is hard here:

* *Long sequences.* The heap splits and merges fragments eagerly; a neighbour
  or a list entry missed once shows only many calls later.
* *Ownership across layers.* Raw pointers, buffer objects, buffers around user
  memory, the executor's buffers and the weight cache all own PIM memory of the
  same heaps, which outlive `PimDeinitialize`.
* *The current device* is global state read at every allocation and free.
* *Asynchrony.* A call returns while its kernel is still to run. Kernels share
  buffers of the executor, and scalar operations free memory a kernel reads.
* *Identity by hash.* A converted weight is found by a key of the data.
* *Agreement between files.* A program generated in one file counts the
  accesses a kernel makes in another, on weights laid out by a third, and
  between two fences the memory takes the accesses in any order.
* *Two views of one memory.* In OpenCL the host has an address and kernels have
  a sub-buffer; the heap knows only the first.
* *Errors* are reported by integers of two conventions (0 is success; a bool).

The library takes no lock and creates no thread; a client enters it from one
thread. Concurrency is between that thread and the kernels on the streams.

Correctness, per component:

* heap: live allocations are disjoint, large enough, freed exactly once;
  nothing is lost; counters and cache agree with the blocks;
* memory and lifecycle: each piece of memory has one owner, stays allocated
  until that owner frees it, and is owned as long as it is allocated; results
  tell success from failure;
* weight cache: entries point to live conversions, a lookup returns the
  conversion that was asked for, none is lost;
* execution: results are those of the calls executed one after the other,
  blocking calls have waited, every call returns;
* programs, kernels and layout: a kernel leaves the operation's result in its
  output and nowhere else, program and kernel stay in step, the memory is back
  in the mode hosts use;
* emulator: the simulator gets the commands the kernel made, in order, whole;
* OpenCL: objects, heap extents and owners correspond, and a buffer holds what
  was last written to it, in both views.

## 2. Modules and how they correspond to the code

`SimpleHeap` (simple_heap.hpp). One action per path through `alloc`, `free` and
`trim`. Addresses and sizes are in units of `align_size_`; `get_aligned_bytes`
converts from bytes with the rounding of the `float` in the code. The map of
maps `block_list_` is flattened into `block_list_` (its keys) and `frags`;
`free_list_` is a set of (size, base), so among entries of one size any may be
taken where the multimap takes the oldest. `live` and `ret` are history: what
clients hold, what the last call returned. The block allocator is any supplier
of a block not in the heap, or of none.

`PimAllocator` is the abstract specification: memory nobody holds or null; a
free succeeds exactly for what is held. `SimpleHeap!AllocatorSpec` states that
the heap implements it.

`PimMemory` (pim_runtime_api.cpp, PimRuntime.cpp, HipMemoryManager.cpp, the
buffers of HipPimExecutor.cpp). One action per API call with its whole call
chain. The heaps appear as what `SimpleHeap` is proved to implement: a chunk of
the device nobody holds, or null. `bo`, `raw`, `exec` and `weight_map_` are the
handles; `call` is the last call with its result. The client is free in its
order of calls, frees each thing once with the call that matches its
allocation, and frees user memory only when no buffer object wraps it.

`WeightCache` (PimRuntime.cpp). `w_key` is the loop of the code on sequences of
words: the exclusive or of the words it samples. A conversion is opaque and
named by what it reads (`Reordered`). Addresses of deleted objects can be
reused. The client destroys, once each, the objects it was given by calls it did
not ask to save; that one of them may be the cache's own it cannot tell, and the
code does not. `dangling` and `read_deleted` are history: the entries whose object
was destroyed so, and whether a call has used one, after which nothing is defined.

`PimStreams` (HipPimExecutor.cpp in the device build, the execute calls of the
API). A call appends a kernel to a stream; `KernelStart` and `KernelFinish` are
the device. A kernel reads and writes regions; `contents` maps a region to the
call that wrote it, `ideal` is the same under sequential execution. What every
kernel for PIM uses besides its operands is a region too (`Scratch`): the modes,
programs and registers of the channels (`Units`), and the partial-result buffer.
A kernel that finds other contents than those it was issued for, or another
kernel's marks in its scratch regions, writes `Garbage`. Kernels of rocblas use no
PIM unit; that the mode of a channel does not touch their ordinary accesses to
other memory is assumed. `host.done` is what the last call has waited for. A
scalar operation without room for its padded scalar ends in `undefined`. External,
from how the code uses it: HIP orders the default stream with the streams of `hipStreamCreate`, does not order
these among each other, and lets `hipMemcpy` and `hipFree` wait for everything
issued before. The first gemm on a RAW weight also converts it, with copies
that wait for the device; here the weight is converted already. The client is
free of races of its own between streams.

`PimGeometry` (PimInfo.h) holds the numbers of banks, units, registers and
columns, and what follows from them. The code's vega20 values are 8 registers,
64 channels, 4 groups of 4 banks; literals such as 7, 15 and 23 in programs and
kernels are one less than multiples of 8 and are written with `NumGrf`.

`PimCrf` (PimCommand.h, PimCommand.cpp, PimCrfBinGen.cpp): commands, their
encoding in 32-bit words and decoding, the program of every operation with its
loop counters. A word is the set of its one bits, so a counter that does not
fit loses its high bits as in the code. The cache of programs is left out: its
key, operation and size, determines the program.

`PimUnit` is external: the PIM unit as the kernels use it, from the registers
they write and the headers of the simulator. A column access in mode HAB_PIM
executes an instruction of the program, and the registers it works on follow
from the column. Values are terms, so that a result shows what it was made of.

`PimLayout` (`convert_data_layout` of HipMemoryManager.cpp, both layouts, on
the host part by part with the carries of its counters, or on the device by
index arithmetic). It is for I_X_W products: W_X_I swaps height and width in
each place. A 32-byte transaction is one item, a cell is (channel, group, bank,
location).

`PimKernels` (the `*.pimk` kernels as HipPimExecutor.cpp launches them). A kernel
is a sequence of windows between fences; within a window any access may come
next, except that one lane's accesses to one place keep their order. The
kernels' reads that only make sure of a write are left out. `ConvertWeight`,
`LaunchGemm` and `Finish` take a weight from its RAW form to stored outputs, so
layout, program and kernel are checked together. The buffer for partial sums has
`TmpSlots` slots, one per tile of outputs of every row and iteration (`TileCount`);
they are 64 in the code, and a gemm that needs more (not `SumsFit`) writes past it,
beyond what the model follows. The 8-tile and 32-tile gemm
kernels unroll the same loops; no code launches the kernels of
`pim_gemv_kernels.pimk`.

`PimTrace` (the emulator build of the kernels, the collecting loop of the
executor, PimTraceCoalescer.cpp). Blocks interleave at will; within a block the
entries of an instruction come in thread order, except that the halves of a
transaction may be exchanged in any lane. What a write carries is named by its
source: zeroes, or two different halves. `memcpy` of overlapping
ranges may lose what they share.

`PimOclMemory` (OclMemoryManager.cpp, OclBlockAllocator.cpp, OclPimExecutor.cpp
below the API). A call is one step, since every operation ends in `clFinish`.
PIM memory is an address in the mapped area and a sub-buffer; copies of the host
use the first, kernels the second. Handles are the least not in use, so that a
released one soon returns. `wrote` is history: what calls wrote last. An OpenCL
error ends the process (`Exit`), as `cl_ok` does; a failing `malloc` is not
modelled; contents of memory nobody owns are not kept. The client copies no
more than the source has.

The `MC` modules give instances to TLC; the modules named `...Proofs` hold the
proofs about the module they are named after; those about `PimKernels` fill two,
`PimKernelsProofs` and, on top of it, `PimGemmProofs`. Definitions named `X_suffix` are mutants of
`X`: plausible mistakes in the code that the properties are known to catch.

## 3. Runs

| Run | Instance | Shows |
|---|---|---|
| heap_fragments | three blocks of 3 units; requests of 1, 2 and more than 3 units | tiling, exact free list, eager compaction, disjointness, no leak, cache and counters, refinement of `PimAllocator` |
| memory_devices | 2 devices, 2 chunks each, 1 buffer object, 2 HIP pointers, any raw pointers | exclusive and backed ownership, destroy on the home device succeeds, only `PimDeinitialize` on another device loses memory |
| weights | 1 weight rewritten at will, 2 one-bit words, 2 objects, any of them destroyed | entries sound but for those whose object was destroyed, no leak, hits agree in the first word |
| streams_sequential | default stream and one created, all 8 operations, 2 calls, 2 chunks | sequential results on shared registers and buffers; what was waited for is ready; every call returns |
| kernels | 2 channels of 4 units with 2 registers; all elementwise operations, gemms of 7 shapes, each unit followed in turn | results of elementwise operations and gemms in every order of the accesses, program in step, mode restored, layout right |
| emulator_trace | 2 blocks, an elementwise kernel and a gemm, one exchanged transaction | the simulator's commands are the kernel's |
| ocl_memory | an area of 3 units, 2 buffers, 1 kept weight, 2 programs, 7 handles | objects, extents and owners correspond, buffers hold what was written |

Runs that end in a violation, each a disagreement of the code with what a
comment, an assertion, a test or the header says:

| Run | What happens |
|---|---|
| heap_float_rounding | 2^25+2 bytes become 2^25 in the `float`; the allocation is a unit short |
| memory_deinit_other_device | the gemv buffer is freed to the heap of the wrong device and lost |
| weights_key | the key is the first word only; order and transposition are not in it |
| streams_gemm_race | gemms on two created streams share the partial-result buffer and the registers of the channels |
| kernels_tall | a gemm with two tiles of outputs goes through both twice and stores past its output |

Other behaviour of the code that the models show and no run is about:

* `alloc(0)` on a fresh block inserts a free entry for the whole block at its
  base and then gives the fragment there size 0 (`CarveBlock` with no units); a
  later best fit would meet the "Inconsistency in SimpleHeap." assertion.
* `PimAllocMemory(void**)` of PIM memory returns 0 also when the heap had none
  (`alloc_memory`), and `PimFreeMemory(void*)` of PIM memory returns 1 when it
  freed and 0 when it did not (`free_memory_ret`).
* The result of `convert_data_layout` is ignored: a conversion that failed stays
  RAW and is kept in `weight_map_`.
* `PimConvertGemmWeight` without saving also returns an object that `weight_map_`
  keeps, when there is one. The caller cannot tell it from one of its own and
  destroys it, as test_gemm.h:141 does; the entry then points to a deleted object,
  which the next conversion and `PimDeinitialize` use. `EntriesKept` excepts such
  entries (`dangling`), and no others.
* The paths of a gemm through rocblas never look at `block`: they return while the
  kernel is in flight (`Wait`). `WaitedResult` excepts them.
* The coalescer moves the data of a transaction whose halves came exchanged
  (PimTraceCoalescer.cpp:85). For the mode register write that eight lanes make,
  `gemv_hab_to_hab_pim` with its two different halves, a lane that comes exchanged
  after the first puts the first half in both places (line 92). `CommandsRight`
  allows that of the commands several lanes make, and of no other.
* A scalar operation that does not block destroys its padded scalar while the
  kernel may still have to read it. On one created stream the orders of the
  default stream and of the copies save the result, as streams_sequential
  shows; with kernels on several created streams `SequentialResult` fails for
  this reason too. Without room for the padded scalar its data is null, and the
  kernel reads through it (`PimExecuteScalarNull`).
* A gemm whose iter_cnt * inout_h * n_out_tile is above 64 writes past
  `pim_gemv_tmp_buffer_` (16 MiB, 2^18 bytes per tile of outputs); nothing checks
  (`SumsFit`).
* `HipBlockAllocator` maps one area per device, so a heap of the library has one
  block; the heap's code for more blocks is modelled as it stands.
* The gemm by channels reads its bias at the same offset in every iteration:
  outputs after the first 4096 get the bias of the first ones, and `GemmResult`
  fails for such a job (`Stored`; the kernels run has a bias with one iteration
  only). It reads only the first row of an input of several rows, and takes a
  wrong input for widths that do not divide 4096.
* The device conversion computes the size of a row of tiles eight times too
  large, so `LayoutRight` fails for weights with more than one tile of outputs
  (`convert_idx_aligned`); the run converts those on the host.
* For an elementwise size that is not a multiple of 2^18 bytes the kernel makes
  one tile more than the program counts, and `InStep` fails. `align_shape` yields
  such sizes when n * c * h does not divide the aligned length, as with three
  channels. Below 2^18 bytes relu, copy and batch normalization get the loop
  counter -1, and their kernel makes no access.
* W_X_I products swap shapes, not data, so HIP computes them for one column only;
  the OpenCL executor does not swap at all.
* A kernel that records more than 100000 entries per channel runs into the next
  row of the trace; above 50000 the rows overlap when they are moved.
* OpenCL: a gemm that is not for PIM returns 0 and does nothing; `PimFreeMemory`
  of an object nulls its data, which a later `PimDestroyBo` dereferences; the
  `cl_program` is never released.

Why the bounds are enough. Heap: free needs a fragment with a free neighbour on
neither side, each side and both, beside fragments in use, and exact fits as
well as remainders; a block of three units has them all, and three blocks let
the cache be empty, filled and released. More blocks are covered by the proofs. Memory: two
devices are what a wrong device needs; two chunks let the executor's buffer, a
client and a weight compete for a full heap. Weights: two words are one more
than the key reads; two objects are a cached one and a private one, either of
which can be destroyed and its address reused.
Streams: two calls make a race, and since making and destroying a buffer is not
counted among them, the second one can also reuse the chunk of a scalar the first
has freed; more streams add no other kind of pair than created/created and
created/default. To return, a call waits for the calls before it, of which one is
enough. Any number of calls is covered by the proofs.
Kernels: rows, columns and the banks' counters are linear in the numbers of
registers, channels and groups, and with two of each every counter carries into
the next; two and four input tiles take the even and the odd path once and
twice. The product with two tiles of outputs, rows and matrices fills the
`TmpSlots` slots exactly. Trace: `Width` is twice the longest kernel, the shortest row for which
moving rows is safe; one exchanged transaction (`MaxSwaps`) may be any of them.
OpenCL: three units with the executor's one leave room for two buffers, so the
area fills up, a weight finds no room, and initializing again fails; seven
handles are one less than could be in use at a time, so an allocation can also
fail for want of a handle (an OpenCL error). Slots, pointers, objects, chunks and
contents are interchangeable and used as symmetry sets in safety runs only. Deadlock is checked except
where the system may stop: in ocl_memory the process may have ended, and in the runs
of `WeightCache` and `PimStreams` a deleted object or a null pointer may have been
used, after which the code's behaviour is undefined.

Fairness is used in `CallReturns` alone: weak fairness of the start and the end
of kernels (the device makes progress; the code has no timeout and no cancel)
and of the step in which a wait that is over returns. The client's calls are
not fair: it may stop.

## 4. Proofs

`SimpleHeapProofs` proves, for every set of blocks, block size and set of
requests with `HeapConstants` (blocks do not overlap; sizes are natural
numbers) and under `SafeRequests`:

* `HeapInvariant`: `Spec => [](HeapInv /\ CacheBounded)`;
* `TypeCorrect`, `AlwaysTiled`, `FreeListIsExact`, `AlwaysCompacted`,
  `LiveIsExact`, `BlocksApart`, `CountersRight`: each part of it as the run
  states it;
* `NeverOverlap`, `NeverLeaks`: `NoOverlap` and `NoLeak`;
* `Refinement`: `Spec => AllocatorSpec`, every step of the heap a step of
  `PimAllocator` or a stutter.

`SafeRequests` says that no request is empty or rounded below its size (the
second case is what heap_float_rounding shows). TLC evaluates it on the requests of the
passing run (`ServedInFull`).

None of the properties is inductive alone. Disjointness of allocations rests on
the fragments tiling their blocks (`Tiled`) and on `live` being exactly the
fragments in use (`LiveExact`). A merge keeps the tiling only if the neighbour it
absorbs is adjacent and not in use, and the entry it removes is the
neighbour's: `FreeListExact`. `Compacted` is needed so that a block whose last
fragment is freed is one fragment, and goes to the cache: this is `NoLeak`. A
block taken from the cache must not be listed already (`CacheApart`), and
`CacheBounded` needs the counters to be what they count (`Accounting`).
`HeapInv` is the conjunction; each action has its own lemma, with the
neighbours' geometry (`LowerFree`, `UpperFree`) in lemmas of their own.

`PimMemoryProofs` proves, for any devices, chunks, pointers and buffer objects
with `PointerAssumption` (null and the two kinds of pointers are distinct):
`MemoryInvariant`, from it `MemoryTypeCorrect`, `OwnershipExclusive` and
`HandlesBacked`, and the action properties `OnlyDeinitLoses` and `DestroyAtHome`.
`MemInv` joins `Exclusive` with what makes it inductive: handles refer to memory
of their kind (`KindsOK`), else freeing PIM memory could take away another
handle's HIP memory; what an owner holds is allocated (`OwnersBacked`), else the
next allocation could return it; a buffer object around user memory has that
memory behind it in `raw` (`Wrapped`), from which `Backed` follows for objects
that own nothing. `NoOrphan` excepts `PimDeinitialize` while something of the
runtime is on another device than the current one, which is what
memory_deinit_other_device shows.

`WeightCacheProofs` proves `CacheInvariant` for any weights, objects and data of
at least one word (`DataAssumption`), and from it types, `EntriesKept`,
`NoWeightLeak` and `FirstWordAgrees`. That every entry is live is not a theorem:
a client may have destroyed the object of one (section 3). `EntriesKept` says that
nothing else spoils one. The lemma `KeyIsFirstWord` shows for every
weight that the loop of the key takes one word and no more: the reason for the
finding and for what still holds.

`PimStreamsProofs` proves, for any chunks, streams, operations and number of
calls (`StreamConstants`: the buffers and streams named are distinct),
`StreamTypes`, and, under `OneStream` or `OnlyRocblas`, `StreamsSequential`,
`StreamsWaited` and `StreamsIntact`. `StreamInv` (`QueuesOK`, `HostOK`, `MemoryOK`)
says that queues are in the order of the calls, what the host waits for is what it
issued, and kernels write the client's buffers. `SequentialResult` speaks of regions
no kernel is still to write; what leads there is `FlowInv`:

* `Flow`: what a kernel in flight is to read is what the memory will hold once
  the kernels before it are done, and the last writer in flight of a region
  leaves what `ideal` has there;
* `Apart`, `TempsApart`: kernels that may overlap conflict neither about
  buffers of the client nor about registers and buffers of the device; with several
  created streams none reads a padded scalar, whose memory is free again already;
* `RunsFirst`, `ScratchKept`: a running kernel is older than those it is ordered
  with, and the scratch regions are its own.

`HostWaits` adds that behind the last kernel that writes what a call waits for
none is left in flight when the call has returned; with `SequentialResult` this
is `WaitedResult`.

The hypotheses are needed: two kernels for PIM on two created streams drive the
same registers, so `Apart` fails, which is what streams_gemm_race shows. On one
created stream beside the default stream everything is ordered; kernels of
rocblas alone share nothing, on any number of streams.

`PimOclMemoryProofs` proves `OclTypes`, `OclHandlesExact` and `OclReadsBack` for any
area, sizes, buffers, handles and contents with `OclAssumption` (addresses of the
area are not handles; requests fit in the area). `HandleInv` says of each owner
(buffers of the client, the executor's, kept weights and programs) that what it
holds is an allocation of its kind (`OwnersOK`), that extents of two owners are
disjoint and their handles differ (`PimApart`, `PointersApart`), and that heap,
sub-buffers and stores are exactly what the owners hold (`Serves`). The last part
is stated of any memory, since an operation passes through several: one lemma
says what an allocation, a free, a copy or a fill does to it, and every call is a
chain of them. `ContentsInv` adds that what was written is still there. It needs
the disjointness, and that a kept weight or program is not written again.

Windows of a kernel and commands of a trace are joined by `FlattenSeq`, which is
defined by a recursive function. `PimKernelsProofs` and `PimTraceProofs` begin with what
it yields for any number of pieces. The induction theorems of the library take an
operator, which the provers cannot instantiate; `NatSetInduction` is proved from the
well-foundedness of the naturals for a set instead, and gives induction where the
predicate can be written as a set of numbers.

`PimKernelsProofs` and `PimGemmProofs` (the last two theorems of the table) prove every
invariant of the run kernels, for every geometry with
`GeometryAssumption` (positive, and even numbers of registers and of banks in a
group), every job with `JobsAssumption` (shapes are positive), every set of units
(`UnitsAssumption`: they exist), and every order of accesses within the windows:

| theorem | states | hypotheses |
|---|---|---|
| `ModeRestored` | `Restored` | none |
| `TypesOK` | `TypeOK` | none |
| `WeightsLaidOut` | `LayoutRight` | `WholeJobs` |
| `EltRight` | `EltResult` | `WholeElts` |
| `AllInStep` | `InStep` | `WholeElts`, `WholeGemms` |
| `GemmRight` | `GemmResult` | `WholeGemms`, `BiasOnce` |

The hypotheses are about the shapes, all hold of the jobs of the run, and each
part excludes a case in which the code does something else:

* `WholeJobs`: a weight has whole tiles (`WholeTiles`: `in_cnt` a multiple of
  `2 * NumGrf`; the outputs, of one matrix or by channels of all, a multiple of
  `OutTile`), to which `align_gemm_shape` pads; and a weight that is converted on
  the device has one tile of outputs or is laid out by channels, since the device
  computes the size of a tile row too large for more (hazard at
  HipMemoryManager.cpp:67);
* `WholeElts`: an elementwise operation has an even size of at least 2 (of other
  sizes program and kernel count differently, hazards at HipPimExecutor.cpp:157
  and PimCrfBinGen.cpp:203), its loop counter fits the 17 bits of JUMP, and
  `3 * NumGrf - 1` fits the 11 bits of NOP (`ShortIdle`; it is 23 in the code);
* `WholeGemms`: in addition to `WholeJobs` and `ShortIdle`, the count of the program's
  jumps fits JUMP, the partial sums are not in the weight and fit their buffer
  (`SumsFit`; hazard at pim_gemm_kernels.pimk:577), and by channels
  (`ByChannels`) the outputs of a matrix take whole channels and the input has one
  row per matrix (hazard at pim_gemm_kernels.pimk:56);
* `BiasOnce`: by channels a product with a bias is done in one iteration; the
  kernel does not move the bias on with the iterations.

`ModeRestored`. A kernel is shown to be a frame (`Framed`): four windows that enter
HAB one row at a time, windows none of which writes those registers or is empty,
among which each that turns HAB_PIM on is followed by one that turns it off, and
the window that leaves HAB. `ModeInv` says which mode the number of the current
window allows: HAB_PIM only if a window still to come turns it off. The result
for the loops of any length rests on what `FlattenSeq` yields.

`TypesOK`. Commands are proved to decode to what was encoded, for every
command with fields in range, and a loop counter of any size to its lowest bits;
the recursive functions over the bits are unfolded by induction over sets of
numbers (`NatSetInduction`, `RecExists`). So the program the unit holds is
`WellFormed`, its jumps staying in the program, and `UnitOK` is kept by every access:
the program counter is in the program or one behind it, and a jump has at most
`MaxLoop` rounds left.

`WeightsLaidOut`. The host converts part after part, counting bank, bank group,
channel, tile and start of the next row in variables of their own. `ConvOK` says
that after any number of parts the counters are those of the part whose turn it
is (`At`) and that the earlier parts are where the kernels read them
(`LaidBefore`); it is kept because no two items share a cell. That `Advance` goes from a part to
the next is proved carry by carry; for the device the place computed with
quotients and remainders is shown to have the same digits. Digits of numbers, with
one product of variables at a time, keep the arithmetic within the prover's
reach.

`EltRight`, `EltInStep`. `EltInv` ties program and kernel together by one number, the
accesses to banks made so far. Windows of a tile are known by their number; the
program, gone through by that many commands, is at a known instruction and
round (`TileAt`), in whatever order the lanes of a window made their accesses. Data
is followed for each lane (`LaneOK`): its register has what its accesses so far
make of its operands, its place in memory the result once it was written. The places of earlier tiles
hold results, those of later tiles what was there, which an operation in place
needs.

`GemmInStep`, `GemmRight`. The kernel is a product (`OfProduct`): tiles numbered
through iterations, rows of inputs and tiles of outputs, each of them clear, input
tiles in the order even, odd, two rows of weights with each, partial sums, leave.
`GemmInv` says in which window of which tile the kernel is (`ProductAt`): the
program's position is the number of commands, the GRF_A registers hold the tile
of inputs, the GRF_B registers of each lane exactly the products of the input
tiles so far and of the accesses made of this one (no product twice, none left
out, in any order), and the sums of all earlier tiles are still where REDUCE_SUM
reads them (`Earlier`). `Held` connects the weight in the unit's banks with
`LayoutRight`'s: the location the window reads is the one the layout has for the
output of the lane. `TileSumIs` collects the products of a tile to a row of the
input times a row of the weight; `Meets` shows, by digits, that it is the row
and the output REDUCE_SUM stores it at, by channels and aligned. Some iterations of
the aligned kernel have no weights (kernels_tall); their outputs lie
outside of `Outputs`, and every output in it is stored by the lane with its digits
(`OutputStored`).

`PimTraceProofs` proves `TraceTypes` and `TraceFaithful` for any number of blocks
and tiles, row width and number of exchanged transactions, under `HalfARow` (a
block's entries fill at most half a row). Why it is needed is said in section 3:
above half a row the rows overlap when they are moved. In the code a row has
100000 entries. `TraceInv` follows the trace through its three forms:

* `KernelInv`: while blocks record, each has its entries so far in its own row,
  the halves of a transaction in either order;
* `CollectInv`: the first rows are at their packed place, the others where they
  were recorded; a row is moved to where nothing is still to be moved from;
* `CoalesceInv`: the commands so far are those of the blocks, instructions and
  lanes passed, with the state `prev` has after either half of a transaction. Of
  a command that several lanes make, both places may have the first half
  (`MatchOne`, section 3).

It holds of the kernels because of their shape (`GoodKernel`, proved of
`elt_op_pim` with any number of tiles and of `gemm_fp16`): the lanes that share a
transaction are neighbours, and an instruction does not begin with the
transaction the one before it ended with. Otherwise the coalescer would merge
two commands.

Only model-checked: `CallReturns`, liveness, which is out of the prover's reach.

## 5. Plan

Done, in this order: `SimpleHeap`, its proofs and `PimAllocator`; `PimMemory`,
`WeightCache`, `PimStreams`; the proofs of the first two; `PimCrf`, `PimLayout` and
`PimKernels`; `PimTrace`; `PimOclMemory`; the proofs of `PimStreams`, `PimOclMemory`,
`PimTrace` and of the modes of `PimKernels`; then encoding, layout, types,
elementwise kernels and products of `PimKernels`.

Left:

1. W_X_I products and shapes with padding, from `align_gemm_shape` on.
2. Failed conversions in `WeightCache`.

## 6. Not modelled, and why

Numerical results of kernels, the external simulator, the compiler driver, log
and profiler, benchmarks and file viewers: no state of the library, or outside
the repository. The vendored headers under `external_libs` (gtest, half, the
simulator's), about half of the repository's code, and the stand-alone device
tests under `examples/monitor` are not part of the library. Building the OpenCL
program is input and output; the OpenCL kernels and layouts are copies of the
HIP ones. The CRF tools are for an earlier instruction set: their checker
refuses the programs the runtime makes. Copies between host and device appear in
`PimStreams` as writes to a region; `PimCopyMemoryRect` is the same with other
extents. Alignment of client shapes is arithmetic on descriptors; the address
map is taken to be a bijection. `PimFreeMemory` followed by `PimDestroyBo` on the
same object is a client's mistake here: for HIP the object keeps its pointer,
and the heap refuses the second free unless the chunk was given out again.
Failures of `hipMalloc` and of copies in a conversion are modelled, failures of
`hipFree`, `hipSetDevice` and kernel launches are not.
