----------------------------- MODULE PimStreams -----------------------------
(***************************************************************************)
(* Operations on streams: the PimExecute calls of pim_runtime_api.cpp over *)
(* HipPimExecutor.cpp, built for the device (no EMULATOR).  A call launches*)
(* a kernel on a stream and returns, unless it is asked to block; the      *)
(* kernels run later, those of one stream in order.  All kernels share the *)
(* executor's d_srf_bin_buffer_ and pim_gemv_tmp_buffer_, those for PIM    *)
(* also the modes and registers of the channels, and the scalar operations *)
(* free their padded scalar when they return.                              *)
(*                                                                         *)
(* HIP is external: the default stream and the streams of hipStreamCreate  *)
(* are ordered with each other in issue order, two created streams are not;*)
(* hipMemcpy and hipFree wait for everything issued before.                *)
(*                                                                         *)
(* Memory is a map from regions to the call that wrote them last.  ideal   *)
(* is the same map had every call finished before the next one began.  The *)
(* client is one thread without races of its own: what kernels of several  *)
(* streams do with its buffers does not conflict, and it destroys a buffer *)
(* only when no kernel uses it.                                            *)
(***************************************************************************)
EXTENDS Integers, Sequences

CONSTANTS
  Streams,     \* streams made by PimCreateStream
  NullStream,  \* the default stream, nullptr
  Chunks,      \* PIM memory the heap can hand out
  Ops,         \* the operations the client uses
  MaxCalls     \* bound: number of calls that write memory

AllStreams == Streams \cup {NullStream}
AllOps == {"elt", "scalar", "bn", "gemm", "gemv", "gemvHost", "copy", "dummy"}

\* The executor's own buffers; hipMalloc and the heap made them apart.
Tmp == "pim_gemv_tmp_buffer_"
Srf == "d_srf_bin_buffer_"

\* The mode of each channel and its CRF, SRF and GRF registers.
Units == "pim_units"

ASSUME StreamConstants ==
  /\ NullStream \notin Streams
  /\ {Tmp, Srf, Units} \cap Chunks = {}
  /\ Ops \subseteq AllOps
  /\ MaxCalls \in Nat

VARIABLES
  queue,     \* per stream, the kernels issued and not finished
  running,   \* per stream, whether the first of them has started
  contents,  \* per region, the call that wrote it last
  ideal,     \* history: contents, had the calls run one after the other
  mine,      \* chunks of the client's buffer objects
  host,      \* what the client's thread is doing
  calls      \* number of calls so far: the next call's id

vars == <<queue, running, contents, ideal, mine, host, calls>>

Regions == Chunks \cup {Tmp, Srf, Units}
Garbage == -1

Kernels(s) == {queue[s][i] : i \in DOMAIN queue[s]}
InFlight == UNION {Kernels(s) : s \in AllStreams}
Touches(k) == DOMAIN k.reads \cup k.out

\* What a client knows the kernel to use.
Operands(k) == (DOMAIN k.reads \ k.temp) \cup k.out

\* The thread is in no call.  done is what the call that has just returned
\* promised by waiting: that out is written.
Idle(done) == [pc |-> "idle", done |-> done]

Init ==
  /\ queue = [s \in AllStreams |-> <<>>]
  /\ running = [s \in AllStreams |-> FALSE]
  /\ contents = [r \in Regions |-> 0]
  /\ ideal = contents
  /\ mine = {}
  /\ host = Idle({})
  /\ calls = 0

-----------------------------------------------------------------------------
(* The device.                                                             *)

\* Kernels on the default stream and on another one keep their issue order.
Ordered(s, t) == s = NullStream \/ t = NullStream

CanStart(s) ==
  /\ queue[s] # <<>> /\ ~running[s]
  /\ \A t \in AllStreams \ {s} : Ordered(s, t) =>
       \A k \in Kernels(t) : k.id > Head(queue[s]).id

\* What a kernel works in besides its operands.  Every kernel for PIM has a
\* block per channel that sets its mode and writes its program and registers;
\* gemm and bn keep partial results.
Scratch(op) ==
  (IF op \in {"elt", "scalar", "bn", "gemm", "copy"} THEN {Units} ELSE {})
    \cup (IF op \in {"bn", "gemm"} THEN {Tmp} ELSE {})

\* It has them for itself from here on, unless another kernel starts.
KernelStart(s) ==
  /\ CanStart(s)
  /\ running' = [running EXCEPT ![s] = TRUE]
  /\ contents' = [r \in Regions |-> IF r \in Head(queue[s]).scratch
                                    THEN Head(queue[s]).id ELSE contents[r]]
  /\ UNCHANGED <<queue, ideal, mine, host, calls>>

\* The first kernel of s read what it was issued for, and no other kernel has
\* been in its registers and partial results.
Intact(s) ==
  LET k == Head(queue[s]) IN
  /\ \A r \in DOMAIN k.reads : contents[r] = k.reads[r]
  /\ \A r \in k.scratch : contents[r] = k.id
  /\ \A t \in AllStreams \ {s} : running[t] => k.scratch \cap Head(queue[t]).scratch = {}

\* It leaves its result, or garbage, and its scratch for whoever has started
\* meanwhile.
KernelFinish(s) ==
  /\ running[s]
  /\ LET k == Head(queue[s]) IN
       contents' = [r \in Regions |->
                      IF r \in k.out THEN (IF Intact(s) THEN k.id ELSE Garbage)
                      ELSE IF r \in k.scratch THEN k.id ELSE contents[r]]
  /\ queue' = [queue EXCEPT ![s] = Tail(@)]
  /\ running' = [running EXCEPT ![s] = FALSE]
  /\ UNCHANGED <<ideal, mine, host, calls>>

\* hipStreamSynchronize waits for a stream, on the default stream for all.
WaitedFor(s) == IF s = NullStream THEN InFlight ELSE Kernels(s)

Drained(s) == WaitedFor(s) = {}

-----------------------------------------------------------------------------
(* Calls.  A call c is [op, id, stream, ins, out, block, temp], where temp *)
(* is the region it fills with hipMemcpy before it launches.               *)

\* A call asked to block says by returning that it is done.
Returned(c) == Idle(IF c.block THEN {[op |-> c.op, out |-> c.out]} ELSE {})

\* After the launch: block, unless the operation does not look at block (the
\* rocblas kernels); hipFree of a copied weight waits for the device.
Wait(c) ==
  host' = CASE c.op = "gemvHost"            -> [pc |-> "hipFree", c |-> c]
            [] c.op # "gemv" /\ c.block     -> [pc |-> "sync", c |-> c]
            [] OTHER                        -> Returned(c)

\* hipLaunchKernelGGL of c's kernel, given the ideal contents before it.
Launch(c, before) ==
  /\ queue' = [queue EXCEPT ![c.stream] =
       Append(@, [id |-> c.id, reads |-> [r \in c.ins |-> before[r]],
                  out |-> c.out, temp |-> c.temp,
                  scratch |-> Scratch(c.op)])]
  /\ ideal' = [r \in Regions |-> IF r \in c.out THEN c.id ELSE before[r]]
  /\ Wait(c)

\* The client keeps kernels that may run at the same time from conflicting.
RaceFree(s, ins, out) ==
  \A t \in AllStreams \ {s} : Ordered(s, t) \/
    \A k \in Kernels(t) : /\ out \cap Operands(k) = {}
                          /\ ins \cap k.out = {}

Call(op, s, ins, out, block) ==
  [op |-> op, id |-> calls + 1, stream |-> s, ins |-> ins, out |-> out,
   block |-> block, temp |-> {}]

Begin == host.pc = "idle" /\ calls < MaxCalls /\ calls' = calls + 1

\* A call that launches at once.
Execute(c) ==
  /\ c.op \in Ops
  /\ Begin
  /\ RaceFree(c.stream, c.ins, c.out)
  /\ Launch(c, ideal)
  /\ UNCHANGED <<running, contents, mine>>

\* PimExecuteAdd and PimExecuteMul on two vectors, PimExecuteRelu on one.
execute_add(s, a, b, o, block) == Execute(Call("elt", s, {a, b}, {o}, block))

execute_mul(s, a, b, o, block) == Execute(Call("elt", s, {a, b}, {o}, block))

execute_relu(s, a, o, block) == Execute(Call("elt", s, {a}, {o}, block))

\* The two layouts of a weight w converted before; bias is a set of one buffer
\* or of none.
execute_aligned_gemm_tile_accum(s, a, w, bias, o, block) ==
  Execute(Call("gemm", s, {a, w} \cup bias, {o}, block))

execute_chwise_gemm_tile_accum(s, a, w, bias, o, block) ==
  Execute(Call("gemm", s, {a, w} \cup bias, {o}, block))

\* A weight too small for PIM goes to a rocblas kernel: one that adds to the
\* output (is_gemv_add) or replaces it, or one with a bias b.
GemvInputs(a, o, add) == IF add THEN {a, o} ELSE {a}

execute_custom_gemv(s, a, w, o, add, block) ==
  Execute(Call("gemv", s, GemvInputs(a, o, add) \cup {w}, {o}, block))

execute_custom_gemv_add(s, a, w, b, o, block) ==
  Execute(Call("gemv", s, {a, w, b}, {o}, block))

\* PimCopyMemory(PimBo*, PimBo*, PIM_TO_PIM): a blocking kernel.
execute_copy(a, o) == Execute(Call("copy", NullStream, {a}, {o}, TRUE))

execute_dummy == Execute(Call("dummy", NullStream, {}, {}, TRUE))

\* A call that first fills temp with hipMemcpy.
ExecuteFilling(c, temp) ==
  /\ c.op \in Ops
  /\ Begin
  /\ RaceFree(c.stream, c.ins, c.out)
  /\ host' = [pc |-> "hipMemcpy",
              c |-> [c EXCEPT !.ins = @ \cup temp, !.temp = temp]]
  /\ UNCHANGED <<queue, running, contents, ideal, mine>>

\* Mutant of PimExecuteScalar: the padded scalar takes memory in use.
PimExecuteScalar_any(s, a, o, block) ==
  \E p \in Chunks : ExecuteFilling(Call("scalar", s, {a}, {o}, block), {p})

\* The padded scalar is a buffer object of its own, destroyed when the call
\* returns: its chunk is free for the heap from then on.
PimExecuteScalar(s, a, o, block) ==
  \E p \in Chunks \ mine :
    ExecuteFilling(Call("scalar", s, {a}, {o}, block), {p})

\* Without room for the padded scalar its data is null, which nothing checks:
\* the copies to it fail and the kernel reads through it.
PimExecuteScalarNull ==
  /\ "scalar" \in Ops
  /\ Chunks \subseteq mine
  /\ Begin
  /\ host' = [pc |-> "undefined"]
  /\ UNCHANGED <<queue, running, contents, ideal, mine>>

execute_bn(s, a, o, block) ==
  ExecuteFilling(Call("bn", s, {a}, {o}, block), {Srf})

\* execute_custom_gemv with the weight in HOST memory: copied to a fresh DEVICE
\* buffer, which is destroyed right after the launch.
execute_custom_gemv_host(s, a, o, add, block) ==
  ExecuteFilling(Call("gemvHost", s, GemvInputs(a, o, add), {o}, block), {})

\* PimCopyMemory from HOST memory.
Upload(o) ==
  /\ Begin
  /\ host' = [pc |-> "hipMemcpy",
              c |-> [Call("upload", NullStream, {}, {o}, TRUE) EXCEPT !.temp = {o}]]
  /\ UNCHANGED <<queue, running, contents, ideal, mine>>

\* Mutant of CopyReady: the copy does not wait for kernels in flight.
CopyReady_async == TRUE

\* hipMemcpy is ordered with every stream.
CopyReady == InFlight = {}

\* The copy is done, and the call that wanted it goes on.
hipMemcpy ==
  /\ host.pc = "hipMemcpy"
  /\ CopyReady
  /\ LET c      == host.c
         Fill(f) == [r \in Regions |-> IF r \in c.temp THEN c.id ELSE f[r]]
     IN  /\ contents' = Fill(contents)
         /\ IF c.op = "upload"
              THEN ideal' = Fill(ideal) /\ host' = Returned(c) /\ UNCHANGED queue
              ELSE Launch(c, Fill(ideal))
  /\ UNCHANGED <<running, mine, calls>>

\* What PimSynchronize(s) promises to be written: the output of the kernels it
\* waits for, except where one issued later on another stream writes too.
Awaited(s) ==
  {p \in mine : \E k \in WaitedFor(s) :
     p \in k.out /\ \A l \in InFlight \ WaitedFor(s) : p \in l.out => l.id < k.id}

PimSynchronize(s) ==
  /\ host.pc = "idle"
  /\ host' = [pc |-> "sync", c |-> Call("sync", s, {}, Awaited(s), TRUE)]
  /\ UNCHANGED <<queue, running, contents, ideal, mine, calls>>

\* Mutant of Return: synchronizes a stream when its last kernel has started.
Return_early ==
  /\ \/ host.pc = "sync" /\ Len(queue[host.c.stream]) <= 1
     \/ host.pc = "hipFree" /\ InFlight = {}
  /\ host' = Returned(host.c)
  /\ UNCHANGED <<queue, running, contents, ideal, mine, calls>>

\* Mutant of Return: a polling loop without its exit; each wait leads to the
\* other.
Return_polls ==
  /\ host.pc \in {"sync", "hipFree"} /\ InFlight = {}
  /\ host' = [host EXCEPT !.pc = IF @ = "sync" THEN "hipFree" ELSE "sync"]
  /\ UNCHANGED <<queue, running, contents, ideal, mine, calls>>

\* The wait at the end of a call is over.
Return ==
  /\ \/ host.pc = "sync" /\ Drained(host.c.stream)
     \/ host.pc = "hipFree" /\ InFlight = {}
  /\ host' = Returned(host.c)
  /\ UNCHANGED <<queue, running, contents, ideal, mine, calls>>

\* A new buffer object holds what its chunk held.
PimCreateBo(p) ==
  /\ host.pc = "idle" /\ p \in Chunks \ mine
  /\ mine' = mine \cup {p}
  /\ ideal' = [ideal EXCEPT ![p] = contents[p]]
  /\ UNCHANGED <<queue, running, contents, host, calls>>

PimDestroyBo(p) ==
  /\ host.pc = "idle" /\ p \in mine
  /\ \A k \in InFlight : p \notin Operands(k)
  /\ mine' = mine \ {p}
  /\ UNCHANGED <<queue, running, contents, ideal, host, calls>>

-----------------------------------------------------------------------------
\* execute_gemm and execute_gemv choose by the weight and the bias.
PimExecuteGemm(s, o, block) ==
  \E a \in mine :
    \/ \E w \in mine, bias \in {{}} \cup {{b} : b \in mine} :
         \/ execute_aligned_gemm_tile_accum(s, a, w, bias, o, block)
         \/ execute_chwise_gemm_tile_accum(s, a, w, bias, o, block)
    \/ \E w \in mine, add \in BOOLEAN : execute_custom_gemv(s, a, w, o, add, block)
    \/ \E add \in BOOLEAN : execute_custom_gemv_host(s, a, o, add, block)
    \/ \E w \in mine, b \in mine \ {o} : execute_custom_gemv_add(s, a, w, b, o, block)

PimExecuteElt(s, o, block) ==
  \E a \in mine :
    \/ \E b \in mine : \/ execute_add(s, a, b, o, block)
                       \/ execute_mul(s, a, b, o, block)
    \/ execute_relu(s, a, o, block)
    \/ PimExecuteScalar(s, a, o, block)
    \/ execute_bn(s, a, o, block)

Client ==
  \/ \E s \in AllStreams, o \in mine, block \in BOOLEAN :
       PimExecuteElt(s, o, block) \/ PimExecuteGemm(s, o, block)
  \/ \E a, o \in mine : execute_copy(a, o)
  \/ execute_dummy
  \/ PimExecuteScalarNull
  \/ \E o \in mine : Upload(o)
  \/ \E s \in AllStreams : PimSynchronize(s)
  \/ \E p \in Chunks : PimCreateBo(p) \/ PimDestroyBo(p)

Device == \E s \in AllStreams : KernelStart(s) \/ KernelFinish(s)

Next == Client \/ hipMemcpy \/ Return \/ Device

\* The device runs the kernels it was given, and a wait that is over ends.
Fairness ==
  /\ \A s \in AllStreams : WF_vars(KernelStart(s)) /\ WF_vars(KernelFinish(s))
  /\ WF_vars(hipMemcpy) /\ WF_vars(Return)

Spec == Init /\ [][Next]_vars /\ Fairness

-----------------------------------------------------------------------------
(* Properties.                                                             *)

Id == 0 .. MaxCalls

\* Types of the state; what an operation fills for itself is not a buffer of
\* the client.
TypeOK ==
  /\ \A k \in InFlight : k.id \in Id /\ Touches(k) \subseteq Regions
  /\ contents \in [Regions -> Id \cup {Garbage}]
  /\ ideal \in [Regions -> Id \cup {Garbage}]
  /\ mine \subseteq Chunks
  /\ calls \in Id
  /\ host.pc \in {"idle", "hipMemcpy", "sync", "hipFree", "undefined"}
  /\ host.pc = "hipMemcpy" => host.c.temp \cap mine \subseteq host.c.out

\* What the client's buffers hold is what the same calls would have left one
\* after the other, wherever no kernel is still to write: neither the buffers and
\* registers the kernels share nor the scalars a call frees early let one
\* operation disturb another.
SequentialResult ==
  \A p \in mine : (\A k \in InFlight : p \notin k.out) => contents[p] = ideal[p]

Ready(c) == \A p \in c.out \cap mine : contents[p] = ideal[p]

\* A call that looks at block, one that copies, and PimSynchronize, when they
\* have returned: the host finds the results they waited for in the client's
\* buffers, of the default stream also those of all others.
WaitedResult == host.pc = "idle" => \A c \in host.done : c.op # "gemv" => Ready(c)

\* Every call returns, a blocking one and one that copies included.
CallReturns == host.pc \in {"hipMemcpy", "sync", "hipFree"} ~> host.pc = "idle"
=============================================================================
