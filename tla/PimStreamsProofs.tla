-------------------------- MODULE PimStreamsProofs --------------------------
(***************************************************************************)
(* Theorems about PimStreams, for every set of streams, chunks and         *)
(* operations and every number of calls.                                   *)
(***************************************************************************)
EXTENDS PimStreams, SequenceTheorems, TLAPS

-----------------------------------------------------------------------------
(* What holds whatever the streams do.                                     *)

Increasing(q) == \A i, j \in DOMAIN q : i < j => q[i].id < q[j].id

\* What kernels work in besides operands.
Shared == {Tmp, Units}

\* A kernel in flight works for one of the calls so far, on buffers that the
\* client still has.
KernelOK(k) ==
  /\ k.id \in 1 .. calls
  /\ DOMAIN k.reads \subseteq Chunks \cup {Srf}
  /\ k.out \subseteq mine
  /\ k.scratch \subseteq Shared

\* A queue holds its kernels in the order of the calls; no call has two.
QueuesOK ==
  /\ queue \in [AllStreams -> Seq(InFlight)]
  /\ running \in [AllStreams -> BOOLEAN]
  /\ \A s \in AllStreams : /\ Increasing(queue[s])
                           /\ running[s] => queue[s] # <<>>
  /\ \A k \in InFlight : KernelOK(k)
  /\ \A s, t \in AllStreams : s # t =>
       \A k \in Kernels(s), l \in Kernels(t) : k.id # l.id

\* A running kernel is older than those it is ordered with.
RunsFirst ==
  \A s \in AllStreams : running[s] =>
    \A t \in AllStreams \ {s} : Ordered(s, t) =>
      \A k \in Kernels(t) : k.id > Head(queue[s]).id

\* The call that waits to copy is the last one and has not launched yet.
Pending(c) ==
  /\ c.id = calls /\ c.id \in 1 .. MaxCalls
  /\ \A k \in InFlight : k.id # c.id
  /\ c.temp \subseteq Chunks \cup {Srf}
  /\ c.ins \subseteq mine \cup c.temp
  /\ c.out \subseteq mine
  /\ c.temp \cap mine \subseteq c.out
  /\ c.op = "upload" => c.temp = c.out
  /\ c.op # "upload" => c.op \in Ops /\ (c.op = "scalar" \/ c.temp \subseteq {Srf})

HostOK ==
  /\ host.pc \in {"idle", "hipMemcpy", "sync", "hipFree", "undefined"}
  /\ host.pc \in {"hipMemcpy", "sync", "hipFree"} => host.c.stream \in AllStreams
  /\ host.pc = "hipMemcpy" => Pending(host.c)

MemoryOK ==
  /\ contents \in [Regions -> Id \cup {Garbage}]
  /\ ideal \in [Regions -> Id \cup {Garbage}]
  /\ mine \subseteq Chunks
  /\ calls \in Id

\* The inductive invariant behind TypeOK.
StreamInv == QueuesOK /\ HostOK /\ MemoryOK

-----------------------------------------------------------------------------
(* When operations do not disturb each other.                              *)

\* The client made at most one stream: with the default stream, which is
\* ordered with it, kernels run in the order of the calls.
OneStream == \A s, t \in Streams : s = t

\* The client uses no kernels for PIM, only those of rocblas, which have neither
\* registers nor memory of the executor in common.
OnlyRocblas == \A op \in Ops : op \in {"gemv", "gemvHost", "dummy"}

Separable == OneStream \/ OnlyRocblas

\* Kernels that may run at the same time do not conflict, not even about the
\* executor's buffers and the registers of the channels.
Apart ==
  \A s, t \in AllStreams : s # t /\ ~Ordered(s, t) =>
    \A k \in Kernels(s), l \in Kernels(t) :
      /\ k.out \cap Touches(l) = {}
      /\ k.scratch \cap l.scratch = {}

\* With several created streams no kernel reads a padded scalar, which its call
\* has freed; what else a call fills is the SRF buffer.
TempsApart == OneStream \/ \A k \in InFlight : k.temp \subseteq {Srf}

\* A running kernel still has its registers and partial results.
ScratchKept ==
  \A s \in AllStreams : running[s] =>
    \A r \in Head(queue[s]).scratch : contents[r] = Head(queue[s]).id

\* k is the last writer of r before id i, of the kernels in flight.
LastWriter(k, r, i) ==
  /\ k.id < i /\ r \in k.out
  /\ \A l \in InFlight : l.id < i /\ r \in l.out => l.id <= k.id

NoWriter(r, i) == \A l \in InFlight : l.id < i => r \notin l.out

\* What a kernel issued as number i would read in region r when its turn
\* comes is v.
Delivers(r, i, v) ==
  /\ NoWriter(r, i) => contents[r] = v
  /\ \A k \in InFlight : LastWriter(k, r, i) => v = k.id

\* Every kernel will find what it was issued for, and the last one leaves what
\* the calls had left one after the other.
Flow ==
  /\ \A r \in Regions \ Shared : Delivers(r, MaxCalls + 1, ideal[r])
  /\ \A k \in InFlight : \A r \in DOMAIN k.reads : Delivers(r, k.id, k.reads[r])

\* The inductive invariant behind SequentialResult.
FlowInv == RunsFirst /\ Apart /\ TempsApart /\ ScratchKept /\ Flow

\* A call that waits, waits for the last kernels that write what it promises;
\* once it has returned, none is in flight.
HostWaits ==
  /\ host.pc = "sync" =>
       \A p \in host.c.out, l \in InFlight \ WaitedFor(host.c.stream) : p \in l.out =>
         \E k \in WaitedFor(host.c.stream) : p \in k.out /\ l.id < k.id
  /\ host.pc = "idle" =>
       \A c \in host.done : c.op # "gemv" =>
         \A p \in c.out \cap mine, l \in InFlight : p \notin l.out

-----------------------------------------------------------------------------
(* Queues.                                                                 *)

Elems(q) == {q[i] : i \in DOMAIN q}

\* A sequence is one over any set that has its elements.
LEMMA SeqOfElems ==
  ASSUME NEW S, NEW q \in Seq(S), NEW T, Elems(q) \subseteq T
  PROVE  q \in Seq(T)
<1>1. Len(q) \in Nat /\ q \in [1 .. Len(q) -> S]
  OBVIOUS
<1>2. q \in [1 .. Len(q) -> T]
  BY <1>1 DEF Elems
<1> QED BY <1>1, <1>2, SeqDef

\* What Append adds, and where the head is after it.
LEMMA AppendElems ==
  ASSUME NEW S, NEW q \in Seq(S), NEW k
  PROVE  /\ Append(q, k) \in Seq(S \cup {k})
         /\ Elems(Append(q, k)) = Elems(q) \cup {k}
         /\ Append(q, k) # <<>>
         /\ Head(Append(q, k)) = IF q = <<>> THEN k ELSE Head(q)
<1> DEFINE U == S \cup {k}
<1>1. q \in Seq(U) /\ k \in U
  BY SeqOfElems DEF Elems
<1> HIDE DEF U
<1>2. /\ Append(q, k) \in Seq(U) /\ Append(q, k) # <<>>
      /\ Len(Append(q, k)) = Len(q) + 1
      /\ \A i \in 1 .. Len(q) : Append(q, k)[i] = q[i]
      /\ Append(q, k)[Len(q) + 1] = k
  BY <1>1, AppendProperties
<1>3. /\ DOMAIN q = 1 .. Len(q) /\ DOMAIN Append(q, k) = 1 .. Len(q) + 1
      /\ Len(q) \in Nat
  BY <1>1, <1>2
<1>4. Elems(Append(q, k)) = Elems(q) \cup {k}
  BY <1>2, <1>3 DEF Elems
<1> QED BY <1>1, <1>2, <1>4, HeadTailAppend DEF U

\* A later kernel at the end keeps a queue in the order of the calls.
LEMMA AppendIncreasing ==
  ASSUME NEW S, NEW q \in Seq(S), NEW k, Increasing(q),
         \A x \in Elems(q) : x.id < k.id
  PROVE  Increasing(Append(q, k))
  BY DEF Elems, Increasing

\* The head of a queue is its earliest call.
LEMMA HeadFirst ==
  ASSUME NEW S, NEW q \in Seq(S), q # <<>>, Increasing(q)
  PROVE  /\ Head(q) \in Elems(q)
         /\ \A x \in Elems(q) : x = Head(q) \/ Head(q).id < x.id
  BY DEF Elems, Increasing

\* The tail of a queue is the queue without its head, in the same order.
LEMMA TailElems ==
  ASSUME NEW S, NEW q \in Seq(S), q # <<>>, Increasing(q),
         \A x \in Elems(q) : x.id \in Int
  PROVE  /\ Tail(q) \in Seq(Elems(q) \ {Head(q)})
         /\ Elems(Tail(q)) = Elems(q) \ {Head(q)}
         /\ Increasing(Tail(q))
<1>1. /\ Tail(q) \in Seq(S) /\ Len(q) \in Nat \ {0} /\ Len(Tail(q)) = Len(q) - 1
      /\ \A i \in 1 .. Len(q) - 1 : Tail(q)[i] = q[i + 1]
      /\ DOMAIN q = 1 .. Len(q) /\ DOMAIN Tail(q) = 1 .. Len(q) - 1
      /\ Head(q) = q[1]
  OBVIOUS
<1>2. Increasing(Tail(q))
  BY <1>1 DEF Increasing
<1>3. Elems(Tail(q)) = {q[i] : i \in 2 .. Len(q)}
  <2>1. ASSUME NEW i \in 2 .. Len(q) PROVE q[i] \in Elems(Tail(q))
    <3>1. i - 1 \in DOMAIN Tail(q) /\ Tail(q)[i - 1] = q[i]
      BY <1>1
    <3> QED BY <3>1 DEF Elems
  <2> QED BY <1>1, <2>1 DEF Elems
<1>4. \A i \in 2 .. Len(q) : q[i] # q[1]
  <2>1. ASSUME NEW i \in 2 .. Len(q) PROVE q[i] # q[1]
    <3>1. q[1].id < q[i].id /\ q[1].id \in Int
      BY <1>1 DEF Increasing, Elems
    <3> QED BY <3>1
  <2> QED BY <2>1
<1>5. Elems(q) = {q[i] : i \in 2 .. Len(q)} \cup {q[1]}
  BY <1>1 DEF Elems
<1>6. Elems(Tail(q)) = Elems(q) \ {Head(q)}
  BY <1>1, <1>3, <1>4, <1>5
<1>7. Tail(q) \in Seq(Elems(Tail(q)))
  BY <1>1, SeqOfElems
<1> QED BY <1>2, <1>6, <1>7

\* A queue of the invariant holds its stream's kernels, the earliest first.
LEMMA QueueFacts ==
  ASSUME QueuesOK, NEW s \in AllStreams
  PROVE  /\ queue[s] \in Seq(InFlight) /\ Elems(queue[s]) = Kernels(s)
         /\ Kernels(s) \subseteq InFlight
         /\ queue[s] = <<>> <=> Kernels(s) = {}
         /\ queue[s] # <<>> =>
              /\ Head(queue[s]) \in Kernels(s)
              /\ \A k \in Kernels(s) :
                    k = Head(queue[s]) \/ Head(queue[s]).id < k.id
<1>1. queue[s] \in Seq(InFlight) /\ Elems(queue[s]) = Kernels(s)
  BY DEF QueuesOK, Elems, Kernels
<1>2. Kernels(s) \subseteq InFlight
  BY DEF InFlight
<1>3. queue[s] # <<>> =>
        /\ Head(queue[s]) \in Kernels(s)
        /\ \A k \in Kernels(s) : k = Head(queue[s]) \/ Head(queue[s]).id < k.id
  BY <1>1, HeadFirst DEF QueuesOK
<1>4. queue[s] = <<>> => Kernels(s) = {}
  BY DEF Kernels
<1> QED BY <1>1, <1>2, <1>3, <1>4

\* A launch adds its kernel and leaves the others.
LEMMA Issued ==
  ASSUME QueuesOK, NEW s \in AllStreams, NEW k,
         queue' = [queue EXCEPT ![s] = Append(@, k)]
  PROVE  /\ InFlight' = InFlight \cup {k}
         /\ queue' \in [AllStreams -> Seq(InFlight')]
         /\ Kernels(s)' = Kernels(s) \cup {k}
         /\ \A t \in AllStreams \ {s} :
              Kernels(t)' = Kernels(t) /\ queue'[t] = queue[t]
         /\ queue'[s] # <<>>
         /\ Head(queue'[s]) = IF queue[s] = <<>> THEN k ELSE Head(queue[s])
         /\ queue'[s] = Append(queue[s], k)
<1>1. /\ queue'[s] = Append(queue[s], k)
      /\ \A t \in AllStreams \ {s} : queue'[t] = queue[t]
      /\ DOMAIN queue' = AllStreams
  BY DEF QueuesOK
<1>2. queue[s] \in Seq(InFlight) /\ Elems(queue[s]) = Kernels(s)
  BY QueueFacts
<1>3. /\ queue'[s] \in Seq(InFlight \cup {k})
      /\ Kernels(s)' = Kernels(s) \cup {k}
      /\ queue'[s] # <<>>
      /\ Head(queue'[s]) = IF queue[s] = <<>> THEN k ELSE Head(queue[s])
  BY <1>1, <1>2, AppendElems DEF Kernels, Elems
<1>4. \A t \in AllStreams \ {s} : Kernels(t)' = Kernels(t)
  BY <1>1 DEF Kernels
<1>5. InFlight' = InFlight \cup {k}
  BY <1>3, <1>4 DEF InFlight
<1>6. \A t \in AllStreams : queue'[t] \in Seq(InFlight')
  <2>1. ASSUME NEW t \in AllStreams \ {s} PROVE queue'[t] \in Seq(InFlight')
    BY <1>1, <1>5, QueueFacts, SeqMonotonic
  <2> QED BY <1>3, <1>5, <2>1
<1>7. queue' \in [AllStreams -> Seq(InFlight')]
  BY <1>6 DEF QueuesOK
<1> QED BY <1>1, <1>3, <1>4, <1>5, <1>7

\* A kernel that finishes leaves the others.
LEMMA Retired ==
  ASSUME QueuesOK, NEW s \in AllStreams, queue[s] # <<>>,
         queue' = [queue EXCEPT ![s] = Tail(@)]
  PROVE  /\ InFlight' = InFlight \ {Head(queue[s])}
         /\ queue' \in [AllStreams -> Seq(InFlight')]
         /\ Kernels(s)' = Kernels(s) \ {Head(queue[s])}
         /\ \A t \in AllStreams \ {s} :
              Kernels(t)' = Kernels(t) /\ queue'[t] = queue[t]
         /\ Increasing(queue'[s])
<1> DEFINE k == Head(queue[s])
<1>1. /\ queue'[s] = Tail(queue[s])
      /\ \A t \in AllStreams \ {s} : queue'[t] = queue[t]
  BY DEF QueuesOK
<1>2. /\ queue[s] \in Seq(InFlight) /\ Elems(queue[s]) = Kernels(s)
      /\ k \in Kernels(s)
  BY QueueFacts
<1>3. \A x \in Elems(queue[s]) : x.id \in Int
  BY <1>2, QueueFacts DEF QueuesOK, KernelOK
<1>4. /\ queue'[s] \in Seq(Kernels(s) \ {k})
      /\ Kernels(s)' = Kernels(s) \ {k}
      /\ Increasing(queue'[s])
  <2>1. Increasing(queue[s])
    BY DEF QueuesOK
  <2> QED BY <1>1, <1>2, <1>3, <2>1, TailElems, ZenonT(30) DEF Kernels, Elems
<1>5. \A t \in AllStreams \ {s} : Kernels(t)' = Kernels(t)
  BY <1>1 DEF Kernels
<1>6. \A t \in AllStreams \ {s} : k \notin Kernels(t)
  BY <1>2 DEF QueuesOK
<1> HIDE DEF k
<1>7. InFlight' = InFlight \ {k}
  BY <1>4, <1>5, <1>6 DEF InFlight
<1>8. \A t \in AllStreams : queue'[t] \in Seq(InFlight')
  <2>1. ASSUME NEW t \in AllStreams \ {s} PROVE queue'[t] \in Seq(InFlight')
    <3>1. queue'[t] \in Seq(InFlight) /\ Elems(queue'[t]) \subseteq InFlight'
      BY <1>1, <1>6, <1>7, QueueFacts
    <3> QED BY <3>1, SeqOfElems
  <2>2. Kernels(s) \ {k} \subseteq InFlight'
    BY <1>7, QueueFacts
  <2> QED BY <1>4, <2>1, <2>2, SeqMonotonic
<1>9. queue' \in [AllStreams -> Seq(InFlight')]
  BY <1>8 DEF QueuesOK
<1> QED BY <1>1, <1>4, <1>5, <1>7, <1>9 DEF k

-----------------------------------------------------------------------------
(* Calls.                                                                  *)

\* A call as the client makes it: on its buffers, filling nothing yet.
Fresh(c) ==
  /\ c = Call(c.op, c.stream, c.ins, c.out, c.block)
  /\ c.op \in Ops /\ c.stream \in AllStreams /\ c.block \in BOOLEAN
  /\ c.ins \subseteq mine /\ c.out \subseteq mine

\* One that launches at once uses no memory of its own: bn and the scalar
\* operations fill theirs first.
Direct(c) == Fresh(c) /\ c.op \notin {"bn", "scalar"}

\* One that fills temp first.
Filling(c, temp) ==
  /\ Fresh(c)
  /\ temp \subseteq (Chunks \ mine) \cup {Srf}
  /\ c.op = "scalar" \/ temp \subseteq {Srf}

\* A call the client makes is Fresh.
LEMMA FreshCall ==
  ASSUME NEW op \in Ops, NEW s \in AllStreams, NEW ins \in SUBSET mine,
         NEW out \in SUBSET mine, NEW block \in BOOLEAN
  PROVE  /\ Fresh(Call(op, s, ins, out, block))
         /\ Call(op, s, ins, out, block).op = op
  BY DEF Fresh, Call

\* add, mul, relu, copy and gemm launch with nothing to fill.
LEMMA DirectCall ==
  ASSUME NEW op, op \notin {"bn", "scalar"}, NEW s \in AllStreams,
         NEW ins \in SUBSET mine, NEW out \in SUBSET mine, NEW block \in BOOLEAN,
         Execute(Call(op, s, ins, out, block))
  PROVE  \E c : Direct(c) /\ Execute(c)
<1> DEFINE c == Call(op, s, ins, out, block)
<1>1. op \in Ops
  BY DEF Execute, Call
<1>2. Direct(c)
  BY <1>1, FreshCall DEF Direct
<1> QED BY <1>2

\* bn and the scalar operations fill something before they launch.
LEMMA FillingCall ==
  ASSUME NEW op, NEW s \in AllStreams, NEW ins \in SUBSET mine,
         NEW out \in SUBSET mine, NEW block \in BOOLEAN,
         NEW temp \in SUBSET ((Chunks \ mine) \cup {Srf}),
         op = "scalar" \/ temp \subseteq {Srf},
         ExecuteFilling(Call(op, s, ins, out, block), temp)
  PROVE  \E c, t : Filling(c, t) /\ ExecuteFilling(c, t)
<1> DEFINE c == Call(op, s, ins, out, block)
<1>1. op \in Ops
  BY DEF ExecuteFilling, Call
<1>2. Filling(c, temp)
  BY <1>1, FreshCall DEF Filling
<1> QED BY <1>2

\* The client's steps: every operation is one of two kinds of call.
LEMMA ClientSteps ==
  ASSUME Client
  PROVE  \/ \E c : Direct(c) /\ Execute(c)
         \/ \E c, t : Filling(c, t) /\ ExecuteFilling(c, t)
         \/ \E o \in mine : Upload(o)
         \/ \E s \in AllStreams : PimSynchronize(s)
         \/ \E p \in Chunks : PimCreateBo(p) \/ PimDestroyBo(p)
         \/ PimExecuteScalarNull
<1> DEFINE Goal == \/ \E c : Direct(c) /\ Execute(c)
                  \/ \E c, t : Filling(c, t) /\ ExecuteFilling(c, t)
<1>1. ASSUME NEW s \in AllStreams, NEW o \in mine, NEW block \in BOOLEAN,
             PimExecuteElt(s, o, block)
      PROVE  Goal
  <2> PICK a \in mine :
        \/ \E b \in mine : \/ execute_add(s, a, b, o, block)
                           \/ execute_mul(s, a, b, o, block)
        \/ execute_relu(s, a, o, block)
        \/ PimExecuteScalar(s, a, o, block)
        \/ execute_bn(s, a, o, block)
    BY <1>1 DEF PimExecuteElt
  <2>1. ASSUME NEW b \in mine, execute_add(s, a, b, o, block)
        PROVE  Goal
    BY <2>1, DirectCall DEF execute_add
  <2>2. ASSUME NEW b \in mine, execute_mul(s, a, b, o, block)
        PROVE  Goal
    BY <2>2, DirectCall DEF execute_mul
  <2>3. CASE execute_relu(s, a, o, block)
    BY <2>3, DirectCall DEF execute_relu
  <2>4. CASE PimExecuteScalar(s, a, o, block)
    BY <2>4, FillingCall DEF PimExecuteScalar
  <2>5. CASE execute_bn(s, a, o, block)
    BY <2>5, FillingCall DEF execute_bn
  <2> QED BY <2>1, <2>2, <2>3, <2>4, <2>5
<1>2. ASSUME NEW s \in AllStreams, NEW o \in mine, NEW block \in BOOLEAN,
             PimExecuteGemm(s, o, block)
      PROVE  Goal
  <2> PICK a \in mine :
        \/ \E w \in mine, bias \in {{}} \cup {{b} : b \in mine} :
             \/ execute_aligned_gemm_tile_accum(s, a, w, bias, o, block)
             \/ execute_chwise_gemm_tile_accum(s, a, w, bias, o, block)
        \/ \E w \in mine, add \in BOOLEAN : execute_custom_gemv(s, a, w, o, add, block)
        \/ \E add \in BOOLEAN : execute_custom_gemv_host(s, a, o, add, block)
        \/ \E w \in mine, b \in mine \ {o} : execute_custom_gemv_add(s, a, w, b, o, block)
    BY <1>2 DEF PimExecuteGemm
  <2>0. ASSUME NEW bias \in {{}} \cup {{b} : b \in mine} PROVE bias \subseteq mine
    BY <2>0
  <2>1. ASSUME NEW w \in mine, NEW bias \in {{}} \cup {{b} : b \in mine},
               execute_aligned_gemm_tile_accum(s, a, w, bias, o, block)
        PROVE  Goal
    <3>1. {a, w} \cup bias \subseteq mine
      BY <2>0
    <3> QED BY <2>1, <3>1, DirectCall DEF execute_aligned_gemm_tile_accum
  <2>2. ASSUME NEW w \in mine, NEW bias \in {{}} \cup {{b} : b \in mine},
               execute_chwise_gemm_tile_accum(s, a, w, bias, o, block)
        PROVE  Goal
    <3>1. {a, w} \cup bias \subseteq mine
      BY <2>0
    <3> QED BY <2>2, <3>1, DirectCall DEF execute_chwise_gemm_tile_accum
  <2>3. ASSUME NEW w \in mine, NEW add \in BOOLEAN, execute_custom_gemv(s, a, w, o, add, block)
        PROVE  Goal
    BY <2>3, DirectCall DEF execute_custom_gemv, GemvInputs
  <2>4. ASSUME NEW add \in BOOLEAN, execute_custom_gemv_host(s, a, o, add, block)
        PROVE  Goal
    BY <2>4, FillingCall DEF execute_custom_gemv_host, GemvInputs
  <2>5. ASSUME NEW w \in mine, NEW b \in mine, execute_custom_gemv_add(s, a, w, b, o, block)
        PROVE  Goal
    BY <2>5, DirectCall DEF execute_custom_gemv_add
  <2> QED BY <2>1, <2>2, <2>3, <2>4, <2>5
<1>3. ASSUME NEW a \in mine, NEW o \in mine, execute_copy(a, o)
      PROVE  Goal
  BY <1>3, DirectCall DEF execute_copy, AllStreams
<1>4. CASE execute_dummy
  BY <1>4, DirectCall DEF execute_dummy, AllStreams
<1> QED BY <1>1, <1>2, <1>3, <1>4 DEF Client

-----------------------------------------------------------------------------
(* The first invariant.                                                    *)

KernelOf(c, before) ==
  [id |-> c.id, reads |-> [r \in c.ins |-> before[r]], out |-> c.out,
   temp |-> c.temp, scratch |-> Scratch(c.op)]

\* What a call may launch as the next kernel, and what of the state changes
\* with it.
Launches(c, before) ==
  /\ c.stream \in AllStreams
  /\ c.id \in 1 .. MaxCalls /\ calls' = c.id /\ calls <= c.id
  /\ \A k \in InFlight : k.id < c.id
  /\ c.ins \subseteq Chunks \cup {Srf} /\ c.out \subseteq mine
  /\ before \in [Regions -> Id \cup {Garbage}]
  /\ contents' \in [Regions -> Id \cup {Garbage}]
  /\ mine' = mine /\ running' = running

\* What a kernel takes over from its call.
LEMMA KernelOfFields ==
  ASSUME NEW c, NEW before
  PROVE  LET k == KernelOf(c, before) IN
         /\ k.id = c.id /\ k.out = c.out /\ k.temp = c.temp
         /\ DOMAIN k.reads = c.ins
         /\ \A r \in c.ins : k.reads[r] = before[r]
         /\ k.scratch = Scratch(c.op) /\ k.scratch \subseteq Shared
  BY DEF KernelOf, Scratch, Shared

\* Where the host is after a launch: idle, with nothing promised but by a call
\* to rocblas, or waiting for this call.
LEMMA WaitHost ==
  ASSUME NEW c, Wait(c)
  PROVE  /\ host'.pc \in {"idle", "sync", "hipFree"}
         /\ host'.pc = "idle" => \A d \in host'.done : d.op = "gemv"
         /\ host'.pc # "idle" => host'.c = c
<1>1. \/ host' = [pc |-> "hipFree", c |-> c]
      \/ host' = [pc |-> "sync", c |-> c]
      \/ /\ host' = [pc |-> "idle", done |-> IF c.block THEN {[op |-> c.op, out |-> c.out]} ELSE {}]
         /\ c.op = "gemv" \/ ~c.block
  BY DEF Wait, Returned, Idle
<1> QED BY <1>1

\* A launch keeps StreamInv.
LEMMA LaunchInv ==
  ASSUME StreamInv, NEW c, NEW before, Launches(c, before), Launch(c, before)
  PROVE  StreamInv'
<1> DEFINE k == KernelOf(c, before)
<1> USE DEF Launches
<1>1. queue' = [queue EXCEPT ![c.stream] = Append(@, k)]
  BY DEF Launch, KernelOf
<1>2. /\ k.id = c.id /\ k.out = c.out /\ DOMAIN k.reads = c.ins
      /\ k.scratch \subseteq Shared
  BY KernelOfFields
<1> HIDE DEF k
<1>3. /\ InFlight' = InFlight \cup {k}
      /\ queue' \in [AllStreams -> Seq(InFlight')]
      /\ Kernels(c.stream)' = Kernels(c.stream) \cup {k}
      /\ \A t \in AllStreams \ {c.stream} :
           Kernels(t)' = Kernels(t) /\ queue'[t] = queue[t]
      /\ queue'[c.stream] # <<>>
      /\ queue'[c.stream] = Append(queue[c.stream], k)
  BY <1>1, Issued DEF StreamInv
<1>4. QueuesOK'
  <2>1. Increasing(queue'[c.stream])
    BY <1>2, <1>3, AppendIncreasing, QueueFacts DEF StreamInv, QueuesOK
  <2>2. \A s \in AllStreams : Increasing(queue[s])' /\ (running'[s] => queue'[s] # <<>>)
    BY <1>3, <2>1 DEF StreamInv, QueuesOK, Increasing
  <2>3. \A x \in InFlight' : KernelOK(x)'
    <3>1. ASSUME NEW x \in InFlight PROVE KernelOK(x)'
      BY DEF StreamInv, QueuesOK, KernelOK, MemoryOK, Id
    <3>2. KernelOK(k)'
      BY <1>2 DEF KernelOK, StreamInv, MemoryOK
    <3> QED BY <1>3, <3>1, <3>2
  <2>4. \A s, t \in AllStreams : s # t =>
          \A x \in Kernels(s)', y \in Kernels(t)' : x.id # y.id
    <3>1. \A t \in AllStreams : \A y \in Kernels(t) : y.id # k.id
      BY <1>2, QueueFacts DEF StreamInv
    <3>2. ASSUME NEW s \in AllStreams, NEW t \in AllStreams, s # t,
                 NEW x \in Kernels(s)', NEW y \in Kernels(t)'
          PROVE  x.id # y.id
      <4>1. CASE x \in Kernels(s) /\ y \in Kernels(t)
        BY <3>2, <4>1 DEF StreamInv, QueuesOK
      <4>2. CASE s = c.stream /\ x = k
        BY <1>3, <3>1, <3>2, <4>2
      <4>3. CASE t = c.stream /\ y = k
        BY <1>3, <3>1, <3>2, <4>3
      <4> QED BY <1>3, <3>2, <4>1, <4>2, <4>3
    <3> QED BY <3>2
  <2> QED BY <1>3, <2>2, <2>3, <2>4 DEF QueuesOK, StreamInv
<1>5. HostOK'
  <2>1. Wait(c)
    BY DEF Launch
  <2> QED BY <2>1, WaitHost DEF HostOK
<1>6. MemoryOK'
  BY DEF Launch, StreamInv, MemoryOK, Id, Regions
<1> QED BY <1>4, <1>5, <1>6 DEF StreamInv

\* A call that launches at once, and one that has filled its memory.
LEMMA DirectLaunches ==
  ASSUME StreamInv, NEW c, Direct(c), Execute(c)
  PROVE  Launches(c, ideal) /\ Launch(c, ideal)
<1>1. c.id = calls + 1
  BY DEF Direct, Fresh, Call
<1>2. \A k \in InFlight : k.id < c.id
  BY <1>1 DEF StreamInv, QueuesOK, KernelOK, MemoryOK, Id
<1>3. c.id \in 1 .. MaxCalls /\ calls' = c.id /\ calls <= c.id
  BY <1>1, StreamConstants DEF Execute, Begin, StreamInv, MemoryOK, Id
<1>4. Launch(c, ideal) /\ mine' = mine /\ running' = running /\ contents' = contents
  BY DEF Execute
<1> QED BY <1>2, <1>3, <1>4 DEF Launches, Direct, Fresh, StreamInv, MemoryOK

Fill(f) ==
  [r \in Regions |-> IF r \in host.c.temp THEN host.c.id ELSE f[r]]

\* The end of a copy that is not an upload launches the call.
LEMMA CopiedLaunches ==
  ASSUME StreamInv, hipMemcpy, host.c.op # "upload"
  PROVE  Launches(host.c, Fill(ideal)) /\ Launch(host.c, Fill(ideal))
<1> DEFINE c == host.c
<1>1. Pending(c) /\ c.stream \in AllStreams
  BY DEF StreamInv, HostOK, hipMemcpy
<1>2. Launch(c, Fill(ideal)) /\ contents' = Fill(contents)
  BY DEF hipMemcpy, Fill
<1>3. mine' = mine /\ running' = running /\ calls' = calls
  BY DEF hipMemcpy
<1>4. c.id \in Id
  BY <1>1 DEF Pending, Id
<1>5. \A f \in [Regions -> Id \cup {Garbage}] : Fill(f) \in [Regions -> Id \cup {Garbage}]
  BY <1>4 DEF Fill
<1>6. \A k \in InFlight : k.id < c.id
  BY <1>1 DEF Pending, StreamInv, QueuesOK, KernelOK, MemoryOK, Id
<1>7. c.id \in 1 .. MaxCalls /\ calls' = c.id /\ calls <= c.id
  BY <1>1, <1>3 DEF Pending, StreamInv, MemoryOK, Id
<1>8. c.ins \subseteq Chunks \cup {Srf} /\ c.out \subseteq mine
  BY <1>1 DEF Pending, StreamInv, MemoryOK
<1> QED BY <1>1, <1>2, <1>3, <1>5, <1>6, <1>7, <1>8 DEF Launches, StreamInv, MemoryOK

\* With the same queues the same kernels are in flight.
LEMMA SameQueue ==
  ASSUME queue' = queue
  PROVE  InFlight' = InFlight /\ \A s \in AllStreams : Kernels(s)' = Kernels(s)
  BY DEF InFlight, Kernels

\* A step that neither launches nor finishes a kernel keeps QueuesOK, when it
\* takes no buffer a kernel writes.
LEMMA QueuesKept ==
  ASSUME StreamInv, queue' = queue, running' = running,
         calls' \in Id, calls <= calls',
         \A k \in InFlight : k.out \subseteq mine'
  PROVE  QueuesOK'
<1>1. \A k \in InFlight : KernelOK(k)'
  BY StreamConstants DEF StreamInv, QueuesOK, KernelOK, MemoryOK, Id
<1> QED BY <1>1, SameQueue DEF StreamInv, QueuesOK, Increasing

\* Init establishes StreamInv.
LEMMA StreamInitInv == Init => StreamInv
<1> SUFFICES ASSUME Init PROVE StreamInv
  OBVIOUS
<1>1. \A s \in AllStreams : queue[s] = <<>> /\ Kernels(s) = {}
  BY DEF Init, Kernels
<1>2. InFlight = {}
  BY <1>1 DEF InFlight
<1>3. queue \in [AllStreams -> Seq(InFlight)]
  BY EmptySeq DEF Init
<1>4. QueuesOK
  BY <1>1, <1>2, <1>3 DEF Init, QueuesOK, Increasing
<1>5. HostOK
  BY DEF Init, Idle, HostOK
<1>6. MemoryOK
  BY StreamConstants DEF Init, MemoryOK, Id, Regions
<1> QED BY <1>4, <1>5, <1>6 DEF StreamInv

\* A call that fills something first keeps StreamInv.
LEMMA FillingInv ==
  ASSUME StreamInv, NEW c, NEW temp, Filling(c, temp), ExecuteFilling(c, temp)
  PROVE  StreamInv'
<1> DEFINE d == [c EXCEPT !.ins = @ \cup temp, !.temp = temp]
<1>1. /\ c = [op |-> c.op, id |-> calls + 1, stream |-> c.stream, ins |-> c.ins,
              out |-> c.out, block |-> c.block, temp |-> {}]
      /\ c.op \in Ops /\ c.stream \in AllStreams
      /\ c.ins \subseteq mine /\ c.out \subseteq mine
      /\ temp \subseteq (Chunks \ mine) \cup {Srf}
      /\ c.op = "scalar" \/ temp \subseteq {Srf}
  BY DEF Filling, Fresh, Call
<1>2. /\ d.op = c.op /\ d.id = calls + 1 /\ d.stream = c.stream
      /\ d.ins = c.ins \cup temp /\ d.out = c.out /\ d.temp = temp
  BY <1>1
<1>3. host' = [pc |-> "hipMemcpy", c |-> d]
  BY DEF ExecuteFilling
<1> HIDE DEF d
<1>4. /\ calls' = calls + 1 /\ calls < MaxCalls /\ calls \in Id /\ calls' \in Id
      /\ queue' = queue /\ running' = running /\ mine' = mine
      /\ contents' = contents /\ ideal' = ideal
  BY StreamConstants DEF ExecuteFilling, Begin, StreamInv, MemoryOK, Id
<1>5. QueuesOK'
  BY <1>4, QueuesKept DEF StreamInv, QueuesOK, KernelOK, Id
<1>6. d.op # "upload"
  BY <1>1, <1>2, StreamConstants DEF AllOps
<1>7. mine \subseteq Chunks /\ Srf \notin mine
  BY StreamConstants DEF StreamInv, MemoryOK
<1>8. Pending(d)'
  <2>1. \A k \in InFlight' : k.id # d.id
    BY <1>2, <1>4, SameQueue DEF StreamInv, QueuesOK, KernelOK, Id
  <2>2. d.id = calls' /\ d.id \in 1 .. MaxCalls
    BY <1>2, <1>4 DEF Id
  <2> QED BY <1>1, <1>2, <1>4, <1>6, <1>7, <2>1, <2>2 DEF Pending
<1>9. HostOK'
  BY <1>1, <1>2, <1>3, <1>8 DEF HostOK
<1> QED BY <1>4, <1>5, <1>9 DEF StreamInv, MemoryOK

\* The client's upload keeps StreamInv.
LEMMA UploadInv ==
  ASSUME StreamInv, NEW o \in mine, Upload(o)
  PROVE  StreamInv'
<1>1. PICK d : d = [Call("upload", NullStream, {}, {o}, TRUE) EXCEPT !.temp = {o}]
  OBVIOUS
<1>2. /\ d.op = "upload" /\ d.id = calls + 1 /\ d.stream = NullStream
      /\ d.ins = {} /\ d.out = {o} /\ d.temp = {o}
  BY <1>1 DEF Call
<1>3. host' = [pc |-> "hipMemcpy", c |-> d]
  BY <1>1 DEF Upload
<1>4. /\ calls' = calls + 1 /\ calls < MaxCalls /\ calls \in Id /\ calls' \in Id
      /\ queue' = queue /\ running' = running /\ mine' = mine
      /\ contents' = contents /\ ideal' = ideal
  BY StreamConstants DEF Upload, Begin, StreamInv, MemoryOK, Id
<1>5. QueuesOK'
  BY <1>4, QueuesKept DEF StreamInv, QueuesOK, KernelOK, Id
<1>6. Pending(d)'
  <2>1. \A k \in InFlight' : k.id # d.id
    BY <1>2, <1>4, SameQueue DEF StreamInv, QueuesOK, KernelOK, Id
  <2>2. d.id = calls' /\ d.id \in 1 .. MaxCalls
    BY <1>2, <1>4 DEF Id
  <2>3. mine \subseteq Chunks
    BY DEF StreamInv, MemoryOK
  <2> QED BY <1>2, <1>4, <2>1, <2>2, <2>3 DEF Pending
<1>7. HostOK'
  BY <1>2, <1>3, <1>6 DEF HostOK, AllStreams
<1> QED BY <1>4, <1>5, <1>7 DEF StreamInv, MemoryOK

\* hipMemcpy keeps StreamInv.
LEMMA CopyInv ==
  ASSUME StreamInv, hipMemcpy
  PROVE  StreamInv'
<1>1. CASE host.c.op # "upload"
  BY <1>1, CopiedLaunches, LaunchInv
<1>2. CASE host.c.op = "upload"
  <2>1. /\ ideal' = Fill(ideal) /\ contents' = Fill(contents)
        /\ host' = Returned(host.c) /\ queue' = queue
        /\ running' = running /\ mine' = mine /\ calls' = calls
    BY <1>2 DEF hipMemcpy, Fill
  <2>2. host.c.id \in Id
    BY DEF StreamInv, HostOK, hipMemcpy, Pending, Id
  <2>3. MemoryOK'
    BY <2>1, <2>2 DEF StreamInv, MemoryOK, Fill
  <2>4. QueuesOK'
    BY <2>1, QueuesKept DEF StreamInv, QueuesOK, KernelOK, MemoryOK, Id
  <2>5. HostOK'
    BY <2>1 DEF HostOK, Returned, Idle
  <2> QED BY <2>3, <2>4, <2>5 DEF StreamInv
<1> QED BY <1>1, <1>2

\* A client's thread waits and returns.
LEMMA WaitInv ==
  ASSUME StreamInv, Return \/ \E s \in AllStreams : PimSynchronize(s)
  PROVE  StreamInv'
<1>1. /\ queue' = queue /\ running' = running /\ mine' = mine /\ calls' = calls
      /\ contents' = contents /\ ideal' = ideal
  BY DEF Return, PimSynchronize
<1>2. QueuesOK' /\ MemoryOK'
  BY <1>1, QueuesKept DEF StreamInv, QueuesOK, KernelOK, MemoryOK, Id
<1>3. CASE Return
  <2>1. host'.pc = "idle"
    BY <1>3 DEF Return, Returned, Idle
  <2> QED BY <1>2, <2>1 DEF StreamInv, HostOK
<1>4. ASSUME NEW s \in AllStreams, PimSynchronize(s)
      PROVE  StreamInv'
  <2>1. host'.pc = "sync" /\ host'.c.stream = s
    BY <1>4 DEF PimSynchronize, Call
  <2> QED BY <1>2, <1>4, <2>1 DEF StreamInv, HostOK
<1> QED BY <1>3, <1>4

\* So does a call without room for its padded scalar.
LEMMA NullInv ==
  ASSUME StreamInv, PimExecuteScalarNull
  PROVE  StreamInv'
<1>1. /\ queue' = queue /\ running' = running /\ mine' = mine
      /\ contents' = contents /\ ideal' = ideal /\ host'.pc = "undefined"
      /\ calls' = calls + 1 /\ calls < MaxCalls
  BY DEF PimExecuteScalarNull, Begin
<1>2. calls \in Id /\ calls' \in Id /\ calls <= calls'
  BY <1>1, StreamConstants DEF StreamInv, MemoryOK, Id
<1>3. QueuesOK'
  BY <1>1, <1>2, QueuesKept DEF StreamInv, QueuesOK, KernelOK
<1> QED BY <1>1, <1>2, <1>3 DEF StreamInv, MemoryOK, HostOK

\* Buffers created and destroyed keep StreamInv.
LEMMA BufferInv ==
  ASSUME StreamInv, NEW p \in Chunks, PimCreateBo(p) \/ PimDestroyBo(p)
  PROVE  StreamInv'
<1>1. /\ queue' = queue /\ running' = running /\ calls' = calls /\ host' = host
      /\ contents' = contents /\ host.pc = "idle"
  BY DEF PimCreateBo, PimDestroyBo
<1>2. \A k \in InFlight : k.out \subseteq mine'
  <2>1. CASE PimCreateBo(p)
    BY <2>1 DEF PimCreateBo, StreamInv, QueuesOK, KernelOK
  <2>2. CASE PimDestroyBo(p)
    BY <2>2 DEF PimDestroyBo, Operands, StreamInv, QueuesOK, KernelOK
  <2> QED BY <2>1, <2>2
<1>3. QueuesOK'
  BY <1>1, <1>2, QueuesKept DEF StreamInv, MemoryOK, Id
<1>4. MemoryOK'
  BY <1>1 DEF PimCreateBo, PimDestroyBo, StreamInv, MemoryOK, Regions
<1>5. HostOK'
  BY <1>1 DEF StreamInv, HostOK
<1> QED BY <1>3, <1>4, <1>5 DEF StreamInv

\* The head of a queue is a kernel in flight.
LEMMA HeadOK ==
  ASSUME StreamInv, NEW s \in AllStreams, queue[s] # <<>>
  PROVE  /\ Head(queue[s]) \in InFlight /\ KernelOK(Head(queue[s]))
         /\ Head(queue[s]).id \in Id
<1>1. QueuesOK
  BY DEF StreamInv
<1>2. Head(queue[s]) \in InFlight
  BY <1>1, QueueFacts
<1>3. KernelOK(Head(queue[s]))
  BY <1>1, <1>2 DEF QueuesOK
<1> QED BY <1>2, <1>3, StreamConstants DEF KernelOK, StreamInv, MemoryOK, Id

\* A kernel's start keeps StreamInv.
LEMMA StartInv ==
  ASSUME StreamInv, NEW s \in AllStreams, KernelStart(s)
  PROVE  StreamInv'
<1>1. /\ queue' = queue /\ ideal' = ideal /\ mine' = mine /\ host' = host
      /\ calls' = calls /\ running' = [running EXCEPT ![s] = TRUE]
      /\ queue[s] # <<>>
  BY DEF KernelStart, CanStart
<1>2. Head(queue[s]).id \in Id
  BY <1>1, HeadOK
<1>3. MemoryOK'
  BY <1>1, <1>2 DEF KernelStart, StreamInv, MemoryOK, Regions
<1>4. \A k \in InFlight : KernelOK(k)'
  BY <1>1 DEF StreamInv, QueuesOK, KernelOK
<1>5. QueuesOK'
  BY <1>1, <1>4, SameQueue DEF StreamInv, QueuesOK, Increasing
<1>6. HostOK'
  BY <1>1, SameQueue DEF StreamInv, HostOK, Pending
<1> QED BY <1>3, <1>5, <1>6 DEF StreamInv

\* A kernel's end keeps StreamInv.
LEMMA FinishInv ==
  ASSUME StreamInv, NEW s \in AllStreams, KernelFinish(s)
  PROVE  StreamInv'
<1> DEFINE k == Head(queue[s])
<1>1. /\ queue' = [queue EXCEPT ![s] = Tail(@)] /\ ideal' = ideal /\ mine' = mine
      /\ host' = host /\ calls' = calls /\ running' = [running EXCEPT ![s] = FALSE]
      /\ queue[s] # <<>>
  BY DEF KernelFinish, StreamInv, QueuesOK
<1>2. k.id \in Id
  BY <1>1, HeadOK
<1>3. MemoryOK'
  BY <1>1, <1>2 DEF KernelFinish, StreamInv, MemoryOK
<1>4. /\ InFlight' = InFlight \ {k}
      /\ queue' \in [AllStreams -> Seq(InFlight')]
      /\ Kernels(s)' = Kernels(s) \ {k}
      /\ \A t \in AllStreams \ {s} :
           Kernels(t)' = Kernels(t) /\ queue'[t] = queue[t]
      /\ Increasing(queue'[s])
  BY <1>1, Retired DEF StreamInv
<1> HIDE DEF k
<1>5. QueuesOK'
  <2>1. \A t \in AllStreams : Increasing(queue[t])' /\ (running'[t] => queue'[t] # <<>>)
    BY <1>1, <1>4 DEF StreamInv, QueuesOK, Increasing
  <2>2. \A x \in InFlight' : KernelOK(x)'
    BY <1>1, <1>4 DEF StreamInv, QueuesOK, KernelOK
  <2>3. \A t \in AllStreams : Kernels(t)' \subseteq Kernels(t)
    BY <1>4
  <2>4. running' \in [AllStreams -> BOOLEAN]
    BY <1>1 DEF StreamInv, QueuesOK
  <2>5. \A t, u \in AllStreams : t # u =>
          \A x \in Kernels(t)', y \in Kernels(u)' : x.id # y.id
    <3>1. \A t, u \in AllStreams : t # u =>
            \A x \in Kernels(t), y \in Kernels(u) : x.id # y.id
      BY DEF StreamInv, QueuesOK
    <3> QED BY <2>3, <3>1
  <2> QED BY <1>4, <2>1, <2>2, <2>4, <2>5 DEF QueuesOK
<1>6. HostOK'
  <2>1. ASSUME NEW c, Pending(c) PROVE Pending(c)'
    BY <1>1, <1>4, <2>1 DEF Pending
  <2> QED BY <1>1, <2>1 DEF StreamInv, HostOK
<1> QED BY <1>3, <1>5, <1>6 DEF StreamInv

\* Every step keeps StreamInv.
LEMMA StreamNextInv == StreamInv /\ [Next]_vars => StreamInv'
<1> SUFFICES ASSUME StreamInv, [Next]_vars PROVE StreamInv'
  OBVIOUS
<1>1. CASE Client
  <2>1. ASSUME NEW c, Direct(c), Execute(c) PROVE StreamInv'
    BY <2>1, DirectLaunches, LaunchInv
  <2>2. ASSUME NEW c, NEW t, Filling(c, t), ExecuteFilling(c, t) PROVE StreamInv'
    BY <2>2, FillingInv
  <2>3. CASE PimExecuteScalarNull
    BY <2>3, NullInv
  <2> QED BY <1>1, <2>1, <2>2, <2>3, ClientSteps, UploadInv, WaitInv, BufferInv
<1>2. CASE hipMemcpy
  BY <1>2, CopyInv
<1>3. CASE Return
  BY <1>3, WaitInv
<1>4. CASE Device
  BY <1>4, StartInv, FinishInv DEF Device
<1>5. CASE UNCHANGED vars
  <2>1. \A k \in InFlight : KernelOK(k)'
    BY <1>5 DEF vars, StreamInv, QueuesOK, KernelOK
  <2>2. QueuesOK'
    BY <1>5, <2>1, SameQueue DEF vars, StreamInv, QueuesOK, Increasing
  <2>3. HostOK' /\ MemoryOK'
    BY <1>5, SameQueue DEF vars, StreamInv, HostOK, MemoryOK, Pending
  <2> QED BY <2>2, <2>3 DEF StreamInv
<1> QED BY <1>1, <1>2, <1>3, <1>4, <1>5 DEF Next

\* StreamInv is an invariant.
LEMMA StreamInvHolds == Spec => []StreamInv
  BY StreamInitInv, StreamNextInv, PTL DEF Spec

\* Whatever the client calls, on any number of streams, kernels in flight and
\* the memory keep their types, and what an operation fills for itself is no
\* buffer of the client (the executor's launches and copies).
THEOREM StreamTypes == Spec => []TypeOK
<1>1. StreamInv => TypeOK
  <2> SUFFICES ASSUME StreamInv PROVE TypeOK
    OBVIOUS
  <2>1. \A k \in InFlight : k.id \in Id /\ Touches(k) \subseteq Regions
    <3> SUFFICES ASSUME NEW k \in InFlight
                 PROVE  k.id \in Id /\ Touches(k) \subseteq Regions
      OBVIOUS
    <3>1. KernelOK(k) /\ mine \subseteq Chunks /\ calls \in Id
      BY DEF StreamInv, QueuesOK, MemoryOK
    <3>2. k.id \in Id
      BY <3>1, StreamConstants DEF KernelOK, Id
    <3>3. Touches(k) \subseteq Regions
      BY <3>1 DEF KernelOK, Touches, Regions
    <3> QED BY <3>2, <3>3
  <2>2. host.pc = "hipMemcpy" => host.c.temp \cap mine \subseteq host.c.out
    BY DEF StreamInv, HostOK, Pending
  <2> QED BY <2>1, <2>2 DEF StreamInv, MemoryOK, HostOK, TypeOK
<1> QED BY <1>1, StreamInvHolds, PTL

-----------------------------------------------------------------------------
(* The second invariant.                                                   *)

LEMMA NotShared ==
  ASSUME StreamInv, NEW k \in InFlight
  PROVE  /\ DOMAIN k.reads \subseteq Regions \ Shared
         /\ k.out \subseteq Chunks /\ k.out \cap Shared = {}
         /\ k.scratch \subseteq Shared
         /\ k.id \in Int /\ k.id <= MaxCalls
<1>1. KernelOK(k) /\ mine \subseteq Chunks /\ calls \in 0 .. MaxCalls
  BY DEF StreamInv, QueuesOK, MemoryOK, Id
<1>2. Tmp # Srf /\ Units # Srf
  BY DEF Tmp, Srf, Units
<1>3. k.out \subseteq Chunks /\ k.scratch \subseteq Shared
  BY <1>1 DEF KernelOK
<1>4. k.out \cap Shared = {}
  BY <1>3, StreamConstants DEF Shared
<1>5. DOMAIN k.reads \subseteq Regions \ Shared
  <2>1. DOMAIN k.reads \subseteq Chunks \cup {Srf}
    BY <1>1 DEF KernelOK
  <2>2. (Chunks \cup {Srf}) \cap Shared = {}
    BY <1>2, StreamConstants DEF Shared
  <2> QED BY <2>1, <2>2 DEF Regions
<1>6. k.id \in Int /\ k.id <= MaxCalls
  BY <1>1, StreamConstants DEF KernelOK
<1> QED BY <1>3, <1>4, <1>5, <1>6

\* Init establishes FlowInv.
LEMMA FlowInitInv == Init => FlowInv
<1> SUFFICES ASSUME Init PROVE FlowInv
  OBVIOUS
<1>1. \A s \in AllStreams : Kernels(s) = {} /\ ~running[s]
  BY DEF Init, Kernels
<1>2. InFlight = {}
  BY <1>1 DEF InFlight
<1>3. Flow
  BY <1>2 DEF Init, Flow, Delivers, Regions
<1> QED BY <1>1, <1>2, <1>3 DEF FlowInv, RunsFirst, Apart, TempsApart, ScratchKept

\* The memory a launch finds: what the kernels in flight will leave is before.
LEMMA LaunchFlow ==
  ASSUME StreamInv, FlowInv, NEW c, NEW before,
         Launches(c, before), Launch(c, before),
         InFlight = {} \/ contents' = contents,
         \A r \in Regions \ Shared :
           /\ NoWriter(r, MaxCalls + 1) => contents'[r] = before[r]
           /\ \A l \in InFlight : LastWriter(l, r, MaxCalls + 1) => before[r] = l.id,
         \A t \in AllStreams \ {c.stream} : ~Ordered(c.stream, t) =>
           \A l \in Kernels(t) :
             /\ c.out \cap Touches(l) = {} /\ l.out \cap c.ins = {}
             /\ Scratch(c.op) \cap l.scratch = {},
         OneStream \/ c.temp \subseteq {Srf}
  PROVE  FlowInv'
<1> DEFINE k == KernelOf(c, before)
<1>1. queue' = [queue EXCEPT ![c.stream] = Append(@, k)]
  BY DEF Launch, KernelOf
<1>2. /\ k.id = c.id /\ k.out = c.out /\ DOMAIN k.reads = c.ins /\ k.temp = c.temp
      /\ \A r \in c.ins : k.reads[r] = before[r]
      /\ k.scratch = Scratch(c.op)
  BY KernelOfFields
<1> HIDE DEF k
<1>3. /\ InFlight' = InFlight \cup {k}
      /\ Kernels(c.stream)' = Kernels(c.stream) \cup {k}
      /\ \A t \in AllStreams \ {c.stream} :
           Kernels(t)' = Kernels(t) /\ queue'[t] = queue[t]
      /\ Head(queue'[c.stream]) =
           IF queue[c.stream] = <<>> THEN k ELSE Head(queue[c.stream])
  BY <1>1, Issued DEF StreamInv, Launches
<1>4. /\ running' = running /\ c.stream \in AllStreams /\ c.id \in 1 .. MaxCalls
      /\ \A l \in InFlight : l.id < c.id
      /\ MaxCalls \in Nat
  BY StreamConstants DEF Launches
<1>5. \A s \in AllStreams : running[s] =>
        /\ Head(queue'[s]) = Head(queue[s])
        /\ Head(queue[s]) \in Kernels(s) /\ Head(queue[s]) \in InFlight
  BY <1>3, QueueFacts DEF StreamInv, QueuesOK
<1>6. RunsFirst'
  <2> SUFFICES ASSUME NEW s \in AllStreams, running[s], NEW t \in AllStreams \ {s},
                      Ordered(s, t), NEW l \in Kernels(t)'
               PROVE  l.id > Head(queue[s]).id
    BY <1>4, <1>5 DEF RunsFirst, Ordered
  <2>1. l \in Kernels(t) => l.id > Head(queue[s]).id
    BY DEF FlowInv, RunsFirst
  <2>2. l = k \/ l \in Kernels(t)
    BY <1>3
  <2>3. k.id > Head(queue[s]).id
    BY <1>2, <1>4, <1>5, NotShared
  <2> QED BY <2>1, <2>2, <2>3
<1>7. Apart'
  <2> SUFFICES ASSUME NEW s \in AllStreams, NEW t \in AllStreams, s # t,
                      ~Ordered(s, t),
                      NEW x \in Kernels(s)', NEW y \in Kernels(t)'
               PROVE  x.out \cap Touches(y) = {} /\ x.scratch \cap y.scratch = {}
    BY DEF Apart, Ordered, Touches
  <2>1. CASE x \in Kernels(s) /\ y \in Kernels(t)
    BY <2>1 DEF FlowInv, Apart
  <2>2. CASE s = c.stream /\ x = k
    BY <1>2, <1>3, <2>2
  <2>3. CASE t = c.stream /\ y = k
    <3>1. x \in Kernels(s) /\ ~Ordered(t, s)
      BY <1>3, <2>3 DEF Ordered
    <3>2. Touches(k) = c.ins \cup c.out
      BY <1>2 DEF Touches
    <3>3. x.out \subseteq Touches(x)
      BY DEF Touches
    <3> QED BY <1>2, <2>3, <3>1, <3>2, <3>3
  <2> QED BY <1>3, <2>1, <2>2, <2>3
<1>8. TempsApart'
  BY <1>2, <1>3 DEF FlowInv, TempsApart
<1>9. ScratchKept'
  <2> SUFFICES ASSUME NEW s \in AllStreams, running[s], NEW r \in Head(queue[s]).scratch
               PROVE  contents'[r] = Head(queue[s]).id
    BY <1>4, <1>5 DEF ScratchKept
  <2> QED BY <1>5 DEF FlowInv, ScratchKept
<1>10. Flow'
  <2>1. \A l \in InFlight : l.id \in Int
    BY NotShared
  <2>2. ASSUME NEW r \in Regions \ Shared
        PROVE  Delivers(r, MaxCalls + 1, ideal[r])'
    <3>1. ideal'[r] = IF r \in c.out THEN c.id ELSE before[r]
      BY DEF Launch
    <3>2. CASE r \in c.out
      BY <1>2, <1>3, <1>4, <2>1, <3>1, <3>2 DEF Delivers, NoWriter, LastWriter
    <3>3. CASE r \notin c.out
      <4>1. NoWriter(r, MaxCalls + 1)' => NoWriter(r, MaxCalls + 1)
        BY <1>3 DEF NoWriter
      <4>2. ASSUME NEW l \in InFlight', LastWriter(l, r, MaxCalls + 1)'
            PROVE  l \in InFlight /\ LastWriter(l, r, MaxCalls + 1)
        BY <1>2, <1>3, <3>3, <4>2 DEF LastWriter
      <4> QED BY <3>1, <3>3, <4>1, <4>2 DEF Delivers
    <3> QED BY <3>2, <3>3
  <2>3. ASSUME NEW x \in InFlight', NEW r \in DOMAIN x.reads
        PROVE  Delivers(r, x.id, x.reads[r])'
    <3>1. CASE x \in InFlight
      <4>1. Delivers(r, x.id, x.reads[r])
        BY <3>1 DEF FlowInv, Flow
      <4>2. NoWriter(r, x.id)' => NoWriter(r, x.id)
        BY <1>3 DEF NoWriter
      <4>3. ASSUME NEW l \in InFlight', LastWriter(l, r, x.id)'
            PROVE  l \in InFlight /\ LastWriter(l, r, x.id)
        BY <1>2, <1>3, <1>4, <2>1, <3>1, <4>3 DEF LastWriter
      <4> QED BY <3>1, <4>1, <4>2, <4>3 DEF Delivers
    <3>2. CASE x = k
      <4>1. r \in c.ins /\ x.reads[r] = before[r] /\ x.id = c.id
        BY <1>2, <3>2
      <4>2. r \in Regions \ Shared
        <5>1. Tmp # Srf /\ Units # Srf
          BY DEF Tmp, Srf, Units
        <5> QED BY <4>1, <5>1, StreamConstants DEF Launches, Regions, Shared
      <4>3. NoWriter(r, c.id)' => NoWriter(r, MaxCalls + 1)
        BY <1>3, <1>4 DEF NoWriter
      <4>4. ASSUME NEW l \in InFlight', LastWriter(l, r, c.id)'
            PROVE  l \in InFlight /\ LastWriter(l, r, MaxCalls + 1)
        BY <1>2, <1>3, <1>4, <2>1, <4>4 DEF LastWriter
      <4> QED BY <4>1, <4>2, <4>3, <4>4 DEF Delivers
    <3> QED BY <1>3, <3>1, <3>2
  <2> QED BY <2>2, <2>3 DEF Flow, Regions
<1> QED BY <1>6, <1>7, <1>8, <1>9, <1>10 DEF FlowInv

\* A kernel older than a running one is on a stream not ordered with its, so
\* the two do not conflict.
LEMMA OlderApart ==
  ASSUME StreamInv, FlowInv, NEW s \in AllStreams, running[s],
         NEW l \in InFlight, l.id < Head(queue[s]).id
  PROVE  LET k == Head(queue[s]) IN
         l.out \cap Touches(k) = {} /\ k.out \cap Touches(l) = {}
<1> DEFINE k == Head(queue[s])
<1>1. QueuesOK /\ queue[s] # <<>>
  BY DEF StreamInv, QueuesOK
<1>2. /\ k \in Kernels(s) /\ k \in InFlight /\ k.id \in Int
      /\ \A x \in Kernels(s) : x = k \/ k.id < x.id
      /\ l.id \in Int
  BY <1>1, QueueFacts, NotShared
<1>3. PICK t \in AllStreams : l \in Kernels(t)
  BY DEF InFlight
<1> HIDE DEF k
<1>4. l.id < k.id
  BY DEF k
<1>5. t # s
  BY <1>2, <1>3, <1>4
<1>6. ~Ordered(s, t)
  <2>1. Ordered(s, t) => l.id > k.id
    BY <1>3, <1>5 DEF FlowInv, RunsFirst, k
  <2> QED BY <1>2, <1>4, <2>1
<1>7. ~Ordered(t, s)
  BY <1>6 DEF Ordered
<1>8. l.out \cap Touches(k) = {} /\ k.out \cap Touches(l) = {}
  BY <1>2, <1>3, <1>5, <1>6, <1>7 DEF FlowInv, Apart
<1> QED BY <1>8 DEF k

\* Kernels that run at the same time work in different registers and memory.
LEMMA RunningApart ==
  ASSUME StreamInv, FlowInv, NEW s \in AllStreams, NEW t \in AllStreams, s # t,
         running[s], running[t]
  PROVE  Head(queue[s]).scratch \cap Head(queue[t]).scratch = {}
<1> DEFINE k == Head(queue[s])
           l == Head(queue[t])
<1>1. k \in Kernels(s) /\ l \in Kernels(t) /\ k.id \in Int /\ l.id \in Int
  BY QueueFacts, NotShared DEF StreamInv, QueuesOK
<1>2. ~Ordered(s, t)
  <2>1. Ordered(s, t) => Ordered(t, s)
    BY DEF Ordered
  <2>2. Ordered(s, t) => l.id > k.id /\ k.id > l.id
    BY <1>1, <2>1 DEF FlowInv, RunsFirst
  <2> QED BY <1>1, <2>2
<1> QED BY <1>1, <1>2 DEF FlowInv, Apart

\* A running kernel finds what it was issued for: it computes its result.
LEMMA RunningIntact ==
  ASSUME StreamInv, FlowInv, NEW s \in AllStreams, running[s]
  PROVE  Intact(s)
<1> DEFINE k == Head(queue[s])
<1>1. k \in InFlight
  BY HeadOK DEF StreamInv, QueuesOK
<1>2. ASSUME NEW r \in DOMAIN k.reads
      PROVE  contents[r] = k.reads[r]
  <2>1. Delivers(r, k.id, k.reads[r])
    BY <1>1 DEF FlowInv, Flow
  <2>2. NoWriter(r, k.id)
    BY OlderApart DEF NoWriter, Touches
  <2> QED BY <2>1, <2>2 DEF Delivers
<1>3. \A r \in k.scratch : contents[r] = k.id
  BY DEF FlowInv, ScratchKept
<1>4. \A t \in AllStreams \ {s} : running[t] => k.scratch \cap Head(queue[t]).scratch = {}
  BY RunningApart
<1> QED BY <1>2, <1>3, <1>4 DEF Intact

\* A kernel's end keeps FlowInv.
LEMMA FinishFlow ==
  ASSUME StreamInv, FlowInv, NEW s \in AllStreams, KernelFinish(s)
  PROVE  FlowInv'
<1>k. PICK k : k = Head(queue[s])
  OBVIOUS
<1>1. /\ queue' = [queue EXCEPT ![s] = Tail(@)] /\ ideal' = ideal
      /\ running' = [running EXCEPT ![s] = FALSE] /\ running[s]
      /\ queue[s] # <<>>
  BY DEF KernelFinish, StreamInv, QueuesOK
<1>2. /\ InFlight' = InFlight \ {k}
      /\ Kernels(s)' = Kernels(s) \ {k}
      /\ \A t \in AllStreams \ {s} :
           Kernels(t)' = Kernels(t) /\ queue'[t] = queue[t]
  BY <1>1, <1>k, Retired DEF StreamInv
<1>3. /\ k \in InFlight /\ k.id \in Int /\ k.out \subseteq Chunks
      /\ k.out \cap Shared = {} /\ k.scratch \subseteq Shared
  BY <1>1, <1>k, HeadOK, NotShared
<1>0. Intact(s)
  BY <1>1, RunningIntact
<1>a. \A r \in Regions : contents'[r] = IF r \in k.out \cup k.scratch THEN k.id ELSE contents[r]
  BY <1>k, <1>0 DEF KernelFinish
<1>4. \A r \in Regions \ Shared :
        contents'[r] = IF r \in k.out THEN k.id ELSE contents[r]
  BY <1>3, <1>a
<1>5. \A l \in InFlight : l.id < k.id =>
        l.out \cap Touches(k) = {} /\ k.out \cap Touches(l) = {}
  BY <1>1, <1>k, OlderApart
<1>6. \A l \in InFlight : l.id \in Int /\ (l # k => l.id # k.id)
  <2>1. ASSUME NEW l \in InFlight, l # k PROVE l.id # k.id
    <3>1. PICK t \in AllStreams : l \in Kernels(t)
      BY DEF InFlight
    <3>2. k \in Kernels(s) /\ \A x \in Kernels(s) : x = k \/ k.id < x.id
      BY <1>1, <1>k, QueueFacts DEF StreamInv
    <3>3. CASE t = s
      BY <1>3, <2>1, <3>1, <3>2, <3>3
    <3>4. CASE t # s
      BY <3>1, <3>2, <3>4 DEF StreamInv, QueuesOK
    <3> QED BY <3>3, <3>4
  <2> QED BY <2>1, NotShared
<1>7. \A t \in AllStreams : /\ Kernels(t)' \subseteq Kernels(t)
                           /\ running'[t] => t # s /\ running[t]
  BY <1>1, <1>2 DEF StreamInv, QueuesOK
<1>8. RunsFirst'
  <2> SUFFICES ASSUME NEW t \in AllStreams, running'[t],
                      NEW u \in AllStreams \ {t}, Ordered(t, u),
                      NEW l \in Kernels(u)'
               PROVE  l.id > Head(queue'[t]).id
    BY DEF RunsFirst, Ordered
  <2>1. t # s /\ running[t] /\ l \in Kernels(u) /\ queue'[t] = queue[t]
    BY <1>2, <1>7
  <2> QED BY <2>1 DEF FlowInv, RunsFirst
<1>9. Apart'
  <2> SUFFICES ASSUME NEW t \in AllStreams, NEW u \in AllStreams, t # u,
                      ~Ordered(t, u),
                      NEW x \in Kernels(t)', NEW y \in Kernels(u)'
               PROVE  x.out \cap Touches(y) = {} /\ x.scratch \cap y.scratch = {}
    BY DEF Apart, Ordered, Touches
  <2>1. Kernels(t)' \subseteq Kernels(t) /\ Kernels(u)' \subseteq Kernels(u)
    BY <1>2
  <2>2. x \in Kernels(t) /\ y \in Kernels(u)
    BY <2>1
  <2> QED BY <2>2 DEF FlowInv, Apart
<1>10. TempsApart'
  BY <1>2 DEF FlowInv, TempsApart
<1>11. ScratchKept'
  <2> SUFFICES ASSUME NEW t \in AllStreams, running'[t], NEW r \in Head(queue'[t]).scratch
               PROVE  contents'[r] = Head(queue'[t]).id
    BY DEF ScratchKept
  <2>1. running[t] /\ queue'[t] = queue[t] /\ t # s
    BY <1>2, <1>7
  <2>2. r \in Shared /\ r \notin k.scratch
    <3>1. r \notin k.scratch
      BY <1>1, <1>k, <2>1, RunningApart
    <3>2. Head(queue[t]) \in InFlight
      BY <2>1, HeadOK DEF StreamInv, QueuesOK
    <3> QED BY <2>1, <3>1, <3>2, NotShared
  <2>3. contents'[r] = contents[r]
    BY <1>3, <1>a, <2>2 DEF Regions, Shared
  <2> QED BY <2>1, <2>3 DEF FlowInv, ScratchKept
<1>12. ASSUME NEW r \in Regions \ Shared, NEW i \in Int, NEW v, Delivers(r, i, v),
              k.id >= i => r \notin k.out
       PROVE  Delivers(r, i, v)'
  <2>1. ASSUME NoWriter(r, i)' PROVE contents'[r] = v
    <3>1. CASE r \in k.out
      <4>1. k.id < i /\ contents'[r] = k.id
        BY <1>3, <1>4, <1>12, <3>1
      <4>2. \A l \in InFlight : l.id < i /\ r \in l.out => l.id <= k.id
        BY <1>2, <1>3, <2>1 DEF NoWriter
      <4> QED BY <1>3, <1>12, <3>1, <4>1, <4>2 DEF Delivers, LastWriter
    <3>2. CASE r \notin k.out
      <4>1. NoWriter(r, i)
        BY <1>2, <2>1, <3>2 DEF NoWriter
      <4> QED BY <1>4, <1>12, <3>2, <4>1 DEF Delivers
    <3> QED BY <3>1, <3>2
  <2>2. ASSUME NEW l \in InFlight', LastWriter(l, r, i)'
        PROVE  v = l.id
    <3>1. l \in InFlight /\ l.id \in Int /\ l.id # k.id /\ r \in l.out /\ l.id < i
      BY <1>2, <1>6, <2>2 DEF LastWriter
    <3>2. r \in k.out => k.id <= l.id
      BY <1>3, <1>5, <3>1 DEF Touches
    <3>3. LastWriter(l, r, i)
      BY <1>2, <2>2, <3>1, <3>2 DEF LastWriter
    <3> QED BY <1>12, <3>1, <3>3 DEF Delivers
  <2> QED BY <2>1, <2>2 DEF Delivers
<1>13. Flow'
  <2>1. ASSUME NEW r \in Regions \ Shared PROVE Delivers(r, MaxCalls + 1, ideal[r])'
    <3>1. Delivers(r, MaxCalls + 1, ideal[r]) /\ MaxCalls + 1 \in Int
      BY StreamConstants DEF FlowInv, Flow
    <3>2. k.id < MaxCalls + 1
      BY <1>3, NotShared, StreamConstants
    <3>3. ASSUME NEW v, v = ideal[r] PROVE Delivers(r, MaxCalls + 1, v)'
      BY <1>3, <1>12, <3>1, <3>2, <3>3
    <3> QED BY <1>1, <3>3 DEF Delivers
  <2>2. ASSUME NEW x \in InFlight', NEW r \in DOMAIN x.reads
        PROVE  Delivers(r, x.id, x.reads[r])'
    <3>1. /\ x \in InFlight /\ x # k /\ x.id \in Int /\ x.id # k.id
          /\ r \in Regions \ Shared
      BY <1>2, <1>6, NotShared
    <3>2. Delivers(r, x.id, x.reads[r])
      BY <3>1 DEF FlowInv, Flow
    <3>3. k.id >= x.id => r \notin k.out
      BY <1>3, <1>5, <3>1 DEF Touches
    <3> QED BY <1>12, <3>1, <3>2, <3>3
  <2> QED BY <2>1, <2>2 DEF Flow, Regions
<1> QED BY <1>8, <1>9, <1>10, <1>11, <1>13 DEF FlowInv

\* A kernel's start keeps FlowInv.
LEMMA StartFlow ==
  ASSUME StreamInv, FlowInv, NEW s \in AllStreams, KernelStart(s)
  PROVE  FlowInv'
<1>k. PICK k : k = Head(queue[s])
  OBVIOUS
<1>1. /\ queue' = queue /\ ideal' = ideal /\ CanStart(s) /\ queue[s] # <<>>
      /\ running' = [running EXCEPT ![s] = TRUE] /\ ~running[s]
  BY DEF KernelStart, CanStart
<1>2. /\ InFlight' = InFlight
      /\ \A t \in AllStreams : Kernels(t)' = Kernels(t)
  BY <1>1, SameQueue
<1>4. \A r \in Regions : contents'[r] = IF r \in k.scratch THEN k.id ELSE contents[r]
  BY <1>k DEF KernelStart
<1>b. k.scratch \subseteq Shared /\ Shared \subseteq Regions
  BY <1>1, <1>k, HeadOK, NotShared DEF Shared, Regions
<1>3. \A r \in Regions \ Shared : contents'[r] = contents[r]
  BY <1>4, <1>b
<1>5. k \in Kernels(s) /\ k.id \in Int
  BY <1>1, <1>k, QueueFacts, NotShared DEF StreamInv
<1>6. \A t \in AllStreams : running'[t] <=> (t = s \/ running[t])
  BY <1>1 DEF StreamInv, QueuesOK
<1>7. RunsFirst'
  <2> SUFFICES ASSUME NEW t \in AllStreams, t = s \/ running[t],
                      NEW u \in AllStreams \ {t}, Ordered(t, u),
                      NEW l \in Kernels(u)
               PROVE  l.id > Head(queue[t]).id
    BY <1>1, <1>2, <1>6 DEF RunsFirst, Ordered
  <2>1. CASE t = s
    BY <1>1, <2>1 DEF CanStart
  <2>2. CASE running[t]
    BY <2>2 DEF FlowInv, RunsFirst
  <2> QED BY <2>1, <2>2
<1>8. Apart' /\ TempsApart'
  BY <1>2 DEF FlowInv, Apart, TempsApart, Ordered, Touches
<1>9. ScratchKept'
  <2> SUFFICES ASSUME NEW t \in AllStreams, t = s \/ running[t],
                      NEW r \in Head(queue[t]).scratch
               PROVE  contents'[r] = Head(queue[t]).id
    BY <1>1, <1>6 DEF ScratchKept
  <2>1. CASE t = s
    BY <1>4, <1>b, <1>k, <2>1
  <2>2. CASE t # s /\ running[t]
    <3>1. contents[r] = Head(queue[t]).id
      BY <2>2 DEF FlowInv, ScratchKept
    <3>2. /\ Head(queue[t]) \in Kernels(t) /\ Head(queue[t]).id \in Int
          /\ Head(queue[t]).scratch \subseteq Shared
      BY <2>2, QueueFacts, NotShared DEF StreamInv, QueuesOK
    <3>3. Ordered(s, t) => FALSE
      <4> SUFFICES ASSUME Ordered(s, t) PROVE FALSE
        OBVIOUS
      <4>1. Head(queue[t]).id > k.id
        BY <1>1, <1>k, <2>2, <3>2 DEF CanStart
      <4>2. k.id > Head(queue[t]).id
        BY <1>5, <2>2 DEF FlowInv, RunsFirst, Ordered
      <4> QED BY <1>5, <3>2, <4>1, <4>2
    <3>4. k.scratch \cap Head(queue[t]).scratch = {}
      BY <1>5, <2>2, <3>2, <3>3 DEF FlowInv, Apart
    <3>5. r \in Regions /\ r \notin k.scratch
      BY <1>b, <3>2, <3>4
    <3> QED BY <1>4, <3>1, <3>5
  <2> QED BY <2>1, <2>2
<1>10. Flow'
  <2>1. ASSUME NEW r \in Regions \ Shared, NEW i, NEW v, Delivers(r, i, v)
        PROVE  Delivers(r, i, v)'
    BY <1>2, <1>3, <2>1 DEF Delivers, NoWriter, LastWriter
  <2>2. ASSUME NEW r \in Regions \ Shared PROVE Delivers(r, MaxCalls + 1, ideal[r])'
    <3>1. Delivers(r, MaxCalls + 1, ideal[r])
      BY DEF FlowInv, Flow
    <3>2. ASSUME NEW v, v = ideal[r] PROVE Delivers(r, MaxCalls + 1, v)'
      BY <2>1, <3>1, <3>2
    <3> QED BY <1>1, <3>2 DEF Delivers
  <2>3. ASSUME NEW x \in InFlight, NEW r \in DOMAIN x.reads
        PROVE  Delivers(r, x.id, x.reads[r])'
    <3>1. r \in Regions \ Shared
      BY NotShared
    <3>2. Delivers(r, x.id, x.reads[r])
      BY DEF FlowInv, Flow
    <3> QED BY <2>1, <3>1, <3>2
  <2> QED BY <1>2, <2>2, <2>3 DEF Flow, Regions
<1> QED BY <1>7, <1>8, <1>9, <1>10 DEF FlowInv

\* Steps that touch neither kernels nor memory.
LEMMA SameFlow ==
  ASSUME StreamInv, FlowInv, queue' = queue, running' = running,
         contents' = contents, ideal' = ideal
  PROVE  FlowInv'
<1>1. InFlight' = InFlight /\ \A t \in AllStreams : Kernels(t)' = Kernels(t)
  BY SameQueue
<1>2. RunsFirst' /\ Apart' /\ TempsApart' /\ ScratchKept'
  BY <1>1 DEF FlowInv, RunsFirst, Apart, TempsApart, ScratchKept, Ordered, Touches
<1>3. Flow'
  BY <1>1 DEF FlowInv, Flow, Delivers, NoWriter, LastWriter, Regions
<1> QED BY <1>2, <1>3 DEF FlowInv

\* A chunk no kernel writes becomes a buffer with what it holds.
LEMMA CreateFlow ==
  ASSUME StreamInv, FlowInv, NEW p \in Chunks, PimCreateBo(p)
  PROVE  FlowInv'
<1>1. /\ queue' = queue /\ running' = running /\ contents' = contents
      /\ \A r \in Regions : ideal'[r] = IF r = p THEN contents[p] ELSE ideal[r]
  BY DEF PimCreateBo, StreamInv, MemoryOK
<1>2. InFlight' = InFlight /\ \A t \in AllStreams : Kernels(t)' = Kernels(t)
  BY <1>1, SameQueue
<1>3. RunsFirst' /\ Apart' /\ TempsApart' /\ ScratchKept'
  BY <1>1, <1>2 DEF FlowInv, RunsFirst, Apart, TempsApart, ScratchKept, Ordered, Touches
<1>4. \A l \in InFlight : p \notin l.out
  BY DEF PimCreateBo, StreamInv, QueuesOK, KernelOK
<1>5. Flow'
  <2>1. ASSUME NEW r \in Regions \ Shared, NEW i, NEW v
        PROVE  Delivers(r, i, v)' <=> Delivers(r, i, v)
    BY <1>1, <1>2 DEF Delivers, NoWriter, LastWriter
  <2>2. ASSUME NEW r \in Regions \ Shared PROVE Delivers(r, MaxCalls + 1, ideal[r])'
    <3>1. CASE r = p
      BY <1>1, <1>2, <1>4, <3>1 DEF Delivers, NoWriter, LastWriter
    <3>2. CASE r # p
      BY <1>1, <1>2, <3>2 DEF FlowInv, Flow, Delivers, NoWriter, LastWriter
    <3> QED BY <3>1, <3>2
  <2>3. ASSUME NEW x \in InFlight, NEW r \in DOMAIN x.reads
        PROVE  Delivers(r, x.id, x.reads[r])'
    BY <2>1, NotShared DEF FlowInv, Flow
  <2> QED BY <1>2, <2>2, <2>3 DEF Flow, Regions
<1> QED BY <1>3, <1>5 DEF FlowInv

\* Unordered streams are more than one.
LEMMA NotOneStream ==
  ASSUME NEW s \in AllStreams, NEW t \in AllStreams, s # t, ~Ordered(s, t)
  PROVE  ~OneStream
  BY DEF AllStreams, Ordered, OneStream

\* A call that launches at once keeps FlowInv.
LEMMA DirectFlow ==
  ASSUME Separable, StreamInv, FlowInv, NEW c, Direct(c), Execute(c)
  PROVE  FlowInv'
<1>1. Launches(c, ideal) /\ Launch(c, ideal)
  BY DirectLaunches
<1>2. /\ contents' = contents /\ RaceFree(c.stream, c.ins, c.out)
      /\ c.op \in Ops /\ c.op \notin {"bn", "scalar"}
      /\ c.out \subseteq Chunks /\ c.temp = {} /\ c.stream \in AllStreams
  <2>1. mine \subseteq Chunks
    BY DEF StreamInv, MemoryOK
  <2> QED BY <2>1 DEF Execute, Direct, Fresh, Call
<1>3. \A r \in Regions \ Shared :
        /\ NoWriter(r, MaxCalls + 1) => contents'[r] = ideal[r]
        /\ \A l \in InFlight : LastWriter(l, r, MaxCalls + 1) => ideal[r] = l.id
  BY <1>2 DEF FlowInv, Flow, Delivers
<1>4. ASSUME NEW t \in AllStreams \ {c.stream}, ~Ordered(c.stream, t),
             NEW l \in Kernels(t)
      PROVE  /\ c.out \cap Touches(l) = {} /\ l.out \cap c.ins = {}
             /\ Scratch(c.op) \cap l.scratch = {}
  <2>1. ~OneStream
    BY <1>2, <1>4, NotOneStream
  <2>2. Scratch(c.op) = {}
    BY <1>2, <2>1 DEF Separable, OnlyRocblas, Scratch
  <2>3. l.temp \subseteq {Srf}
    BY <2>1 DEF FlowInv, TempsApart, InFlight
  <2>4. c.out \cap Operands(l) = {} /\ c.ins \cap l.out = {}
    BY <1>2, <1>4 DEF RaceFree
  <2>5. c.out \cap Touches(l) = {}
    BY <1>2, <2>3, <2>4, StreamConstants DEF Operands, Touches
  <2> QED BY <2>2, <2>4, <2>5
<1> QED BY <1>1, <1>2, <1>3, <1>4, LaunchFlow

\* A copy waits until nothing is in flight; then memory is as if the calls had
\* run one after the other.
LEMMA CopyFlow ==
  ASSUME Separable, StreamInv, FlowInv, hipMemcpy
  PROVE  FlowInv'
<1>1. InFlight = {} /\ \A s \in AllStreams : Kernels(s) = {}
  BY DEF hipMemcpy, CopyReady, InFlight
<1>2. \A r \in Regions \ Shared : contents[r] = ideal[r]
  BY <1>1 DEF FlowInv, Flow, Delivers, NoWriter
<1>3. contents' = Fill(contents)
  BY DEF hipMemcpy, Fill
<1>4. \A r \in Regions \ Shared : contents'[r] = Fill(ideal)[r]
  BY <1>2, <1>3 DEF Fill
<1>5. CASE host.c.op # "upload"
  <2>1. PICK c : c = host.c
    OBVIOUS
  <2>2. PICK before : before = Fill(ideal)
    OBVIOUS
  <2>3. Launches(c, before) /\ Launch(c, before)
    <3>1. Launches(host.c, Fill(ideal)) /\ Launch(host.c, Fill(ideal))
      BY <1>5, CopiedLaunches
    <3> QED BY <2>1, <2>2, <3>1 DEF Launches, Launch, Wait
  <2>4. OneStream \/ c.temp \subseteq {Srf}
    <3>1. c.op \in Ops /\ (c.op = "scalar" \/ c.temp \subseteq {Srf})
      BY <1>5, <2>1 DEF StreamInv, HostOK, hipMemcpy, Pending
    <3> QED BY <3>1 DEF Separable, OnlyRocblas
  <2>5. \A r \in Regions \ Shared : contents'[r] = before[r]
    BY <1>4, <2>2
  <2> QED BY <1>1, <2>3, <2>4, <2>5, LaunchFlow
<1>6. CASE host.c.op = "upload"
  <2>1. ideal' = Fill(ideal) /\ queue' = queue /\ running' = running
    BY <1>6 DEF hipMemcpy, Fill
  <2>2. InFlight' = {} /\ \A s \in AllStreams : Kernels(s)' = {}
    BY <1>1, <2>1, SameQueue
  <2>3. \A s \in AllStreams : ~running'[s]
    BY <1>1, <2>1, QueueFacts DEF StreamInv, QueuesOK
  <2>4. Flow'
    BY <1>4, <2>1, <2>2 DEF Flow, Delivers, Regions
  <2> QED BY <2>2, <2>3, <2>4 DEF FlowInv, RunsFirst, Apart, TempsApart, ScratchKept
<1> QED BY <1>5, <1>6

\* Every step keeps FlowInv.
LEMMA FlowNextInv ==
  ASSUME Separable
  PROVE  StreamInv /\ FlowInv /\ [Next]_vars => FlowInv'
<1> SUFFICES ASSUME StreamInv, FlowInv, [Next]_vars PROVE FlowInv'
  OBVIOUS
<1>1. CASE Client
  <2>1. ASSUME NEW c, Direct(c), Execute(c) PROVE FlowInv'
    BY <2>1, DirectFlow
  <2>2. ASSUME NEW c, NEW t, ExecuteFilling(c, t) PROVE FlowInv'
    BY <2>2, SameFlow DEF ExecuteFilling
  <2>3. ASSUME NEW o, Upload(o) PROVE FlowInv'
    BY <2>3, SameFlow DEF Upload
  <2>4. ASSUME NEW s \in AllStreams, PimSynchronize(s) PROVE FlowInv'
    BY <2>4, SameFlow DEF PimSynchronize
  <2>5. ASSUME NEW p \in Chunks, PimDestroyBo(p) PROVE FlowInv'
    BY <2>5, SameFlow DEF PimDestroyBo
  <2>6. CASE PimExecuteScalarNull
    BY <2>6, SameFlow DEF PimExecuteScalarNull
  <2> QED BY <1>1, <2>1, <2>2, <2>3, <2>4, <2>5, <2>6, ClientSteps, CreateFlow
<1>2. CASE hipMemcpy
  BY <1>2, CopyFlow
<1>3. CASE Return
  BY <1>3, SameFlow DEF Return
<1>4. CASE Device
  BY <1>4, StartFlow, FinishFlow DEF Device
<1>5. CASE UNCHANGED vars
  BY <1>5, SameFlow DEF vars
<1> QED BY <1>1, <1>2, <1>3, <1>4, <1>5 DEF Next

-----------------------------------------------------------------------------
(* What calls promise by returning.                                        *)

\* A launch that blocks waits for its own kernel, the last one.
LEMMA LaunchWaits ==
  ASSUME StreamInv, NEW c, NEW before, Launches(c, before), Launch(c, before)
  PROVE  HostWaits'
<1>k. PICK k : k = KernelOf(c, before)
  OBVIOUS
<1>1. queue' = [queue EXCEPT ![c.stream] = Append(@, k)] /\ Wait(c)
  BY <1>k DEF Launch, KernelOf
<1>2. k.id = c.id /\ k.out = c.out
  BY <1>k, KernelOfFields
<1>3. /\ InFlight' = InFlight \cup {k}
      /\ Kernels(c.stream)' = Kernels(c.stream) \cup {k}
  BY <1>1, Issued DEF StreamInv, Launches
<1>4. k \in WaitedFor(c.stream)'
  BY <1>3 DEF WaitedFor
<1>5. \A l \in InFlight' : l = k \/ l.id < k.id
  BY <1>2, <1>3 DEF Launches
<1>6. ASSUME host'.pc = "sync"
      PROVE  \A p \in host'.c.out, l \in InFlight' \ WaitedFor(host.c.stream)' : p \in l.out =>
               \E x \in WaitedFor(host.c.stream)' : p \in x.out /\ l.id < x.id
  <2>1. host'.c = c
    BY <1>1, <1>6, WaitHost
  <2>2. \A l \in InFlight' \ WaitedFor(c.stream)' : l.id < k.id
    BY <1>4, <1>5
  <2>3. WaitedFor(host.c.stream)' = WaitedFor(c.stream)'
    BY <2>1 DEF WaitedFor
  <2> QED BY <1>2, <1>4, <2>1, <2>2, <2>3
<1>7. host'.pc = "idle" => \A d \in host'.done : d.op = "gemv"
  BY <1>1, WaitHost
<1> QED BY <1>6, <1>7 DEF HostWaits

\* A kernel that finishes is the last of those a call waits for to write a
\* region only when no other is still to write it.
LEMMA FinishWaits ==
  ASSUME StreamInv, FlowInv, HostWaits, NEW s \in AllStreams, KernelFinish(s)
  PROVE  HostWaits'
<1>k. PICK k : k = Head(queue[s])
  OBVIOUS
<1>1. /\ queue' = [queue EXCEPT ![s] = Tail(@)] /\ host' = host /\ mine' = mine
      /\ running[s] /\ queue[s] # <<>>
  BY DEF KernelFinish, StreamInv, QueuesOK
<1>2. /\ InFlight' = InFlight \ {k}
      /\ Kernels(s)' = Kernels(s) \ {k}
      /\ \A t \in AllStreams \ {s} : Kernels(t)' = Kernels(t)
      /\ \A t \in AllStreams \ {s} : k \notin Kernels(t)
  <2>1. \A t \in AllStreams \ {s} : k \notin Kernels(t)
    BY <1>1, <1>k, QueueFacts DEF StreamInv, QueuesOK
  <2> QED BY <1>1, <1>k, <2>1, Retired DEF StreamInv
<1>3. \A l \in InFlight : l.id < k.id => l.out \cap k.out = {}
  BY <1>1, <1>k, OlderApart DEF Touches
<1>4. host.pc = "sync" =>
        WaitedFor(host.c.stream)' = WaitedFor(host.c.stream) \ {k}
  BY <1>1, <1>2 DEF WaitedFor, StreamInv, HostOK
<1>5. ASSUME host.pc = "sync", NEW p \in host.c.out,
             NEW l \in InFlight' \ WaitedFor(host.c.stream)', p \in l.out
      PROVE  \E x \in WaitedFor(host.c.stream)' : p \in x.out /\ l.id < x.id
  <2>2. l \in InFlight \ WaitedFor(host.c.stream)
    BY <1>2, <1>4, <1>5
  <2>3. PICK x \in WaitedFor(host.c.stream) : p \in x.out /\ l.id < x.id
    BY <1>5, <2>2 DEF HostWaits
  <2>4. x # k
    BY <1>3, <1>5, <2>2, <2>3
  <2> QED BY <1>4, <1>5, <2>3, <2>4
<1>6. ASSUME host.pc = "idle"
      PROVE  \A c \in host.done : c.op # "gemv" =>
               \A p \in c.out \cap mine, l \in InFlight' : p \notin l.out
  BY <1>2, <1>6 DEF HostWaits
<1> QED BY <1>1, <1>5, <1>6 DEF HostWaits

\* Steps that leave the kernels.
LEMMA SameWaits ==
  ASSUME HostWaits, queue' = queue, host' = host, mine' \subseteq mine
  PROVE  HostWaits'
<1>1. InFlight' = InFlight /\ \A t \in AllStreams : Kernels(t)' = Kernels(t)
  BY SameQueue
<1>2. WaitedFor(host.c.stream)' = WaitedFor(host.c.stream)
  BY DEF WaitedFor, InFlight, Kernels
<1> QED BY <1>1, <1>2 DEF HostWaits

\* Every step keeps HostWaits.
LEMMA WaitsNextInv ==
  StreamInv /\ FlowInv /\ HostWaits /\ [Next]_vars => HostWaits'
<1> SUFFICES ASSUME StreamInv, FlowInv, HostWaits, [Next]_vars PROVE HostWaits'
  OBVIOUS
<1>0. ASSUME host'.pc \notin {"idle", "sync"} PROVE HostWaits'
  BY <1>0 DEF HostWaits
<1>1. CASE Client
  <2>1. ASSUME NEW c, Direct(c), Execute(c) PROVE HostWaits'
    BY <2>1, DirectLaunches, LaunchWaits
  <2>2. ASSUME NEW c, NEW t, ExecuteFilling(c, t) PROVE HostWaits'
    BY <1>0, <2>2 DEF ExecuteFilling
  <2>3. ASSUME NEW o, Upload(o) PROVE HostWaits'
    BY <1>0, <2>3 DEF Upload
  <2>4. ASSUME NEW s \in AllStreams, PimSynchronize(s) PROVE HostWaits'
    <3>1. /\ queue' = queue /\ host'.pc = "sync" /\ host'.c.stream = s
          /\ host'.c.out = Awaited(s)
      BY <2>4 DEF PimSynchronize, Call
    <3>2. InFlight' = InFlight /\ WaitedFor(host.c.stream)' = WaitedFor(s)
      BY <3>1, SameQueue DEF WaitedFor
    <3>3. \A p \in Awaited(s), l \in InFlight \ WaitedFor(s) : p \in l.out =>
            \E k \in WaitedFor(s) : p \in k.out /\ l.id < k.id
      BY DEF Awaited
    <3> QED BY <3>1, <3>2, <3>3 DEF HostWaits
  <2>5. ASSUME NEW p \in Chunks, PimDestroyBo(p) PROVE HostWaits'
    BY <2>5, SameWaits DEF PimDestroyBo
  <2>6. ASSUME NEW p \in Chunks, PimCreateBo(p) PROVE HostWaits'
    <3>1. /\ queue' = queue /\ host' = host /\ host.pc = "idle"
          /\ mine' = mine \cup {p} /\ p \notin mine
      BY <2>6 DEF PimCreateBo
    <3>2. \A l \in InFlight : p \notin l.out
      BY <3>1 DEF StreamInv, QueuesOK, KernelOK
    <3>3. InFlight' = InFlight
      BY <3>1, SameQueue
    <3> QED BY <3>1, <3>2, <3>3 DEF HostWaits
  <2>7. CASE PimExecuteScalarNull
    BY <1>0, <2>7 DEF PimExecuteScalarNull
  <2> QED BY <1>1, <2>1, <2>2, <2>3, <2>4, <2>5, <2>6, <2>7, ClientSteps
<1>2. CASE hipMemcpy
  <2>1. CASE host.c.op # "upload"
    BY <1>2, <2>1, CopiedLaunches, LaunchWaits
  <2>2. CASE host.c.op = "upload"
    <3>1. /\ InFlight = {} /\ queue' = queue /\ host'.pc = "idle"
      BY <1>2, <2>2 DEF hipMemcpy, CopyReady, Returned, Idle
    <3>2. InFlight' = {}
      BY <3>1, SameQueue
    <3> QED BY <3>1, <3>2 DEF HostWaits
  <2> QED BY <2>1, <2>2
<1>3. CASE Return
  <2>1. /\ queue' = queue /\ mine' = mine
        /\ host' = [pc |-> "idle", done |-> IF host.c.block THEN {[op |-> host.c.op, out |-> host.c.out]}
                                            ELSE {}]
    BY <1>3 DEF Return, Returned, Idle
  <2>2. InFlight' = InFlight
    BY <2>1, SameQueue
  <2>3. \A p \in host.c.out, l \in InFlight : p \notin l.out
    <3>1. CASE host.pc = "sync" /\ Drained(host.c.stream)
      BY <3>1 DEF HostWaits, Drained
    <3>2. CASE InFlight = {}
      BY <3>2
    <3> QED BY <1>3, <3>1, <3>2 DEF Return
  <2>4. \A c \in host'.done : c.out = host.c.out
    BY <2>1
  <2>5. host'.pc = "idle"
    BY <2>1
  <2> QED BY <2>2, <2>3, <2>4, <2>5 DEF HostWaits
<1>4. CASE Device
  <2>1. ASSUME NEW s \in AllStreams, KernelStart(s) PROVE HostWaits'
    BY <2>1, SameWaits DEF KernelStart
  <2> QED BY <1>4, <2>1, FinishWaits DEF Device
<1>5. CASE UNCHANGED vars
  BY <1>5, SameWaits DEF vars
<1> QED BY <1>1, <1>2, <1>3, <1>4, <1>5 DEF Next

\* All three are invariants.
LEMMA FlowInvHolds ==
  ASSUME Separable
  PROVE  Spec => [](StreamInv /\ FlowInv /\ HostWaits)
<1>1. StreamInv /\ FlowInv /\ HostWaits /\ [Next]_vars => StreamInv' /\ FlowInv' /\ HostWaits'
  BY StreamNextInv, FlowNextInv, WaitsNextInv
<1>2. Init => HostWaits
  BY DEF Init, HostWaits, Idle
<1> QED BY <1>1, <1>2, StreamInitInv, FlowInitInv, PTL DEF Spec

\* Where no kernel is still to write, the client's buffers are as if the calls
\* had run one after the other.
LEMMA FlowSequential ==
  ASSUME StreamInv, FlowInv, NEW p \in mine, \A k \in InFlight : p \notin k.out
  PROVE  contents[p] = ideal[p]
<1>1. p \in Regions \ Shared
  BY StreamConstants DEF StreamInv, MemoryOK, Regions, Shared
<1> QED BY <1>1 DEF FlowInv, Flow, Delivers, NoWriter

\* With one created stream, or with any number of them and kernels of rocblas
\* only, the calls leave in the client's buffers what they would have left one
\* after the other: the registers of the channels, pim_gemv_tmp_buffer_,
\* d_srf_bin_buffer_ and the scalars freed early disturb no kernel in flight.
THEOREM StreamsSequential ==
  ASSUME OneStream \/ OnlyRocblas
  PROVE  Spec => []SequentialResult
<1>1. Separable
  BY DEF Separable
<1>2. StreamInv /\ FlowInv => SequentialResult
  BY FlowSequential DEF SequentialResult
<1> QED BY <1>1, <1>2, FlowInvHolds, PTL

\* Under the same conditions a call that waits, by block, by copying or as
\* PimSynchronize, has what it waited for in the client's buffers when it
\* returns, and as long as no other call is made.
THEOREM StreamsWaited ==
  ASSUME OneStream \/ OnlyRocblas
  PROVE  Spec => []WaitedResult
<1>1. Separable
  BY DEF Separable
<1>2. StreamInv /\ FlowInv /\ HostWaits => WaitedResult
  <2> SUFFICES ASSUME StreamInv, FlowInv, HostWaits, host.pc = "idle",
                      NEW c \in host.done, c.op # "gemv", NEW p \in c.out \cap mine
               PROVE  contents[p] = ideal[p]
    BY DEF WaitedResult, Ready
  <2>1. \A l \in InFlight : p \notin l.out
    BY DEF HostWaits
  <2> QED BY <2>1, FlowSequential
<1> QED BY <1>1, <1>2, FlowInvHolds, PTL

\* A kernel that runs finds what its call left there for it to read, and no
\* registers or partial results but its own.
KernelsIntact ==
  \A s \in AllStreams : running[s] => Intact(s)

\* Under the same conditions no kernel ever finishes on memory or registers that
\* another call has disturbed (the launches of HipPimExecutor).
THEOREM StreamsIntact ==
  ASSUME OneStream \/ OnlyRocblas
  PROVE  Spec => []KernelsIntact
<1>1. Separable
  BY DEF Separable
<1>2. StreamInv /\ FlowInv => KernelsIntact
  BY RunningIntact DEF KernelsIntact
<1> QED BY <1>1, <1>2, FlowInvHolds, PTL
=============================================================================
